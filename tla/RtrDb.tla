------------------------------- MODULE RtrDb -------------------------------
(***************************************************************************)
(* The DB worker threads of the RTR server, src/rtr/db.c, and the         *)
(* connection threads that feed them.                                      *)
(*                                                                         *)
(* A DB thread loops in db_main_loop: sem_wait on db_semaphore, then       *)
(* try_service_existing_request (a request parked in                       *)
(* db_currently_processing), then try_service_new_request (Queue_trypop    *)
(* on db_request_queue), and service_request answers the request on the   *)
(* request's own response_queue with a post on its response_semaphore.    *)
(*                                                                         *)
(* service_request is the stub of db.c 175-179: every request is answered *)
(* by one response (is_done) and freed; none is ever put back in          *)
(* db_currently_processing, so that bag stays empty and                   *)
(* find_existing_request_to_service always yields NULL.                   *)
(*                                                                         *)
(* The connection threads (connection_main, not in the repository) are    *)
(* the environment, following the protocol db.c 165-173 describes: push a *)
(* request and post db_semaphore; set cancel_request; take a response off *)
(* the response queue and post db_semaphore again.                         *)
(***************************************************************************)
EXTENDS Naturals, Sequences, FiniteSets

CONSTANTS
    DbThreads,     \* the DB threads started with db_main
    Requests,      \* the db_request objects the connection threads create
    NULL,          \* no request held
    AllocCanFail   \* whether malloc may fail (the thread then pthread_exits)

ASSUME NULL \notin Requests /\ AllocCanFail \in BOOLEAN

VARIABLES
    dbSem,      \* value of db_semaphore
    reqQueue,   \* db_request_queue
    pc,         \* per DB thread: "wait" | "look" | "serve" | "exited"
    held,       \* per DB thread: run_state->request_state's request, or NULL
    cxn,        \* per request, its connection thread: "new" | "pushed" | "posted"
    cancel,     \* requests whose cancel_request is set
    respQ,      \* per request: response_queue, a sequence of response kinds
    respSem,    \* per request: value of response_semaphore
    taken       \* requests whose response the connection thread took

vars == <<dbSem, reqQueue, pc, held, cxn, cancel, respQ, respSem, taken>>

Init ==
    /\ dbSem = 0
    /\ reqQueue = <<>>
    /\ pc = [t \in DbThreads |-> "wait"]
    /\ held = [t \in DbThreads |-> NULL]
    /\ cxn = [r \in Requests |-> "new"]
    /\ cancel = {}
    /\ respQ = [r \in Requests |-> <<>>]
    /\ respSem = [r \in Requests |-> 0]
    /\ taken = {}

----------------------------------------------------------------------------
(* DB threads                                                              *)

\* Mutant of Wake: the semaphore taken without waiting for it (sem_trywait
\* with its result ignored).
WakeNoWait(t) ==
    /\ pc[t] = "wait"
    /\ dbSem' = dbSem - 1
    /\ pc' = [pc EXCEPT ![t] = "look"]
    /\ UNCHANGED <<reqQueue, held, cxn, cancel, respQ, respSem, taken>>

\* wait_on_semaphore: sem_wait(db_semaphore) blocks until it is positive.
Wake(t) ==
    /\ pc[t] = "wait"
    /\ dbSem > 0
    /\ dbSem' = dbSem - 1
    /\ pc' = [pc EXCEPT ![t] = "look"]
    /\ UNCHANGED <<reqQueue, held, cxn, cancel, respQ, respSem, taken>>

\* Mutant of Look: the head of the queue read without removing it.
LookPeek(t) ==
    /\ pc[t] = "look"
    /\ IF reqQueue = <<>>
       THEN /\ pc' = [pc EXCEPT ![t] = "wait"]
            /\ UNCHANGED <<reqQueue, held>>
       ELSE /\ held' = [held EXCEPT ![t] = Head(reqQueue)]
            /\ UNCHANGED reqQueue
            /\ pc' = [pc EXCEPT ![t] = "serve"]
    /\ UNCHANGED <<dbSem, cxn, cancel, respQ, respSem, taken>>

(***************************************************************************)
(* After the wake: try_service_existing_request finds db_currently         *)
(* processing empty, then try_service_new_request pops the queue; an empty *)
(* queue ends this round of db_main_loop.                                  *)
(***************************************************************************)
Look(t) ==
    /\ pc[t] = "look"
    /\ IF reqQueue = <<>>
       THEN /\ pc' = [pc EXCEPT ![t] = "wait"]
            /\ UNCHANGED <<reqQueue, held>>
       ELSE /\ held' = [held EXCEPT ![t] = Head(reqQueue)]
            /\ reqQueue' = Tail(reqQueue)
            /\ pc' = [pc EXCEPT ![t] = "serve"]
    /\ UNCHANGED <<dbSem, cxn, cancel, respQ, respSem, taken>>

\* send_empty_response for a cancelled request, else the stub's send_error:
\* one response pushed on the request's queue, then sem_post.
Respond(r) ==
    /\ respQ' = [respQ EXCEPT ![r] = Append(@, IF r \in cancel THEN "empty" ELSE "error")]
    /\ respSem' = [respSem EXCEPT ![r] = @ + 1]

\* Mutant of Serve: db_main runs db_main_loop once instead of in a loop.
ServeOnce(t) ==
    /\ pc[t] = "serve"
    /\ Respond(held[t])
    /\ held' = [held EXCEPT ![t] = NULL]
    /\ pc' = [pc EXCEPT ![t] = "exited"]
    /\ UNCHANGED <<dbSem, reqQueue, cxn, cancel, taken>>

\* service_request: answer the held request, free its state, loop.
Serve(t) ==
    /\ pc[t] = "serve"
    /\ Respond(held[t])
    /\ held' = [held EXCEPT ![t] = NULL]
    /\ pc' = [pc EXCEPT ![t] = "wait"]
    /\ UNCHANGED <<dbSem, reqQueue, cxn, cancel, taken>>

\* malloc of the request state or of the response fails: pthread_exit with
\* the popped request still held.
AllocFail(t) ==
    /\ AllocCanFail
    /\ pc[t] = "serve"
    /\ pc' = [pc EXCEPT ![t] = "exited"]
    /\ UNCHANGED <<dbSem, reqQueue, held, cxn, cancel, respQ, respSem, taken>>

----------------------------------------------------------------------------
(* Connection threads (environment)                                        *)

Push(r) ==
    /\ cxn[r] = "new"
    /\ cxn' = [cxn EXCEPT ![r] = "pushed"]
    /\ reqQueue' = Append(reqQueue, r)
    /\ UNCHANGED <<dbSem, pc, held, cancel, respQ, respSem, taken>>

PostDb(r) ==
    /\ cxn[r] = "pushed"
    /\ cxn' = [cxn EXCEPT ![r] = "posted"]
    /\ dbSem' = dbSem + 1
    /\ UNCHANGED <<reqQueue, pc, held, cancel, respQ, respSem, taken>>

Cancel(r) ==
    /\ cxn[r] # "new" /\ r \notin cancel /\ r \notin taken
    /\ cancel' = cancel \cup {r}
    /\ UNCHANGED <<dbSem, reqQueue, pc, held, cxn, respQ, respSem, taken>>

\* sem_wait(response_semaphore), pop the response, post db_semaphore.
Take(r) ==
    /\ respSem[r] > 0
    /\ respSem' = [respSem EXCEPT ![r] = @ - 1]
    /\ respQ' = [respQ EXCEPT ![r] = Tail(@)]
    /\ taken' = taken \cup {r}
    /\ dbSem' = dbSem + 1
    /\ UNCHANGED <<reqQueue, pc, held, cxn, cancel>>

Next ==
    \/ \E t \in DbThreads : Wake(t) \/ Look(t) \/ Serve(t) \/ AllocFail(t)
    \/ \E r \in Requests : Push(r) \/ PostDb(r) \/ Cancel(r) \/ Take(r)

(***************************************************************************)
(* The DB threads are pthreads the scheduler keeps running: weak fairness *)
(* on each of their steps.  A connection thread posts db_semaphore right  *)
(* after its push, so that step is weakly fair too; whether it cancels or *)
(* takes its response is up to the peer, so those steps are not fair.     *)
(***************************************************************************)
Spec ==
    /\ Init /\ [][Next]_vars
    /\ \A t \in DbThreads : WF_vars(Wake(t)) /\ WF_vars(Look(t)) /\ WF_vars(Serve(t))
    /\ \A r \in Requests : WF_vars(PostDb(r))

----------------------------------------------------------------------------
(* Properties                                                              *)

Answered(r) == respQ[r] # <<>> \/ r \in taken

\* A request is in exactly one place at a time: waiting in db_request_queue,
\* held by one DB thread, or answered by one response, never two; Queue_trypop
\* hands each request to a single thread.
RequestOnce ==
    \A r \in Requests :
        cxn[r] # "new" =>
            Len(SelectSeq(reqQueue, LAMBDA x : x = r))
              + Cardinality({t \in DbThreads : held[t] = r})
              + Len(respQ[r]) + (IF r \in taken THEN 1 ELSE 0) = 1

\* A request a DB thread popped and took with it when it pthread_exited
\* on a failed malloc (db.c 240-250): nothing will ever answer it.
LostWithThread(r) == \E t \in DbThreads : pc[t] = "exited" /\ held[t] = r

\* Every DB thread has exited that way, each with the request it popped.
AllThreadsLost == \A t \in DbThreads : pc[t] = "exited" /\ held[t] # NULL

\* Every request a connection thread pushes is eventually answered on its
\* response queue, cancelled or not, unless a malloc failure took it, or
\* every DB thread, away: the posts on db_semaphore wake enough DB threads
\* for every queued request, and db_main_loop runs as long as its thread.
EveryRequestAnswered ==
    \A r \in Requests :
        cxn[r] # "new" ~> Answered(r) \/ LostWithThread(r) \/ AllThreadsLost

=============================================================================
