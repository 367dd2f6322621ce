\* DB threads: two threads so that two requests are served at once, three
\* requests so that one waits in the queue while both threads are busy;
\* malloc may fail in a DB thread.
\* Listener: three connections, every step of accept failing except
\* Bag_add, a semaphore that overflows after one pending post, and a C
\* library whose pthread_kill reports an ended thread as ESRCH.
\* rsync: three logs (none, two blocks, three with a malformed line and a
\* too long path), every set of option letters, and failures of malloc,
\* fopen, sockets, writes and next_dirblock, and lost datagrams.
\* OID table: the header file lists of MCInputs.
\* Garbage collector: the database of MCPrograms, clock 0..2, and failing
\* searches and killed runs.
\* rr: SEQUENCE and OCTET STRING items, one-octet contents and braces, up
\* to 6 parser events.
CONSTANTS
    DbThreads = {t1, t2}
    Requests = {r1, r2, r3}
    NULL = NULL
    AllocCanFail = TRUE
    Slots = {c1, c2, c3}
    Failures = {"malloc", "sem_malloc", "sem_init", "accept", "args", "create"}
    SemMax = 1
    KillProbe = {"ESRCH"}
    Faults = TRUE
    OptSets <- MCOptSets
SPECIFICATION Spec
INVARIANTS TypeOK RequestOnce NoUseAfterCleanup SentAsLogged WritesReference
INVARIANTS StaleCrlExact ManFlagsFollowManifests VarFieldLocates
PROPERTIES EveryRequestAnswered Reclaimed  Terminates
CHECK_DEADLOCK FALSE
