\* A C library whose pthread_kill(thread, 0) returns 0 for a thread that
\* has ended but not been joined.
CONSTANTS
    Slots = {c1, c2}
    Failures = {}
    SemMax = 1
    KillProbe = {"0"}
SPECIFICATION Spec
PROPERTY Reclaimed
