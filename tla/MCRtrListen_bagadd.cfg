\* Only Bag_add fails: cleanup_connection runs while the new thread runs.
CONSTANTS
    Slots = {c1, c2}
    Failures = {"bag_add"}
    SemMax = 1
    KillProbe = {"ESRCH"}
SPECIFICATION Spec
INVARIANT NoUseAfterCleanup
