\* main with -f -s and each of -t, -u and -n, a one-block log, and every
\* failure of outputMsg: a short or failed write, a lost datagram.
CONSTANTS
    Faults = TRUE
    Logs <- MCSyncLogs
    OptSets <- MCSyncOpts
SPECIFICATION Spec
PROPERTY EndsAfterSync
CHECK_DEADLOCK FALSE
