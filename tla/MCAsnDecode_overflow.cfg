\* The indefinite run's inputs: does make_asn_table stay inside its table?
CONSTANTS
    PadLen = 4
    Garbage = {0, 1}
    Bytes = {0, 2, 48, 128}
    MaxLen = 6
    IndefBytes = {}
    IndefMaxLen = 0
    Inputs <- MCInputs
SPECIFICATION Spec
INVARIANT TableAccessInBounds
CHECK_DEADLOCK FALSE
