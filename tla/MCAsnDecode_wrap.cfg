\* Buffers whose first item has the four-octet length FF FF FF FF.
CONSTANTS
    PadLen = 4
    Garbage = {0, 1}
    Bytes = {}
    MaxLen = 0
    IndefBytes = {}
    IndefMaxLen = 0
    Inputs <- MCWrapInputs
SPECIFICATION Spec
INVARIANT AgreesWithReference
CHECK_DEADLOCK FALSE
