\* Definite inputs of up to 3 octets: how far do count_asns and decode_asn read?
CONSTANTS
    PadLen = 4
    Garbage = {0, 1}
    Bytes = {0, 1, 2, 5, 48, 129, 255}
    MaxLen = 3
    IndefBytes = {}
    IndefMaxLen = 0
    Inputs <- MCInputs
SPECIFICATION Spec
INVARIANT StaysInMemory
CHECK_DEADLOCK FALSE
