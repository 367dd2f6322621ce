\* Definite and indefinite inputs of up to 5 octets: where does a walk to
\* the first NULL slot stop, and does it pass every item?
CONSTANTS
    PadLen = 4
    Garbage = {0, 1}
    Bytes = {0, 2, 48, 128}
    MaxLen = 5
    IndefBytes = {}
    IndefMaxLen = 0
    Inputs <- MCInputs
SPECIFICATION Spec
INVARIANT TableWalk
CHECK_DEADLOCK FALSE
