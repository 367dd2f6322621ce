\* Two writers, encodable objects, no process killed: can a put that fails
\* leave the path without a whole object?
CONSTANTS
    Writers = {w1, w2}
    Readers = {r1, r2}
    o1 = o1
    o2 = o2
    Objects = {o1, o2}
    Size <- MCSize
    Unencodable = {}
    InitObj = o1
    Orig = Orig
    NoFile = NoFile
    NONE = NONE
    ERR = ERR
    Crashes = FALSE
SPECIFICATION Spec
INVARIANT PathHoldsWholeObject
CHECK_DEADLOCK FALSE
