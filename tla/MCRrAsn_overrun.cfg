\* One OCTET STRING whose contents make the area end exactly two octets
\* after them: 2 + 66556 + 2 = 66560 = 65 chunks.  Its length 66556 needs
\* three length octets where adj_asn reserved two.
CONSTANTS
    PadLen = 0
    Tags = {4}
    Runs = {66556}
    Values = {1}
    MemcpyDir = {"fwd"}
    MaxEvents = 2
    LongBits = 32
    IntMags <- MCIntMags
    ObjIds <- MCObjIds
    NumWords <- MCNumWords
SPECIFICATION MCSpec
INVARIANT WritesInArea
CHECK_DEADLOCK FALSE
