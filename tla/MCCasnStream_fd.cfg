\* A writer storing one of four objects (3, 2048 and 5000 octets, and an
\* indefinite one of 1500) into a stream that may split it after 1000
\* octets or 1024 before the end of the longest; read may fail.
CONSTANTS
    small = small
    chunk = chunk
    long = long
    indef = indef
    Objects = {small, chunk, long, indef}
    Size <- MCSize
    Definite = {small, chunk, long}
    Unencodable = {}
    Cuts = {1000, 3976}
    ReadFails = TRUE
SPECIFICATION Spec
INVARIANT SizeCheckExact
CHECK_DEADLOCK FALSE
