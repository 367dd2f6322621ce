\* Decoder: two families of buffers.  Definite lengths, up to 5 octets: tags 0,
\* INTEGER, NULL and SEQUENCE, short and long length forms (0x81, 0xFF) and
\* contents 0/1/0xFF.  Indefinite lengths, up to 6 octets: the octet 0x80,
\* nested SEQUENCEs, INTEGER and end-of-contents zeros.
\* File adapter: two writers storing o1 or o2 (2 and 3 octets) over the
\* path that holds o1, one of them unencodable, and two readers loading it
\* meanwhile; writes may be short and writers may die between steps.
\* rr (as MCRrAsn.cfg): items of the three kinds rr converts, content runs
\* of 1 and 127 octets, up to 6 parser events, and the words of MCRrWords.
\* Stream: as MCCasnStream_fd.cfg, with the indefinite object unencodable
\* so that put_casn_file's early return is taken.
CONSTANTS
    Writers = {w1, w2}
    Readers = {r1, r2}
    o1 = o1
    o2 = o2
    Objects = {o1, o2}
    Unencodable = {o2}
    InitObj = o1
    Orig = Orig
    NoFile = NoFile
    NONE = NONE
    ERR = ERR
    Crashes = TRUE
    PadLen = 4
    Garbage = {0, 1}
    Bytes = {0, 1, 2, 5, 48, 129, 255}
    MaxLen = 5
    IndefBytes = {0, 2, 48, 128}
    IndefMaxLen = 6
    Tags = {48, 4, 36}
    Runs = {1, 127}
    Values = {1, 2}
    MemcpyDir = {"fwd"}
    MaxEvents = 6
    LongBits = 32
    IntMags <- MCIntMags
    ObjIds <- MCObjIds
    NumWords <- MCNumWords
    small = small
    chunk = chunk
    long = long
    indef = indef
    Cuts = {1000, 3976}
SPECIFICATION Spec
INVARIANT TypeOK
INVARIANT TableWithinBuffer
INVARIANT AgreesWithReference
INVARIANT IndefAgreesWithReference
INVARIANTS ExactEncoding CvtIntIsDer CvtObjIdIsDer CvtOutIsValue
INVARIANTS IntDumpsBack OidDumpsBack TextDumpsBack
PROPERTY ImplementsAtomicStore
CHECK_DEADLOCK FALSE
