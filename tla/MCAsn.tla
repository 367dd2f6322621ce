--------------------------------- MODULE MCAsn ----------------------------------
(***************************************************************************)
(* The ASN.1 code in one model-checking run: the decoder make_asn_table  *)
(* of asn.c on every small buffer (AsnDecode, against the reference       *)
(* decoder of AsnRef), put_casn_file and get_casn_file of casn_file_ops.c *)
(* on one path (CasnFile, against AtomicStore), and the text-to-binary    *)
(* converter rr.c with the dump tool's forms (MCRrAsn); and, apart, the   *)
(* adapter on a descriptor (CasnStream).  None shares state with another: *)
(* the adapter hands a buffer to the decoder only after its               *)
(* read, the decoder never touches a file, and rr is a program of its own *)
(* that only shares asn.c's length encoding.  side, fixed in the initial  *)
(* state, says which part a behaviour runs; the others keep one initial   *)
(* state.                                                                  *)
(***************************************************************************)
EXTENDS Naturals, Sequences, SequencesExt, TLC, MCRrWords

CONSTANTS PadLen, Garbage, Bytes, MaxLen, IndefBytes, IndefMaxLen,
          Writers, Readers, Objects, Unencodable, InitObj, Orig, NoFile,
          NONE, ERR, Crashes, o1, o2,
          Tags, Runs, Values, MemcpyDir, MaxEvents, LongBits,
          small, chunk, long, indef, Cuts,
          IntMags, ObjIds, NumWords

VARIABLES buf, pc, cap, tbl, asnp, stack, decoded, ret, hi, hiCount,
          path, obj, len, want, wpc, rpc, st, fd, got, result, seen,
          area, next, starts, rrPc, events, open, top, hiW, word, out,
          outArea, genOn, genArea, varOff, fields, grp,
          sWant, sWpc, wrote, arrived, sRpc, siz, tmp, nread, sResult,
          side   \* "decode" | "casn" | "rr" | "stream"

\* Buffers of two families, as in MCAsnDecode: up to MaxLen octets over
\* Bytes, and up to IndefMaxLen over IndefBytes.
DecInputs ==
    {b \in BoundedSeq(Bytes, MaxLen) \cup BoundedSeq(IndefBytes, IndefMaxLen) : Len(b) >= 1}

\* Two objects of 2 and 3 octets.
MCSize == [o \in {o1, o2} |-> IF o = o1 THEN 2 ELSE 3]

D    == INSTANCE MCAsnDecode WITH Inputs <- DecInputs
Casn == INSTANCE CasnFile WITH Size <- MCSize
\* 3 octets, exactly one chunk, three chunks in part, and an indefinite
\* object of less than a chunk, as in MCCasnStream.
StreamSize == (small :> 3) @@ (chunk :> 2048) @@ (long :> 5000) @@ (indef :> 1500)

Stream == INSTANCE CasnStream
            WITH Objects <- {small, chunk, long, indef}, Size <- StreamSize,
                 Definite <- {small, chunk, long}, Unencodable <- {indef},
                 ReadFails <- TRUE, want <- sWant, wpc <- sWpc, rpc <- sRpc,
                 result <- sResult
Rr   == INSTANCE MCRrAsn WITH PadLen <- 0, pc <- rrPc

decVars  == <<buf, pc, cap, tbl, asnp, stack, decoded, ret, hi, hiCount>>
casnVars == <<path, obj, len, want, wpc, rpc, st, fd, got, result, seen>>
rrVars   == <<area, next, starts, rrPc, events, open, top, hiW, word, out,
              outArea, genOn, genArea, varOff, fields, grp>>
strVars  == <<sWant, sWpc, wrote, arrived, sRpc, siz, tmp, nread, sResult>>
allVars  == <<decVars, casnVars, rrVars, strVars, side>>

\* A part a behaviour does not run keeps one initial state: the buffer
\* 30 00, every writer storing the object the path holds, or the 3-octet
\* object on the stream (rr has one).
Init ==
    /\ side \in {"decode", "casn", "rr", "stream"}
    /\ D!Init /\ Casn!Init /\ Rr!MCInit /\ Stream!Init
    /\ side # "decode" => buf = <<48, 0>>
    /\ side # "casn" => want = [w \in Writers |-> InitObj]
    /\ side # "stream" => sWant = small

DecStep(A) == side = "decode" /\ A /\ UNCHANGED <<casnVars, rrVars, strVars, side>>

CasnStep(A) == side = "casn" /\ A /\ UNCHANGED <<decVars, rrVars, strVars, side>>

RrStep(A) == side = "rr" /\ A /\ UNCHANGED <<decVars, casnVars, strVars, side>>

StreamStep(A) == side = "stream" /\ A /\ UNCHANGED <<decVars, casnVars, rrVars, side>>

\* One disjunct per action of AsnDecode's Next, CasnFile's Next, and
\* MCRrAsn's builder and word steps, and CasnStream's Next.
Next ==
    \/ DecStep(D!make_asn_table) \/ DecStep(D!AllocFails)
    \/ DecStep(D!ExitLoop) \/ DecStep(D!OutOfSlots) \/ DecStep(D!RejectItem)
    \/ DecStep(D!EnterConstructed) \/ DecStep(D!EmptyConstructed)
    \/ DecStep(D!Primitive) \/ DecStep(D!Resume)
    \/ CasnStep(Casn!Next)
    \/ RrStep(Rr!Builder) \/ RrStep(Rr!Words)
    \/ StreamStep(Stream!SizeCasn) \/ StreamStep(Stream!Transfer)
    \/ StreamStep(Stream!ReadChunk) \/ StreamStep(Stream!EndRead)
    \/ StreamStep(Stream!CheckSize)

\* AsnDecode's weak fairness (make_asn_table is one synchronous call);
\* CasnFile's, MCRrAsn's and CasnStream's specifications have none.
Spec == Init /\ [][Next]_allVars /\ WF_allVars(DecStep(D!Next))

----------------------------------------------------------------------------
(* The properties of AsnDecode, CasnFile and MCRrAsn (stated there)        *)

\* The other sides leave a program's variables in the one initial state its
\* own side starts from, so each program's invariants below are checked on
\* its own side.
TypeOK ==
    /\ D!TypeOK /\ Rr!TypeOK /\ Stream!TypeOK
    /\ side \in {"decode", "casn", "rr", "stream"}

\* AsnDecode: a table decode_asn accepts lies within the buffer, in order.
TableWithinBuffer == side = "decode" => D!TableWithinBuffer

\* AsnDecode: make_asn_table accepts what the reference decoder accepts.
AgreesWithReference == side = "decode" => D!AgreesWithReference

\* AsnDecode: with indefinite lengths too, make_asn_table decodes what the
\* reference decoder accepts into its items, an indefinite item's lth
\* counted from its first octet (decode_asn, lines 238 and 254).
IndefAgreesWithReference == side = "decode" => D!IndefAgreesWithReference

\* CasnFile: every put and get by path takes effect at one instant, as
\* AtomicStore's store and load do.  On the decode side the path and the
\* processes stay in their initial state, which the store allows.
ImplementsAtomicStore == Casn!ImplementsAtomicStore

\* RrAsn: what rr writes for an input without braces is exactly the DER
\* its input describes.
ExactEncoding == side = "rr" => Rr!ExactEncoding

\* RrConv: cvt_int puts out the minimal two's complement of the word.
CvtIntIsDer == side = "rr" => Rr!CvtIntIsDer

\* RrConv: cvt_obj_id puts out the DER of the arcs (0.0 excepted).
CvtObjIdIsDer == side = "rr" => Rr!CvtObjIdIsDer

\* RrConv: cvt_out puts out the value of a number word (leading 0 excepted).
CvtOutIsValue == side = "rr" => Rr!CvtOutIsValue

\* MCRrAsn: a -a INTEGER putform writes reads back as rr's number.
IntDumpsBack == side = "rr" => Rr!IntDumpsBack

\* MCRrAsn: an OID putform writes reads back as rr's arcs.
OidDumpsBack == side = "rr" => Rr!OidDumpsBack

\* MCRrAsn: a line of text or hex putform writes reads back as its octets.
TextDumpsBack == side = "rr" => Rr!TextDumpsBack

====
