------------------------------ MODULE CasnStream ----------------------------
(***************************************************************************)
(* The file I/O adapter on a descriptor, src/lib/casn/casn_file_ops.c: a  *)
(* writer runs put_casn_file(casnp, NULL, fd) into a stream (a pipe, a    *)
(* socket) and a reader runs get_casn_file(casnp, NULL, fd) on its other  *)
(* end, at the same time.                                                  *)
(*                                                                         *)
(* The reader grows its buffer 2048 octets at a time while read returns a *)
(* full 2048, then computes siz and, when the outer item has a definite   *)
(* length, checks it against the declared size before decode_casn_lth.    *)
(* Octets are abstracted to counts, and the object to its size and        *)
(* whether its outer length is definite.  The writer's one blocking      *)
(* write may reach the reader in pieces (a pipe that fills, a socket's    *)
(* segments); read returns what has arrived, at most what it asked for.   *)
(***************************************************************************)
EXTENDS Naturals

CONSTANTS
    Objects,      \* the casn objects the writer may store
    Size,         \* Size[o]: octets of o's encoding (at least 2)
    Definite,     \* objects whose outer length is definite
    Unencodable,  \* objects whose size_casn is negative
    Cuts,         \* offsets at which the stream may split the object
    ReadFails     \* whether read may return -1

ASSUME /\ Definite \subseteq Objects /\ Unencodable \subseteq Objects
       /\ \A o \in Objects : Size[o] >= 2

\* The chunk of the read loop (lines 60-66).
Chunk == 2048

VARIABLES
    want,    \* the object the writer stores
    wpc,     \* writer: "size" | "write" | "done" | "failed"
    wrote,   \* octets of the writer's write that have arrived
    arrived, \* octets arrived and not yet read
    rpc,     \* reader: "read" | "size" | "check" | "done"
    siz,     \* the reader's siz
    tmp,     \* the reader's tmp: what the last read returned
    nread,   \* octets the reader has read
    result   \* "none" until the reader returns; then the error code it
             \* returns, or "decode": b and siz go to decode_casn_lth

vars == <<want, wpc, wrote, arrived, rpc, siz, tmp, nread, result>>

Init ==
    /\ want \in Objects
    /\ wpc = "size" /\ wrote = 0 /\ arrived = 0
    /\ rpc = "read" /\ siz = Chunk /\ tmp = 0 /\ nread = 0
    /\ result = "none"

\* The writer has returned, and the process closes its end of the pipe.
WriterEnded == wpc \in {"done", "failed"}

----------------------------------------------------------------------------
(* put_casn_file(casnp, NULL, fd)                                          *)

\* size_casn < 0: return siz, writing nothing.
SizeCasn ==
    /\ wpc = "size"
    /\ wpc' = IF want \in Unencodable THEN "failed" ELSE "write"
    /\ UNCHANGED <<want, wrote, arrived, rpc, siz, tmp, nread, result>>

\* calloc, encode_casn, write(fd, b, siz): the octets arrive up to the next
\* cut or to the end; the blocking write returns when all of them are in,
\* and the caller closes fd.
Transfer ==
    /\ wpc = "write"
    /\ LET rem == Size[want] - wrote IN
       \E k \in {rem} \cup {c - wrote : c \in {c \in Cuts : wrote < c /\ c < Size[want]}} :
          /\ wrote' = wrote + k
          /\ arrived' = arrived + k
          /\ wpc' = IF k = rem THEN "done" ELSE "write"
    /\ UNCHANGED <<want, rpc, siz, tmp, nread, result>>

----------------------------------------------------------------------------
(* get_casn_file(casnp, NULL, fd)                                          *)

\* One turn of the read loop of lines 60-76: tmp = read(fd, c, 2048).  A
\* full chunk grows the buffer (realloc, siz += 2048); anything less ends
\* the loop; -1 returns ASN_FILE_ERR.  With the pipe empty, read waits
\* for the writer, or returns 0 once its end is closed.
ReadChunk ==
    /\ rpc = "read"
    /\ \/ /\ arrived > 0 \/ WriterEnded
          /\ LET k == IF arrived < Chunk THEN arrived ELSE Chunk IN
             /\ arrived' = arrived - k
             /\ nread' = nread + k
             /\ tmp' = k
             /\ IF k = Chunk
                THEN siz' = siz + Chunk /\ UNCHANGED rpc
                ELSE rpc' = "size" /\ UNCHANGED siz
          /\ UNCHANGED result
       \/ /\ ReadFails
          /\ rpc' = "done" /\ result' = "ASN_FILE_ERR"
          /\ UNCHANGED <<arrived, nread, tmp, siz>>
    /\ UNCHANGED <<want, wpc, wrote>>

\* Line 77: siz = siz - 1024 + tmp.
EndRead ==
    /\ rpc = "size"
    /\ siz' = siz - 1024 + tmp
    /\ rpc' = "check"
    /\ UNCHANGED <<want, wpc, wrote, arrived, tmp, nread, result>>

\* The outer item's tag and length as _get_tag and _calc_lth read them:
\* the object's, once any of it was read; calloc's zeros (tag 0, length
\* 0, definite, 2 octets) when nothing was.
Declared == IF nread = 0 THEN 2 ELSE Size[want]
IsDefinite == nread = 0 \/ want \in Definite

\* Lines 79-94: a definite outer length must give siz, else
\* ASN_FILE_SIZE_ERR; then decode_casn_lth(casnp, b, siz).
CheckSize ==
    /\ rpc = "check"
    /\ rpc' = "done"
    /\ result' = IF IsDefinite /\ Declared # siz THEN "ASN_FILE_SIZE_ERR"
                 ELSE "decode"
    /\ UNCHANGED <<want, wpc, wrote, arrived, siz, tmp, nread>>

Next == SizeCasn \/ Transfer \/ ReadChunk \/ EndRead \/ CheckSize

Spec == Init /\ [][Next]_vars

----------------------------------------------------------------------------
(* Properties                                                              *)

TypeOK ==
    /\ wpc \in {"size", "write", "done", "failed"}
    /\ rpc \in {"read", "size", "check", "done"}
    /\ wrote \in 0 .. Size[want] /\ arrived \in 0 .. Size[want]
    /\ nread + arrived = wrote

\* get_casn_file on a descriptor checks a definite-length object exactly:
\* it hands it to decode_casn_lth when it read all of it, and returns
\* ASN_FILE_SIZE_ERR when it read less, however the stream split it
\* (specification 4.5, contract A: the declared total length must equal
\* the octets read, a mismatch is FileSizeMismatch).  This is about the
\* siz that the read loop of get_casn_file computes.
SizeCheckExact ==
    rpc = "done" /\ want \in Definite /\ result \in {"decode", "ASN_FILE_SIZE_ERR"}
      => (result = "decode" <=> nread = Size[want])

====
