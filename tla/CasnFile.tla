------------------------------ MODULE CasnFile ------------------------------
(***************************************************************************)
(* The file I/O adapter, src/lib/casn/casn_file_ops.c, by path: writers   *)
(* running put_casn_file(casnp, name, 0) and readers running              *)
(* get_casn_file(casnp, name, 0) on the same path at the same time.        *)
(*                                                                         *)
(* put_casn_file unlinks the path, creates it with O_CREAT|O_EXCL, sizes  *)
(* the object (size_casn), writes it with one write() and abort()s on a   *)
(* short count.  get_casn_file stats the path, opens it, reads            *)
(* st_size + 1 octets and rejects the buffer unless the outer item's      *)
(* declared size equals the octets read.                                   *)
(*                                                                         *)
(* A file is an inode: the object its writer encodes and how many of its  *)
(* octets are in it.  Octets are abstracted to that count: the declared   *)
(* size read from a whole header is Size[o]; from a header cut short, the *)
(* zeros calloc left give a declared size larger than what was read.  So  *)
(* the cross-check passes exactly when the octets read are Size[o].       *)
(* Every object here has a definite outer length.                          *)
(***************************************************************************)
EXTENDS Naturals

CONSTANTS
    Writers,      \* processes calling put_casn_file on the path
    Readers,      \* processes calling get_casn_file on the path
    Objects,      \* the casn objects, as model values
    Size,         \* Size[o]: octets of o's encoding (at least 2)
    Unencodable,  \* objects whose size_casn is negative
    InitObj,      \* the object the path holds at first
    Orig,         \* the inode holding InitObj
    NoFile,       \* the path names no inode
    NONE, ERR,
    Crashes       \* whether a writer process may die between two steps

ASSUME /\ Unencodable \subseteq Objects /\ InitObj \in Objects
       /\ \A o \in Objects : Size[o] >= 2
       /\ Crashes \in BOOLEAN

\* Inodes: the original file and the one each writer may create.
Inodes == Writers \cup {Orig}

VARIABLES
    path,    \* the inode the path names, or NoFile
    obj,     \* per inode: the object encoded into it
    len,     \* per inode: the octets written to it
    want,    \* per writer: the object it stores
    wpc,     \* per writer: "unlink" | "open" | "size" | "write" | "done"
             \*   | "failed" | "aborted" | "crashed"
    rpc,     \* per reader: "stat" | "open" | "read" | "check" | "done"
    st,      \* per reader: statbuf.st_size
    fd,      \* per reader: the inode it opened
    got,     \* per reader: siz, the octets read
    result,  \* per reader: ERR, or the object decoded and the octets used
    seen     \* history: per reader, the values Stored took while it ran

vars == <<path, obj, len, want, wpc, rpc, st, fd, got, result, seen>>

Min2(a, b) == IF a < b THEN a ELSE b

----------------------------------------------------------------------------
(* The abstraction: what the path holds, as AtomicStore sees it            *)

\* An inode whose writer returned or died before writing it whole.
Abandoned(i) == i \in Writers /\ wpc[i] \in {"failed", "aborted", "crashed"}

\* A store takes effect when its file is created: from then on the path
\* names the object, unless its writer gives up on it.
Stored == IF path = NoFile \/ Abandoned(path) THEN NONE ELSE obj[path]

RState(r) == CASE rpc[r] = "stat" -> "idle"
               [] rpc[r] = "done" -> "done"
               [] OTHER -> "busy"

\* A buffer that passed the cross-check but is not the whole encoding is
\* a partial object, which AtomicStore never returns.
AbsResult(r) ==
    IF rpc[r] # "done" \/ result[r] = ERR THEN ERR
    ELSE IF result[r].got = Size[result[r].obj] THEN result[r].obj ELSE "partial"

Init ==
    /\ path = Orig
    /\ want \in [Writers -> Objects]
    /\ obj = [i \in Inodes |-> IF i = Orig THEN InitObj ELSE want[i]]
    /\ len = [i \in Inodes |-> IF i = Orig THEN Size[InitObj] ELSE 0]
    /\ wpc = [w \in Writers |-> "unlink"]
    /\ rpc = [r \in Readers |-> "stat"]
    /\ st = [r \in Readers |-> 0]
    /\ fd = [r \in Readers |-> Orig]
    /\ got = [r \in Readers |-> 0]
    /\ result = [r \in Readers |-> ERR]
    /\ seen = [r \in Readers |-> {}]

----------------------------------------------------------------------------
(* put_casn_file(casnp, name, 0)                                           *)

\* (void)unlink(name): the old file leaves the path.
Unlink(w) ==
    /\ wpc[w] = "unlink"
    /\ path' = NoFile
    /\ wpc' = [wpc EXCEPT ![w] = "open"]
    /\ UNCHANGED <<obj, len, want>>

\* open(name, O_WRONLY|O_CREAT|O_TRUNC|O_EXCL): fails if another writer has
\* created the path since the unlink; else a new, empty file.
Create(w) ==
    /\ wpc[w] = "open"
    /\ IF path # NoFile
       THEN /\ wpc' = [wpc EXCEPT ![w] = "failed"]
            /\ UNCHANGED <<path, obj, len>>
       ELSE /\ path' = w
            /\ obj' = [obj EXCEPT ![w] = want[w]]
            /\ len' = [len EXCEPT ![w] = 0]
            /\ wpc' = [wpc EXCEPT ![w] = "size"]
    /\ UNCHANGED want

\* size_casn < 0: close the empty file and return.
SizeCasn(w) ==
    /\ wpc[w] = "size"
    /\ wpc' = [wpc EXCEPT ![w] = IF want[w] \in Unencodable THEN "failed" ELSE "write"]
    /\ UNCHANGED <<path, obj, len, want>>

\* encode_casn, then write(fd, b, siz): all siz octets, or a short count
\* and abort().
WriteOut(w) ==
    /\ wpc[w] = "write"
    /\ \E k \in 0 .. Size[want[w]] :
          /\ len' = [len EXCEPT ![w] = k]
          /\ wpc' = [wpc EXCEPT ![w] = IF k = Size[want[w]] THEN "done" ELSE "aborted"]
    /\ UNCHANGED <<path, obj, want>>

\* The writer process is killed between two of its steps.
Crash(w) ==
    /\ Crashes
    /\ wpc[w] \in {"open", "size", "write"}
    /\ wpc' = [wpc EXCEPT ![w] = "crashed"]
    /\ UNCHANGED <<path, obj, len, want>>

----------------------------------------------------------------------------
(* get_casn_file(casnp, name, 0)                                           *)

Finish(r, res) ==
    /\ rpc' = [rpc EXCEPT ![r] = "done"]
    /\ result' = [result EXCEPT ![r] = res]

\* stat(name); calloc(st_size + 4).
StatFile(r) ==
    /\ rpc[r] = "stat"
    /\ IF path = NoFile
       THEN Finish(r, ERR) /\ UNCHANGED st
       ELSE /\ st' = [st EXCEPT ![r] = len[path]]
            /\ rpc' = [rpc EXCEPT ![r] = "open"]
            /\ UNCHANGED result
    /\ UNCHANGED <<fd, got>>

\* open(name, O_RDONLY): whatever inode the path names now.
OpenFile(r) ==
    /\ rpc[r] = "open"
    /\ IF path = NoFile
       THEN Finish(r, ERR) /\ UNCHANGED fd
       ELSE /\ fd' = [fd EXCEPT ![r] = path]
            /\ rpc' = [rpc EXCEPT ![r] = "read"]
            /\ UNCHANGED result
    /\ UNCHANGED <<st, got>>

\* siz = read(fd, b, st_size + 1): what the file holds now, at most that.
ReadFile(r) ==
    /\ rpc[r] = "read"
    /\ got' = [got EXCEPT ![r] = Min2(st[r] + 1, len[fd[r]])]
    /\ rpc' = [rpc EXCEPT ![r] = "check"]
    /\ UNCHANGED <<st, fd, result>>

\* Mutant of CheckSize: the truncation defence of lines 79-91 left out.
CheckSizeDropped(r) ==
    /\ rpc[r] = "check"
    /\ Finish(r, [obj |-> obj[fd[r]], got |-> got[r]])
    /\ UNCHANGED <<st, fd, got>>

\* _get_tag, _calc_lth: the declared size against siz (line 86), then
\* decode_casn_lth on the buffer.
CheckSize(r) ==
    /\ rpc[r] = "check"
    /\ Finish(r, IF got[r] = Size[obj[fd[r]]]
                 THEN [obj |-> obj[fd[r]], got |-> got[r]]
                 ELSE ERR)
    /\ UNCHANGED <<st, fd, got>>

----------------------------------------------------------------------------

Writer(w) == Unlink(w) \/ Create(w) \/ SizeCasn(w) \/ WriteOut(w) \/ Crash(w)

Reader(r) == StatFile(r) \/ OpenFile(r) \/ ReadFile(r) \/ CheckSize(r)

\* History variable for the refinement: a load that starts records what
\* the path holds; every later value is added while it runs.
TrackSeen ==
    seen' = [r \in Readers |->
               IF RState(r)' = "busy"
               THEN (IF RState(r) = "busy" THEN seen[r] ELSE {}) \cup {Stored'}
               ELSE seen[r]]

Next ==
    /\ \/ \E w \in Writers : UNCHANGED <<rpc, st, fd, got, result>> /\ Writer(w)
       \/ \E r \in Readers : UNCHANGED <<path, obj, len, want, wpc>> /\ Reader(r)
    /\ TrackSeen

Spec == Init /\ [][Next]_vars

----------------------------------------------------------------------------
(* Properties                                                              *)

AS == INSTANCE AtomicStore
        WITH stored <- Stored,
             rstate <- [r \in Readers |-> RState(r)],
             result <- [r \in Readers |-> AbsResult(r)]

\* get_casn_file never hands its caller part of an object, nor an object
\* the path did not hold whole at some moment of the call, however the
\* calls interleave with put_casn_file's unlink, create and write, and
\* with writers that abort or die: the code implements AtomicStore.
ImplementsAtomicStore == AS!Spec

\* Once every put_casn_file has returned or died, the path holds a whole
\* object (specification 4.5: a store is atomic and never persists a
\* truncated object).
PathHoldsWholeObject ==
    (\A w \in Writers : wpc[w] \in {"done", "failed", "aborted", "crashed"})
        => Stored # NONE

=============================================================================
