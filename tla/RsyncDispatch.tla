---------------------------- MODULE RsyncDispatch ----------------------------
(***************************************************************************)
(* The rsync log dispatcher, src/bin/rpki-rsync/main.c: main parses its   *)
(* options, opens the rsync log and the output port, sends a Start and a  *)
(* directory (C) message, then walks the log one directory block at a     *)
(* time, reading each block twice: the first pass sends the messages of  *)
(* the files that are not manifests, the second those of the manifests.   *)
(* With -s it sends "Y" and waits for rcli's answer; it ends with an End  *)
(* message.  Every message goes out through outputMsg (socket_stuff.c):   *)
(* write on stdout or a TCP socket, which may write part of it, or       *)
(* sendto on a UDP socket, whose datagram may never arrive; outputMsg only *)
(* logs either, and main goes on.                                         *)
(*                                                                         *)
(* The log is a sequence of directory blocks (next_dirblock finds where   *)
(* the next one begins, also when the search starts inside a block, past *)
(* a line that ended a pass), a block a sequence of lines.  A line is a record *)
(* of what main's loop tells apart: kind is "blank" (no field),           *)
(* "malformed" (no second field), "longpath" (a path this_field cannot    *)
(* hold), "ignored" (getMessageFromString returns NULL) or "msg"; man is   *)
(* is_manifest of its path.  A sent message is "start", "cd", "Y", "end"   *)
(* or <<block, line>>, the position of the log line it was made from.     *)
(* next_dirblock, getMessageFromString and the string helpers are not in  *)
(* the repository: they are the environment, with the outcomes above.     *)
(* So is rcli, the reader at the other end: of what it receives the model *)
(* keeps what its answer to Y depends on, whether it holds an unfinished  *)
(* line and whether the last whole line it read was the Y.                *)
(***************************************************************************)
EXTENDS Naturals, Sequences, SequencesExt

CONSTANTS
    Logs,      \* the rsync log files main may be given
    OptSets,   \* the sets of option letters main may be given
    Faults     \* whether malloc, fopen, sockets, writes and next_dirblock
               \* may fail, and a datagram may be lost

Kinds == {"blank", "malformed", "longpath", "ignored", "msg"}

ASSUME /\ Faults \in BOOLEAN
       /\ \A l \in Logs : \A b \in 1..Len(l) : \A i \in 1..Len(l[b]) :
              l[b][i].kind \in Kinds /\ l[b][i].man \in BOOLEAN

\* The line kinds that end a pass with break (main.c 384-395).
Breaks == {"malformed", "longpath"}

VARIABLES
    opts,     \* the option letters of the command line
    log,      \* the rsync log: a sequence of directory blocks
    proto,    \* wport.protocol: "NONE" | "LOCAL" | "TCP" | "UDP"
    phase,    \* "opts" | "open" | "start" | "cd" | "next" | "block" | "sync"
              \*   | "recv" | "end" | "done" | "exit"
    blk,      \* the directory block this_dirblock_pos lies in
    from,     \* this_dirblock_pos: the line of block blk it points at
    pass,     \* pass_num: 0 (NORMAL_PASS) or 1 (MANIFEST_PASS)
    li,       \* the next line of the block fgets returns (ftell)
    broke,    \* the pass left its line loop with break
    readErr,  \* next_dirblock returned an error
    sent,     \* the messages outputMsg was given, in order
    partial,  \* rcli holds the start of a line whose end never came
    gotY      \* rcli read main's Y as a whole line, and its answer is not
              \* lost

\* Where main is in the log file.
cursor == <<blk, from, pass, li, broke>>
rcli == <<partial, gotY>>
vars == <<opts, log, proto, phase, cursor, readErr, sent, rcli>>

Init ==
    /\ opts \in OptSets
    /\ log \in Logs
    /\ proto = "NONE"
    /\ phase = "opts"
    /\ blk = 1 /\ from = 1 /\ pass = 0 /\ li = 1 /\ broke = FALSE
    /\ readErr = FALSE
    /\ sent = <<>>
    /\ partial = FALSE /\ gotY = FALSE

\* exit(EXIT_FAILURE) (or myusage and exit for -h): nothing more is sent.
Exit ==
    /\ phase' = "exit"
    /\ UNCHANGED <<opts, log, proto, cursor, readErr, sent, rcli>>

\* Steps whose only effect is the next phase.
Goto(p) ==
    /\ phase' = p
    /\ UNCHANGED <<opts, log, proto, cursor, readErr, sent, rcli>>

\* The getopt loop and the tests of main.c 151-222: -h or an unknown
\* letter exit, and so do a missing -f, both -t and -u, or none of
\* -t, -u and -n.
Options ==
    /\ phase = "opts"
    /\ IF \/ opts \cap {"h", "?"} # {}
          \/ "f" \notin opts
          \/ {"t", "u"} \subseteq opts
          \/ opts \cap {"t", "u", "n"} = {}
       THEN Exit
       ELSE Goto("open")

\* tcpsocket: socket(AF_INET, SOCK_STREAM), then connect() to the loopback
\* port; either may fail, and tcpsocket returns FALSE.
TcpSocket == IF Faults THEN BOOLEAN ELSE {TRUE}

\* udpsocket: socket(AF_INET, SOCK_DGRAM), which may fail; nothing is
\* connected.
UdpSocket == IF Faults THEN BOOLEAN ELSE {TRUE}

\* outputMsg(&wport, m): the message is logged, then written.  write on
\* stdout (LOCAL) or the TCP socket writes all of it, or only a first part
\* (ret != len, which is only logged) whose end never follows, so rcli's
\* next line starts with that part.  sendto on the UDP socket sends the
\* datagram whole.  Either may fail (ret < 0), and a sent datagram may be
\* dropped; main goes on all the same.
OutputMsg(m) ==
    /\ sent' = Append(sent, m)
    /\ \/ /\ proto \in {"LOCAL", "TCP"}
          /\ gotY' = (m = "Y" /\ ~partial)
          /\ partial' = FALSE
       \/ /\ proto \in {"LOCAL", "TCP"} /\ Faults
          /\ partial' = TRUE
          /\ UNCHANGED gotY
       \/ /\ proto = "UDP"
          /\ gotY' = (m = "Y")
          /\ UNCHANGED partial
       \/ /\ Faults
          /\ UNCHANGED rcli

\* fopen of the log, then the port: stdout with -n, else tcpsocket with
\* -t, udpsocket with -u; a failure of any, and of setup_sig_catchers,
\* exits.
Open ==
    /\ phase = "open"
    /\ LET p  == CASE "n" \in opts -> "LOCAL"
                    [] "t" \in opts -> "TCP"
                    [] OTHER        -> "UDP"
           ok == CASE p = "TCP" -> TcpSocket
                    [] p = "UDP" -> UdpSocket
                    [] OTHER     -> {TRUE}
       IN  \/ /\ Faults /\ Exit
           \/ \E up \in ok :
                 IF up THEN /\ proto' = p
                            /\ phase' = "start"
                            /\ UNCHANGED <<opts, log, cursor, readErr, sent, rcli>>
                       ELSE Exit

\* makeStartStr (start) and makeCDStr (cd), each sent by outputMsg; a
\* failed calloc, or getcwd, exits.
Announce ==
    /\ phase \in {"start", "cd"}
    /\ \/ /\ Faults /\ Exit
       \/ /\ OutputMsg(phase)
          /\ phase' = IF phase = "start" THEN "cd" ELSE "next"
          /\ UNCHANGED <<opts, log, proto, cursor, readErr>>

NextDirblock ==
    /\ phase = "next"
    /\ \/ /\ Faults
          /\ readErr' = TRUE
          /\ phase' = "sync"
          /\ UNCHANGED <<opts, log, proto, cursor, sent, rcli>>
       \/ /\ blk > Len(log)
          /\ Goto("sync")
       \/ /\ blk <= Len(log)
          /\ pass' = 0 /\ li' = from /\ broke' = FALSE
          /\ phase' = "block"
          /\ UNCHANGED <<opts, log, proto, blk, from, readErr, sent, rcli>>

\* The message of a "msg" line goes out in the pass that matches its path.
SendsIn(line, p) == IF p = 0 THEN ~line.man ELSE line.man

\* Mutant of ReadLine: a malformed line skipped with continue, not break.
ReadLineSkipBad ==
    /\ phase = "block"
    /\ li <= Len(log[blk]) /\ ~broke
    /\ LET line == log[blk][li] IN
       /\ li' = li + 1
       /\ broke' = (line.kind = "longpath")
       /\ IF line.kind = "msg" /\ SendsIn(line, pass)
          THEN OutputMsg(<<blk, li>>) ELSE UNCHANGED <<sent, rcli>>
    /\ UNCHANGED <<opts, log, proto, phase, blk, from, pass, readErr>>

\* One turn of the per-line loop while ftell < next_dirblock_pos: fgets
\* (ftell moves past the line), then continue past a blank or ignored
\* line, break at a malformed line or a path too long for fullpath, or
\* outputMsg in the matching pass.
ReadLine ==
    /\ phase = "block"
    /\ li <= Len(log[blk]) /\ ~broke
    /\ LET line == log[blk][li] IN
       /\ li' = li + 1
       /\ broke' = (line.kind \in Breaks)
       /\ IF line.kind = "msg" /\ SendsIn(line, pass)
          THEN OutputMsg(<<blk, li>>) ELSE UNCHANGED <<sent, rcli>>
    /\ UNCHANGED <<opts, log, proto, phase, blk, from, pass, readErr>>

\* this_dirblock_pos = ftell(fp) (main.c 348) when ftell is at line l of
\* block blk: past the block's last line it is the next block's first.
NextPos(l) ==
    IF l > Len(log[blk]) THEN blk' = blk + 1 /\ from' = 1
                         ELSE blk' = blk /\ from' = l

\* Mutant of EndPass: pass_num <= NUM_PASSES, a third pass.
EndPassThree ==
    /\ phase = "block"
    /\ li > Len(log[blk]) \/ broke
    /\ IF pass <= 1
       THEN /\ pass' = pass + 1 /\ li' = from /\ broke' = FALSE
            /\ UNCHANGED <<phase, blk, from>>
       ELSE /\ NextPos(li)
            /\ phase' = "next"
            /\ UNCHANGED <<pass, li, broke>>
    /\ UNCHANGED <<opts, log, proto, readErr, sent, rcli>>

\* A pass ends when ftell reaches next_dirblock_pos or at a break.  The
\* first pass is followed by the second, from this_dirblock_pos (fseek).
\* After the second, the outer loop takes ftell for the next
\* this_dirblock_pos: the end of the block, or the line after the one
\* the pass broke at, which starts a block of its own.
EndPass ==
    /\ phase = "block"
    /\ li > Len(log[blk]) \/ broke
    /\ IF pass = 0
       THEN /\ pass' = 1 /\ li' = from /\ broke' = FALSE
            /\ UNCHANGED <<phase, blk, from>>
       ELSE /\ NextPos(li)
            /\ phase' = "next"
            /\ UNCHANGED <<pass, li, broke>>
    /\ UNCHANGED <<opts, log, proto, readErr, sent, rcli>>

\* With -s: outputMsg "Y \r\n", then wait for rcli's answer.
Sync ==
    /\ phase = "sync"
    /\ IF "s" \notin opts
       THEN Goto("end")
       ELSE /\ OutputMsg("Y")
            /\ phase' = "recv"
            /\ UNCHANGED <<opts, log, proto, cursor, readErr>>

\* recv(wport.out_desc, &c, 1, MSG_WAITALL) waits for one octet.  rcli
\* answers a Y it read as a whole line: 'Y' lets main go on, anything else
\* makes it exit; over UDP the answer is a datagram and may be lost.  On
\* stdout or a TCP connection recv also returns when rcli closes it, or
\* fails (stdout is not a socket), and main exits.  Over UDP nothing else
\* ends the wait.
Recv ==
    /\ phase = "recv"
    /\ \/ /\ gotY
          /\ \E c \in {"Y", "other"} : phase' = IF c = "Y" THEN "end" ELSE "exit"
          /\ UNCHANGED <<opts, log, proto, cursor, readErr, sent, rcli>>
       \/ /\ gotY /\ proto = "UDP" /\ Faults
          /\ gotY' = FALSE
          /\ UNCHANGED <<opts, log, proto, phase, cursor, readErr, sent, partial>>
       \/ /\ proto \in {"LOCAL", "TCP"}
          /\ Exit

\* makeEndStr, sent by outputMsg; a failed malloc exits.
Finish ==
    /\ phase = "end"
    /\ \/ /\ Faults /\ Exit
       \/ /\ OutputMsg("end")
          /\ phase' = "done"
          /\ UNCHANGED <<opts, log, proto, cursor, readErr>>

Next ==
    \/ Options \/ Open \/ Announce \/ NextDirblock
    \/ ReadLine \/ EndPass \/ Sync \/ Recv \/ Finish

\* main is one single-threaded process: while it has a step to take, it
\* takes one.  On stdout or TCP, rcli is assumed to answer or close the
\* connection in the end; over UDP nothing but its answer can reach main.
Spec == Init /\ [][Next]_vars /\ WF_vars(Next)

----------------------------------------------------------------------------
(* What the log says should be sent                                        *)

\* The lines of block b main reads as one block: the block is cut after
\* every line that ends a pass, and what follows a cut is read as a block
\* of its own.  A segment is <<b, first line, last line>>.
Segs(b) ==
    LET cuts == SetToSortSeq({i \in 1..Len(log[b]) : log[b][i].kind \in Breaks}, <)
        ends == IF Len(cuts) > 0 /\ Last(cuts) = Len(log[b])
                THEN cuts ELSE Append(cuts, Len(log[b]))
    IN  [j \in 1..Len(ends) |-> <<b, IF j = 1 THEN 1 ELSE ends[j - 1] + 1, ends[j]>>]

\* Every segment of the log, in file order.
AllSegs == FlattenSeq([b \in 1..Len(log) |-> Segs(b)])

\* The messages of segment g's lines whose is_manifest is m.
Out(g, m) ==
    LET idx == SelectSeq([i \in 1..g[3] - g[2] + 1 |-> g[2] + i - 1],
                         LAMBDA i : log[g[1]][i].kind = "msg" /\ log[g[1]][i].man = m)
    IN  [j \in 1..Len(idx) |-> <<g[1], idx[j]>>]

\* Start, the directory, then per segment its non-manifests before its
\* manifests, for the first k segments.
Blocks(k) ==
    <<"start", "cd">>
      \o FlattenSeq([j \in 1..k |-> Out(AllSegs[j], FALSE) \o Out(AllSegs[j], TRUE)])

\* Then Y with -s, and End.
Expected(k) == Blocks(k) \o (IF "s" \in opts THEN <<"Y">> ELSE <<>>) \o <<"end">>

----------------------------------------------------------------------------
(* Properties                                                              *)

TypeOK ==
    /\ proto \in {"NONE", "LOCAL", "TCP", "UDP"}
    /\ phase \in {"opts", "open", "start", "cd", "next", "block", "sync",
                  "recv", "end", "done", "exit"}
    /\ blk \in 1..Len(log) + 1 /\ from \in Nat \ {0} /\ pass \in {0, 1}
    /\ broke \in BOOLEAN /\ readErr \in BOOLEAN
    /\ partial \in BOOLEAN /\ gotY \in BOOLEAN

\* Whatever main has sent so far is how the log begins to read: Start and
\* the directory first, then each segment's messages in log order with
\* every manifest after every other file of its segment (the two passes of
\* main.c 362-419 and the fseek between them), no line twice, the lines
\* after a malformed line or a path too long only after the manifests
\* before it (ftell at main.c 348), and Y and End only after the last
\* segment main read.
SentAsLogged == \E k \in 0..Len(AllSegs) : IsPrefix(sent, Expected(k))

EndsAfterSync == <>(phase \in {"done", "exit"})

====
