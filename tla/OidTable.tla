------------------------------ MODULE OidTable ------------------------------
(***************************************************************************)
(* The OID table generator, src/bin/asn1/make_oidtable.c.  main reads the *)
(* header files named on its command line line by line, keeps every      *)
(* #define of a quoted dotted OID, sorts the table with diff_oid, and       *)
(* writes one "oid label" line per OID, dropping a line whose OID equals   *)
(* the one written before it.                                              *)
(*                                                                         *)
(* A header line is a record of what main's tests tell apart: kind is     *)
(* "other" (not #define), "private" (the name starts with _), "noquote"   *)
(* (the value is not a string), "noname" (nothing after #define), "cut"   *)
(* (the name ends the buffer fgets filled, with no newline), "nodigit"    *)
(* (the string does not start with a digit), "unterminated" (no closing   *)
(* quote) or "define", a quoted value that starts with a digit, whose     *)
(* arcs are oid and whose macro name is label.  An OID's text is its arcs *)
(* written in decimal, so two OIDs have the same text exactly when they   *)
(* have the same arcs.                                                     *)
(***************************************************************************)
EXTENDS Naturals, Sequences, SequencesExt

CONSTANTS
    Inputs     \* the lists of header files main may be given

\* The line kinds main passes over with continue, and those it stops at
\* with FATAL(MSG_LINE).
Skipped == {"other", "private", "noquote"}
Fatal   == {"noname", "cut", "nodigit", "unterminated"}

ASSUME \A a \in Inputs : \A f \in 1 .. Len(a) : \A k \in 1 .. Len(a[f]) :
           a[f][k].kind \in Skipped \cup Fatal \cup {"define"}

VARIABLES
    argv,      \* the header files, each a sequence of lines
    fi,        \* the file being read
    ln,        \* the next line fgets returns from it
    oidtable,  \* the table: a sequence of [oid, label]
    i,         \* the sort loop's index
    pc,        \* "read" | "sort" | "done" | "fatal"
    written    \* the lines written to outfile, each [oid, label]

vars == <<argv, fi, ln, oidtable, i, pc, written>>

Init ==
    /\ argv \in Inputs
    /\ fi = 1 /\ ln = 1
    /\ oidtable = <<>>
    /\ i = 1
    /\ pc = "read"
    /\ written = <<>>

\* Mutant of DiffOid: an OID that ends first taken for the larger.
RECURSIVE DiffOidPrefixGreater(_, _)
DiffOidPrefixGreater(o1, o2) ==
    CASE o1[1] > o2[1]                  -> 1
      [] o1[1] < o2[1]                  -> -1
      [] Len(o1) = 1 /\ Len(o2) = 1     -> 0
      [] Len(o1) = 1                    -> 1
      [] Len(o2) = 1                    -> -1
      [] OTHER                          -> DiffOidPrefixGreater(Tail(o1), Tail(o2))

\* diff_oid: compare the arcs one by one (sscanf of each); the first that
\* differs decides, and an OID that ends first is the smaller.
RECURSIVE DiffOid(_, _)
DiffOid(o1, o2) ==
    CASE o1[1] > o2[1]                  -> 1
      [] o1[1] < o2[1]                  -> -1
      [] Len(o1) = 1 /\ Len(o2) = 1     -> 0
      [] Len(o1) = 1                    -> -1
      [] Len(o2) = 1                    -> 1
      [] OTHER                          -> DiffOid(Tail(o1), Tail(o2))

\* A define line main keeps: a first arc of at most 2 (the sscanf test of
\* line 93) and more than one arc (line 99).
Kept(l) == l.kind = "define" /\ l.oid[1] <= 2 /\ Len(l.oid) > 1

\* One turn of the fgets loop (lines 69-118): a skipped line, a line that
\* ends main with FATAL, a define passed over by the tests of lines 93 and
\* 99, or one appended to the table (realloc'd by 16 entries when full).
ReadLine ==
    /\ pc = "read"
    /\ fi <= Len(argv) /\ ln <= Len(argv[fi])
    /\ LET l == argv[fi][ln] IN
       IF l.kind \in Fatal
       THEN /\ pc' = "fatal"
            /\ UNCHANGED <<fi, ln, oidtable>>
       ELSE /\ oidtable' = IF Kept(l) THEN Append(oidtable, [oid |-> l.oid, label |-> l.label])
                                      ELSE oidtable
            /\ ln' = ln + 1
            /\ UNCHANGED <<fi, pc>>
    /\ UNCHANGED <<argv, i, written>>

\* fgets hits the end of the file: fclose, and fopen of the next argument;
\* after the last one the sort loop starts with i = 1.
EndFile ==
    /\ pc = "read"
    /\ fi <= Len(argv) /\ ln > Len(argv[fi])
    /\ fi' = fi + 1 /\ ln' = 1
    /\ pc' = IF fi + 1 > Len(argv) THEN "sort" ELSE "read"
    /\ UNCHANGED <<argv, oidtable, i, written>>

\* The loop over the arguments ends at once when no header file is given.
NoFiles ==
    /\ pc = "read" /\ argv = <<>>
    /\ pc' = "sort"
    /\ UNCHANGED <<argv, fi, ln, oidtable, i, written>>

\* Mutant of SortStep: entries swapped when diff_oid is not positive, so
\* two equal OIDs are swapped back and forth.
SortStepSwapEqual ==
    /\ pc = "sort" /\ i < Len(oidtable)
    /\ IF DiffOid(oidtable[i].oid, oidtable[i + 1].oid) <= 0
       THEN /\ oidtable' = [oidtable EXCEPT ![i] = oidtable[i + 1], ![i + 1] = oidtable[i]]
            /\ i' = 1
       ELSE /\ i' = i + 1
            /\ UNCHANGED oidtable
    /\ UNCHANGED <<argv, fi, ln, pc, written>>

\* One turn of the sort loop (lines 122-139): when entry i's OID is below
\* entry i + 1's the two are swapped and the loop starts again at the
\* front, else it moves on; the table ends up in descending order.
SortStep ==
    /\ pc = "sort" /\ i < Len(oidtable)
    /\ IF DiffOid(oidtable[i].oid, oidtable[i + 1].oid) < 0
       THEN /\ oidtable' = [oidtable EXCEPT ![i] = oidtable[i + 1], ![i + 1] = oidtable[i]]
            /\ i' = 1
       ELSE /\ i' = i + 1
            /\ UNCHANGED oidtable
    /\ UNCHANGED <<argv, fi, ln, pc, written>>

\* The lines the output loop writes for table t: each entry whose OID is
\* not the one last written (lastoid, strlen and strcmp).
Dedup(t) ==
    LET keep(acc, e) == IF acc # <<>> /\ Last(acc).oid = e.oid THEN acc ELSE Append(acc, e)
    IN  FoldLeft(keep, <<>>, t)

\* Lines 140-155: the sort is done; outfile is written and main returns.
WriteTable ==
    /\ pc = "sort" /\ i >= Len(oidtable)
    /\ written' = Dedup(oidtable)
    /\ pc' = "done"
    /\ UNCHANGED <<argv, fi, ln, oidtable, i>>

Next == ReadLine \/ EndFile \/ NoFiles \/ SortStep \/ WriteTable

\* main is one process that runs while it has a step to take.
Spec == Init /\ [][Next]_vars /\ WF_vars(Next)

----------------------------------------------------------------------------
(* Properties                                                              *)

TypeOK ==
    /\ pc \in {"read", "sort", "done", "fatal"}
    /\ fi \in 1 .. Len(argv) + 1
    /\ i \in 1 .. Len(oidtable) + 1

\* The define lines of all the files, in the order main reads them.
AllLines == FlattenSeq(argv)
Entries  == SelectSeq(AllLines, Kept)

\* The label of an OID's first define.
FirstLabel(o) ==
    LET k == CHOOSE k \in 1 .. Len(Entries) :
                 Entries[k].oid = o /\ \A j \in 1 .. k - 1 : Entries[j].oid # o
    IN  Entries[k].label

\* Arc-wise order, defined apart from diff_oid: a is above b when at the
\* first arc where they differ a's is larger, or when b is a proper prefix
\* of a.
Above(a, b) ==
    \/ \E k \in 1 .. Len(a) :
          /\ k <= Len(b) /\ a[k] > b[k]
          /\ \A j \in 1 .. k - 1 : a[j] = b[j]
    \/ Len(b) < Len(a) /\ b = SubSeq(a, 1, Len(b))

\* What the table should be: every kept OID once, in descending order,
\* with the label of its first define.
Reference ==
    LET oids == SetToSortSeq({Entries[k].oid : k \in 1 .. Len(Entries)},
                             LAMBDA a, b : Above(a, b))
    IN  [k \in 1 .. Len(oids) |-> [oid |-> oids[k], label |-> FirstLabel(oids[k])]]

\* When main writes the table, outfile holds each OID of the headers
\* exactly once, in descending order, under the name of its first
\* #define: the restart-at-front bubble sort swaps only strictly ordered
\* neighbours, so it keeps equal OIDs in input order, and the output loop
\* drops an OID only when it equals the one written just before it.
WritesReference == pc = "done" => written = Reference

\* main always ends: the sort loop, which starts again at the front after
\* every swap, reaches the end of the table, or a header line stops main.
Terminates == <>(pc \in {"done", "fatal"})

====
