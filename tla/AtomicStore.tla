----------------------------- MODULE AtomicStore -----------------------------
(***************************************************************************)
(* What the file I/O adapter promises (specification 4.5): a path holds   *)
(* at most one whole object; a store replaces it in one step; a load       *)
(* returns a whole object, one the path held at some moment while the     *)
(* load ran, or fails.  Nothing else is ever returned.                     *)
(*                                                                         *)
(* stored is the object at the path (NONE: no whole object).  A load runs  *)
(* from Begin to Finish; seen[r] is every value stored while it ran.      *)
(***************************************************************************)
CONSTANTS Objects, Readers, NONE, ERR

VARIABLES stored, rstate, seen, result

vars == <<stored, rstate, seen, result>>

Init ==
    /\ stored \in Objects \cup {NONE}
    /\ rstate = [r \in Readers |-> "idle"]
    /\ seen = [r \in Readers |-> {}]
    /\ result = [r \in Readers |-> ERR]

\* The path's content changes; every running load may see the new value.
Change(v) ==
    /\ stored' = v
    /\ seen' = [r \in Readers |-> IF rstate[r] = "busy" THEN seen[r] \cup {v} ELSE seen[r]]
    /\ UNCHANGED <<rstate, result>>

Put(o) == Change(o)

Remove == Change(NONE)

Begin(r) ==
    /\ rstate[r] = "idle"
    /\ rstate' = [rstate EXCEPT ![r] = "busy"]
    /\ seen' = [seen EXCEPT ![r] = {stored}]
    /\ UNCHANGED <<stored, result>>

\* A load that finds nothing to read fails at once.
Fail(r) ==
    /\ rstate[r] = "idle"
    /\ rstate' = [rstate EXCEPT ![r] = "done"]
    /\ UNCHANGED <<stored, seen, result>>

Finish(r) ==
    /\ rstate[r] = "busy"
    /\ rstate' = [rstate EXCEPT ![r] = "done"]
    /\ \E v \in (seen[r] \ {NONE}) \cup {ERR} : result' = [result EXCEPT ![r] = v]
    /\ UNCHANGED <<stored, seen>>

Next ==
    \/ \E o \in Objects : Put(o)
    \/ Remove
    \/ \E r \in Readers : Begin(r) \/ Fail(r) \/ Finish(r)

Spec == Init /\ [][Next]_vars

=============================================================================
