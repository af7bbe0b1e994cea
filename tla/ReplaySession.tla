---------------------------- MODULE ReplaySession ----------------------------
(***************************************************************************)
(* What a replay promises its consumers, whatever the service goes         *)
(* through: the rows of a session appear in order and without a gap, each  *)
(* under its own sequence number, and COMPLETED is announced only when     *)
(* the last row is out.  Rows may be published again; they are the same.   *)
(***************************************************************************)
EXTENDS Naturals

CONSTANTS Sessions, Rows

VARIABLES emitted,     \* the events published for each session
          completed    \* the sessions announced as completed

vars == <<emitted, completed>>

Prefix(k) == {[seq |-> i, ts |-> i] : i \in 1..k}

Init ==
  /\ emitted = [s \in Sessions |-> Prefix(0)]
  /\ completed = {}

Emit(s) ==
  \E k \in 1..Rows :
    /\ emitted[s] = Prefix(k - 1)
    /\ emitted' = [emitted EXCEPT ![s] = Prefix(k)]
    /\ UNCHANGED completed

Complete(s) ==
  /\ emitted[s] = Prefix(Rows)
  /\ completed' = completed \cup {s}
  /\ UNCHANGED emitted

Next == \E s \in Sessions : Emit(s) \/ Complete(s)

Spec == Init /\ [][Next]_vars
=============================================================================
