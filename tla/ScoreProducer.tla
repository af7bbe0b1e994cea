---------------------------- MODULE ScoreProducer ----------------------------
(***************************************************************************)
(* What the alert service may assume of irp.scores.v1: the decisions of a  *)
(* session come in window order, and a restarted streaming worker says     *)
(* again, in order and with the same content, what it has said before it   *)
(* comes to a new window.  These are the steps PublishScore and            *)
(* WorkerRestart of AlertService, whose proofs rest on them.               *)
(***************************************************************************)
EXTENDS Naturals

CONSTANT Sessions

VARIABLES emitted,    \* the last window of each session said since a restart
          published   \* the decisions on the topic: records with s and end

vars == <<emitted, published>>

Init ==
  /\ emitted = [s \in Sessions |-> 0]
  /\ published = {}

PublishScore(d) ==
  /\ d.end > emitted[d.s]
  /\ LET again == {r \in published : r.s = d.s /\ r.end > emitted[d.s]}
     IN  again /= {} => d \in again /\ \A r \in again : d.end <= r.end
  /\ published' = published \cup {d}
  /\ emitted' = [emitted EXCEPT ![d.s] = d.end]

(* The sessions whose telemetry is committed are not read again. *)
WorkerRestart ==
  /\ emitted' \in [Sessions -> {0} \cup {emitted[s] : s \in Sessions}]
  /\ \A s \in Sessions : emitted'[s] \in {0, emitted[s]}
  /\ UNCHANGED published

Next == (\E d \in published' : PublishScore(d)) \/ WorkerRestart

Spec == Init /\ [][Next]_vars
=============================================================================
