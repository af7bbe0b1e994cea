---------------------------- MODULE MCAlertService ----------------------------
(* The alert service on small instances. *)
EXTENDS AlertService

CONSTANTS s1, s2

OneSession == {s1}
TwoSessions == {s1, s2}

OnlyScores == {}
AllKinds == {"mismatch", "malformed"}
===============================================================================
