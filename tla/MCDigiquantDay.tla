--------------------------- MODULE MCDigiquantDay ---------------------------
(***************************************************************************)
(* Instances of the two day-keyed protocols of digiquant.  They share no   *)
(* state, so their interleavings add nothing: a behaviour is one of        *)
(* OverlayJobs or one of NotifyClaims, as part says.                       *)
(***************************************************************************)
EXTENDS OverlayJobs, NotifyClaims, TLC

CONSTANTS k1, k2, w1, w2, e1, e2, p1, p2

VARIABLE part

vars == <<overlay, notify, part>>

Init == OverlayInit /\ NotifyInit /\ part \in {"overlay", "notify"}

Next ==
  /\ \/ part = "overlay" /\ OverlayNext /\ UNCHANGED notify
     \/ part = "notify" /\ NotifyNext /\ UNCHANGED overlay
  /\ UNCHANGED part

(* A worker that has been started goes on. *)
Fairness == \A w \in Workers : WF_vars(part = "overlay" /\ OverlayStep(w) /\ UNCHANGED <<notify, part>>)

FairSpec == Init /\ [][Next]_vars /\ Fairness
=============================================================================
