-------------------------- MODULE MCWebsetDelivery --------------------------
(* Instances of WebsetDelivery for TLC. *)
EXTENDS WebsetDelivery, TLC

CONSTANTS p1, p2, r1, r2, w1, w2, e1, e2

(* Every runner lives in p1; p2, where there is one, only re-delivers. *)
AllInP1 == [r \in Runners |-> p1]

(* Runner r2 lives in the second process. *)
OnePerProcess == [r \in Runners |-> IF r = r1 THEN p1 ELSE p2]

AllSubscribed == Webhooks \X Events

RunnerSymmetry == Permutations(Runners)
-----------------------------------------------------------------------------
(* What comments of events.py say and the code does not keep: no run       *)
(* checks it (README, section 5).                                          *)

(* events.append_event: "the ledger keeps a re-appended duplicate from     *)
(* double-POSTing a target": no fan-out starts to POST to a target that    *)
(* has already answered with success.                                      *)
NeverDoublePosted ==
  [][\A t \in Targets : fanned'[t] > fanned[t] => t \notin acked]_vars
=============================================================================
