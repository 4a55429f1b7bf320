--------------------------- MODULE DeliveryLedger ---------------------------
(***************************************************************************)
(* What the webhook delivery ledger promises about one (webhook, event)    *)
(* target: the row appears once with the outcome of the first delivery, a  *)
(* failed row is retried at most MaxAttempts times, each retry is counted  *)
(* exactly once, and a delivered or exhausted row never changes again.     *)
(* Threads, snapshots, POSTs and crashes are the business of the module    *)
(* that implements this one, WebsetDelivery.                               *)
(***************************************************************************)
EXTENDS Naturals

CONSTANTS
  Targets,      \* the (webhook, event) pairs, keys of webhook_deliveries
  MaxAttempts   \* _WEBHOOK_REDELIVERY_ATTEMPTS, 5 in the code

VARIABLES
  status,       \* status[t]: "absent", "pending", "delivered" or "exhausted"
  attempts      \* attempts[t]: re-deliveries counted against the row

vars == <<status, attempts>>

Statuses == {"absent", "pending", "delivered", "exhausted"}

TypeOK ==
  /\ status \in [Targets -> Statuses]
  /\ attempts \in [Targets -> 0..MaxAttempts]

Init ==
  /\ status = [t \in Targets |-> "absent"]
  /\ attempts = [t \in Targets |-> 0]

(* The first delivery's outcome creates the row. *)
Record(t) ==
  /\ status[t] = "absent"
  /\ \E s \in {"pending", "delivered"} : status' = [status EXCEPT ![t] = s]
  /\ UNCHANGED attempts

(* One counted retry of a failed row, the last of which settles it. *)
Retry(t) ==
  /\ status[t] = "pending"
  /\ attempts' = [attempts EXCEPT ![t] = attempts[t] + 1]
  /\ \/ status' = [status EXCEPT ![t] = "delivered"]
     \/ /\ attempts[t] + 1 < MaxAttempts
        /\ UNCHANGED status
     \/ /\ attempts[t] + 1 = MaxAttempts
        /\ status' = [status EXCEPT ![t] = "exhausted"]

Next == \E t \in Targets : Record(t) \/ Retry(t)

Spec == Init /\ [][Next]_vars

(* Every row that was recorded as failed is eventually delivered or given  *)
(* up on: nothing stays pending for ever.                                  *)
Settles ==
  \A t \in Targets :
    status[t] = "pending" ~> status[t] \in {"delivered", "exhausted"}
=============================================================================
