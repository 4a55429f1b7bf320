---------------------------- MODULE NotifyClaims ----------------------------
(***************************************************************************)
(* digiquant's notifier: passes (the hourly cron, the hook after the daily *)
(* run, the tail of a broker sync) that send a workspace's due messages.   *)
(* A message is claimed by inserting its row into notification_claim, sent *)
(* once, and recorded in notification_log or released.  A failed request   *)
(* may have had its effect; a pass may die between any two requests.       *)
(***************************************************************************)
EXTENDS Naturals

CONSTANTS
  Messages,      \* event keys of one workspace on one day
  Passes,        \* dispatching processes
  MaxNotifyFaults \* bound: store requests that fail, and passes that die

VARIABLES
  claim,      \* messages with a notification_claim row
  log,        \* rows of notification_log, counted
  sent,       \* history: how often the service accepted the message
  unclear,    \* history: messages whose send ended in a transport error
  step,       \* where each pass is
  due,        \* the messages it has still to look at
  msg,        \* the message in hand, as a set of at most one
  notifyFaults

notify == <<claim, log, sent, unclear, step, due, msg, notifyFaults>>

NotifyInit ==
  /\ claim = {} /\ unclear = {}
  /\ log = [e \in Messages |-> 0] /\ sent = [e \in Messages |-> 0]
  /\ step = [p \in Passes |-> "off"]
  /\ due = [p \in Passes |-> {}] /\ msg = [p \in Passes |-> {}]
  /\ notifyFaults = 0

At(p, l) == step' = [step EXCEPT ![p] = l]
Took(p, e) == due' = [due EXCEPT ![p] = @ \ {e}]
NextMessage(p) == At(p, "claim") /\ msg' = [msg EXCEPT ![p] = {}]
-----------------------------------------------------------------------------
(* dispatch_workspace: preferences, hour and events decide what is due. *)
StartPass(p) ==
  /\ step[p] = "off"
  /\ \E es \in SUBSET Messages \ {{}} : due' = [due EXCEPT ![p] = es]
  /\ At(p, "claim")
  /\ UNCHANGED <<claim, log, sent, unclear, msg, notifyFaults>>

(* Mutant of TryClaim: the duplicate is not noticed. *)
TryClaimBlindly(p) ==
  /\ step[p] = "claim"
  /\ \E e \in due[p] :
       /\ Took(p, e)
       /\ claim' = claim \cup {e} /\ msg' = [msg EXCEPT ![p] = {e}] /\ At(p, "send")
  /\ UNCHANGED <<log, sent, unclear, notifyFaults>>

(* try_claim_send_slot: a duplicate goes on to the next message. *)
TryClaim(p) ==
  /\ step[p] = "claim"
  /\ \E e \in due[p] :
       /\ Took(p, e)
       /\ \/ e \in claim /\ UNCHANGED <<claim, step, msg>>
          \/ /\ e \notin claim
             /\ claim' = claim \cup {e} /\ msg' = [msg EXCEPT ![p] = {e}] /\ At(p, "send")
  /\ UNCHANGED <<log, sent, unclear, notifyFaults>>

EndPass(p) ==
  /\ step[p] = "claim" /\ due[p] = {}
  /\ At(p, "off")
  /\ UNCHANGED <<claim, log, sent, unclear, due, msg, notifyFaults>>

(* The claim's request fails otherwise: the error leaves the workspace's   *)
(* pass, and the row may have been stored.                                 *)
ClaimFails(p) ==
  /\ step[p] = "claim" /\ notifyFaults < MaxNotifyFaults
  /\ \E e \in due[p] : claim' \in {claim, claim \cup {e}}
  /\ At(p, "off") /\ due' = [due EXCEPT ![p] = {}]
  /\ notifyFaults' = notifyFaults + 1
  /\ UNCHANGED <<log, sent, unclear, msg>>

Accepted(p) == sent' = [e \in Messages |-> IF e \in msg[p] THEN sent[e] + 1 ELSE sent[e]]

(* Mutant of Send: after a transport error the claim is given back. *)
SendReleasing(p) ==
  /\ step[p] = "send"
  /\ \/ At(p, "record") /\ Accepted(p) /\ UNCHANGED <<unclear, msg>>
     \/ At(p, "release") /\ UNCHANGED <<sent, unclear, msg>>
     \/ /\ At(p, "release") /\ UNCHANGED msg
        /\ unclear' = unclear \cup msg[p]
        /\ Accepted(p) \/ UNCHANGED sent
  /\ UNCHANGED <<claim, log, due, notifyFaults>>

(* send_message: accepted; dropped because the recipient is suppressed; or *)
(* a transport error, after which nobody knows whether it was accepted.    *)
Send(p) ==
  /\ step[p] = "send"
  /\ \/ At(p, "record") /\ Accepted(p) /\ UNCHANGED <<unclear, msg>>
     \/ At(p, "release") /\ UNCHANGED <<sent, unclear, msg>>
     \/ /\ NextMessage(p)
        /\ unclear' = unclear \cup msg[p]
        /\ Accepted(p) \/ UNCHANGED sent
  /\ UNCHANGED <<claim, log, due, notifyFaults>>

Logged(p) == log' = [e \in Messages |-> IF e \in msg[p] THEN log[e] + 1 ELSE log[e]]

(* record_send is best effort: its failure is a log line. *)
RecordSend(p) ==
  /\ step[p] = "record"
  /\ \/ Logged(p) /\ UNCHANGED notifyFaults
     \/ /\ notifyFaults < MaxNotifyFaults /\ notifyFaults' = notifyFaults + 1
        /\ Logged(p) \/ UNCHANGED log
  /\ NextMessage(p)
  /\ UNCHANGED <<claim, sent, unclear, due>>

(* Mutant of ReleaseSlot: it is forgotten. *)
ReleaseNothing(p) ==
  /\ step[p] = "release"
  /\ NextMessage(p)
  /\ UNCHANGED <<claim, log, sent, unclear, due, notifyFaults>>

(* _release_send_slot deletes the claim by its key, best effort. *)
ReleaseSlot(p) ==
  /\ step[p] = "release"
  /\ \/ claim' = claim \ msg[p] /\ UNCHANGED notifyFaults
     \/ /\ notifyFaults < MaxNotifyFaults /\ notifyFaults' = notifyFaults + 1
        /\ claim' \in {claim, claim \ msg[p]}
  /\ NextMessage(p)
  /\ UNCHANGED <<log, sent, unclear, due>>

PassDies(p) ==
  /\ step[p] # "off" /\ notifyFaults < MaxNotifyFaults
  /\ At(p, "off")
  /\ due' = [due EXCEPT ![p] = {}] /\ msg' = [msg EXCEPT ![p] = {}]
  /\ notifyFaults' = notifyFaults + 1
  /\ UNCHANGED <<claim, log, sent, unclear>>

PassStep(p) == TryClaim(p) \/ EndPass(p) \/ Send(p) \/ RecordSend(p) \/ ReleaseSlot(p)

NotifyNext == \E p \in Passes : StartPass(p) \/ PassStep(p) \/ ClaimFails(p) \/ PassDies(p)

NotifySpec == NotifyInit /\ [][NotifyNext]_notify
-----------------------------------------------------------------------------
(* The shape of the state. *)
NotifyTypeOK ==
  /\ claim \subseteq Messages /\ unclear \subseteq Messages
  /\ log \in [Messages -> Nat] /\ sent \in [Messages -> Nat]
  /\ step \in [Passes -> {"off", "claim", "send", "record", "release"}]
  /\ due \in [Passes -> SUBSET Messages] /\ msg \in [Passes -> SUBSET Messages]
  /\ notifyFaults \in Nat

InHand(e) == {p \in Passes : e \in msg[p]}

(* dispatch_notifications: "dedupe prevents double-send": whatever passes  *)
(* overlap, die or meet errors, the service accepts a message at most once *)
(* a day.                                                                  *)
SentOnce == \A e \in Messages : sent[e] <= 1

(* notification_log is "the append-only record": every row stands for a    *)
(* send that was accepted.                                                 *)
LogIsTrue == \A e \in Messages : log[e] <= sent[e]

(* A day's slot is not used up for nothing: while no request fails, a      *)
(* claimed message was accepted, is in some pass's hand, or its send ended *)
(* in a transport error.                                                   *)
SlotIsNotBurnt ==
  notifyFaults = 0 => \A e \in claim :
    sent[e] = 1 \/ InHand(e) # {} \/ e \in unclear
=============================================================================
