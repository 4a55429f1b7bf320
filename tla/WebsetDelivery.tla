--------------------------- MODULE WebsetDelivery ---------------------------
(***************************************************************************)
(* The webhook egress of digisearch websets: events.append_event, its      *)
(* fan-out deliver_webhook, the webhook_deliveries ledger of the store, and *)
(* the driver's re-delivery pass around events.redeliver_webhook.          *)
(*                                                                         *)
(* Every store call is one SQLite transaction, so it is one step; a POST   *)
(* is a step of its own, because other threads and processes run while it  *)
(* is on the wire.  Runner threads append events and fan them out; each    *)
(* process has one re-delivery loop.  All of them share the database.      *)
(***************************************************************************)
EXTENDS Naturals, FiniteSets

CONSTANTS
  Procs,        \* processes with an installed driver (HTTP server, MCP server)
  Runners,      \* threads that append events
  Home,         \* Home[r]: the process runner r belongs to
  Webhooks, Events,
  Subscribed,   \* the pairs <<w, e>> with e's kind in w's "events"
  CallAttempts, \* _WEBHOOK_ATTEMPTS: POSTs inside one delivery call (3)
  MaxAttempts,  \* _WEBHOOK_REDELIVERY_ATTEMPTS = _MAX_DELIVERY_ATTEMPTS (5)
  Batch,        \* _WEBSET_REDELIVERY_BATCH: rows one pass selects (100)
  MaxCrashes,   \* bound: process crashes explored
  MaxFaults,    \* bound: store faults explored
  MaxAppends,   \* bound: append_event calls explored
  NoOne         \* stands for "no webhook" / "no event"

ASSUME HomeAssumption == Home \in [Runners -> Procs]
ASSUME SubscribedAssumption == Subscribed \subseteq Webhooks \X Events
ASSUME NumbersAssumption ==
  /\ CallAttempts \in Nat \ {0}
  /\ MaxAttempts \in Nat \ {0}
  /\ Batch \in Nat \ {0}
  /\ MaxCrashes \in Nat /\ MaxFaults \in Nat /\ MaxAppends \in Nat
ASSUME NoOneAssumption == NoOne \notin Webhooks \cup Events

VARIABLES
  log,          \* the stored events (the append-only events table)
  hooks,        \* the registered webhooks
  ledger,       \* ledger[t]: the webhook_deliveries row of target t
  runner,       \* runner[r]: what append_event is doing in thread r
  loop,         \* loop[p]: what the re-delivery pass of process p is doing
  crashes, faults, appends,   \* how much of each bound is used
  \* history, read by properties only
  fanned,       \* fanned[t]: fan-out calls that started to POST to t
  rounds,       \* rounds[t]: re-delivery calls that started to POST to t
  lostRounds,   \* lostRounds[t]: of these, whose outcome was never stored
  acked,        \* targets whose receiver answered a POST with success
  unrecorded    \* targets some outcome of which was never stored

store == <<log, hooks, ledger>>
bounds == <<crashes, faults, appends>>
history == <<fanned, rounds, lostRounds, acked, unrecorded>>
vars == <<store, runner, loop, bounds, history>>

Targets == Webhooks \X Events

(* A ledger row: ok = 0 with its re-delivery state, or ok = 1.  The        *)
(* timestamp next_attempt_at is abstracted to what the due selector reads: *)
(* NULL, still in the future, or reached.                                  *)
Moments == {"null", "future", "reached"}
Row == [status : {"absent", "failed", "ok"}, attempts : Nat, next : Moments]

Absent == [status |-> "absent", attempts |-> 0, next |-> "null"]

Outcomes == {"success", "retryable", "final"}

NoTarget == <<NoOne, NoOne>>

RunnerState ==
  [pc : {"idle", "appended", "fanout", "posting", "record"},
   event : Events \cup {NoOne},
   todo : SUBSET Webhooks,            \* listed webhooks still to be handled
   hook : Webhooks \cup {NoOne},      \* the one being delivered to
   try : 0..CallAttempts, ok : BOOLEAN]

LoopState ==
  [pc : {"idle", "pass", "posting", "update"},
   due : SUBSET Targets,              \* selected rows still to be handled
   seen : [Targets -> Nat],           \* attempts as read by the selector
   target : Targets \cup {NoTarget},
   try : 0..CallAttempts, ok : BOOLEAN]

RunnerAt(pc, e, todo, w, try, ok) ==
  [pc |-> pc, event |-> e, todo |-> todo, hook |-> w, try |-> try, ok |-> ok]

LoopAt(pc, due, seen, t, try, ok) ==
  [pc |-> pc, due |-> due, seen |-> seen, target |-> t, try |-> try, ok |-> ok]

IdleRunner == RunnerAt("idle", NoOne, {}, NoOne, 0, FALSE)

IdleLoop == LoopAt("idle", {}, [t \in Targets |-> 0], NoTarget, 0, FALSE)

Init ==
  /\ log = {}
  /\ hooks = {}
  /\ ledger = [t \in Targets |-> Absent]
  /\ runner = [r \in Runners |-> IdleRunner]
  /\ loop = [p \in Procs |-> IdleLoop]
  /\ crashes = 0 /\ faults = 0 /\ appends = 0
  /\ fanned = [t \in Targets |-> 0]
  /\ rounds = [t \in Targets |-> 0]
  /\ lostRounds = [t \in Targets |-> 0]
  /\ acked = {}
  /\ unrecorded = {}

-----------------------------------------------------------------------------
(* service.add_webhook: registration, always active and with a secret.     *)
AddWebhook(w) ==
  /\ w \notin hooks
  /\ hooks' = hooks \cup {w}
  /\ UNCHANGED <<log, ledger, runner, loop, bounds, history>>

(* The store part of append_event: INSERT-or-ignore on the dedup key, so a *)
(* resumed pass that appends the event again gets the stored row back.     *)
AppendEvent(r, e) ==
  /\ runner[r].pc = "idle"
  /\ appends < MaxAppends
  /\ appends' = appends + 1
  /\ log' = log \cup {e}
  /\ runner' = [runner EXCEPT ![r] = RunnerAt("appended", e, {}, NoOne, 0, FALSE)]
  /\ UNCHANGED <<hooks, ledger, loop, crashes, faults, history>>

(* runner r goes on with the webhooks in rest, or returns. *)
FanoutRest(r, rest) ==
  runner' = [runner EXCEPT ![r] =
    IF rest = {} THEN IdleRunner
    ELSE RunnerAt("fanout", runner[r].event, rest, NoOne, 0, FALSE)]

(* deliver_webhook lists the webhooks once; one registered later is not    *)
(* part of this fan-out.                                                   *)
ListWebhooks(r) ==
  /\ runner[r].pc = "appended"
  /\ FanoutRest(r, {w \in hooks : <<w, runner[r].event>> \in Subscribed})
  /\ UNCHANGED <<store, loop, bounds, history>>

(* Mutant of CheckLedger: every listed webhook is contacted. *)
CheckNothing(r, w) ==
  LET t == <<w, runner[r].event>> IN
  /\ runner[r].pc = "fanout"
  /\ w \in runner[r].todo
  /\ runner' = [runner EXCEPT ![r] =
       RunnerAt("posting", runner[r].event, runner[r].todo, w, 1, FALSE)]
  /\ fanned' = [fanned EXCEPT ![t] = fanned[t] + 1]
  /\ UNCHANGED <<store, loop, bounds, rounds, lostRounds, acked, unrecorded>>

(* The ledger lookup that guards a fan-out POST. *)
CheckLedger(r, w) ==
  LET e == runner[r].event
      t == <<w, e>>
  IN
  /\ runner[r].pc = "fanout"
  /\ w \in runner[r].todo
  /\ IF ledger[t].status # "absent"
     THEN /\ FanoutRest(r, runner[r].todo \ {w})
          /\ UNCHANGED fanned
     ELSE /\ runner' = [runner EXCEPT ![r] =
               RunnerAt("posting", e, runner[r].todo, w, 1, FALSE)]
          /\ fanned' = [fanned EXCEPT ![t] = fanned[t] + 1]
  /\ UNCHANGED <<store, loop, bounds, rounds, lostRounds, acked, unrecorded>>

(* What _attempt_delivery does with the answer to POST number try: FALSE   *)
(* means it goes round again, TRUE that the outcome is final.              *)
CallDone(try, outcome) == outcome # "retryable" \/ try = CallAttempts

Acknowledge(t, outcome) ==
  acked' = IF outcome = "success" THEN acked \cup {t} ELSE acked

FanoutPost(r, outcome) ==
  LET e == runner[r].event
      w == runner[r].hook
      try == runner[r].try
      todo == runner[r].todo
  IN
  /\ runner[r].pc = "posting"
  /\ Acknowledge(<<w, e>>, outcome)
  /\ runner' = [runner EXCEPT ![r] =
       IF CallDone(try, outcome) THEN RunnerAt("record", e, todo, w, 0, outcome = "success")
       ELSE RunnerAt("posting", e, todo, w, try + 1, FALSE)]
  /\ UNCHANGED <<store, loop, bounds, fanned, rounds, lostRounds, unrecorded>>

(* Mutants of InsertIfAbsent: an upsert; a row that is always ok. *)
Upsert(t, ok) ==
  ledger' = [ledger EXCEPT ![t] =
               [status |-> IF ok THEN "ok" ELSE "failed", attempts |-> 0, next |-> "null"]]

InsertOk(t, ok) ==
  ledger' = IF ledger[t].status # "absent" THEN ledger
            ELSE [ledger EXCEPT ![t] = [status |-> "ok", attempts |-> 0, next |-> "null"]]

(* record_webhook_delivery: INSERT OR IGNORE with attempts 0, unscheduled. *)
InsertIfAbsent(t, ok) ==
  ledger' = IF ledger[t].status # "absent" THEN ledger
            ELSE [ledger EXCEPT ![t] =
                    [status |-> IF ok THEN "ok" ELSE "failed",
                     attempts |-> 0, next |-> "null"]]

RecordDelivery(r) ==
  /\ runner[r].pc = "record"
  /\ InsertIfAbsent(<<runner[r].hook, runner[r].event>>, runner[r].ok)
  /\ FanoutRest(r, runner[r].todo \ {runner[r].hook})
  /\ UNCHANGED <<log, hooks, loop, bounds, history>>

(* Contained store faults: a failed listing ends the fan-out, a failed     *)
(* ledger read or write skips the target.                                  *)
FanoutFault(r) ==
  /\ faults < MaxFaults
  /\ faults' = faults + 1
  /\ \/ /\ runner[r].pc = "appended"
        /\ FanoutRest(r, {})
        /\ UNCHANGED unrecorded
     \/ \E w \in runner[r].todo :
          /\ runner[r].pc = "fanout"
          /\ FanoutRest(r, runner[r].todo \ {w})
          /\ UNCHANGED unrecorded
     \/ /\ runner[r].pc = "record"
        /\ FanoutRest(r, runner[r].todo \ {runner[r].hook})
        /\ unrecorded' = unrecorded \cup {<<runner[r].hook, runner[r].event>>}
  /\ UNCHANGED <<store, loop, crashes, appends, fanned, rounds, lostRounds, acked>>
-----------------------------------------------------------------------------
(* Mutants of Due: an exhausted row is offered once more; delivered rows   *)
(* are offered; only unscheduled rows are.                                 *)
DueOnceMore == {t \in Targets : /\ ledger[t].status = "failed"
                                /\ ledger[t].attempts <= MaxAttempts
                                /\ ledger[t].next # "future"}

DueDelivered == {t \in Targets : /\ ledger[t].status # "absent"
                                 /\ ledger[t].attempts < MaxAttempts
                                 /\ ledger[t].next # "future"}

DueUnscheduled == {t \in Targets : /\ ledger[t].status = "failed"
                                   /\ ledger[t].attempts < MaxAttempts
                                   /\ ledger[t].next = "null"}

(* list_due_webhook_deliveries: failed, not exhausted, scheduled moment    *)
(* reached; unscheduled rows first, at most Batch of them.                 *)
Due == {t \in Targets : /\ ledger[t].status = "failed"
                        /\ ledger[t].attempts < MaxAttempts
                        /\ ledger[t].next # "future"}

Unscheduled == {t \in Due : ledger[t].next = "null"}

Selection(S) ==
  /\ S \subseteq Due
  /\ Cardinality(S) <= Batch
  /\ S # Due => Cardinality(S) = Batch
  /\ S \subseteq Unscheduled \/ Unscheduled \subseteq S

SelectDue(p) ==
  /\ loop[p].pc = "idle"
  /\ Due # {}
  /\ \E S \in SUBSET Due :
       /\ Selection(S)
       /\ loop' = [loop EXCEPT ![p] =
            LoopAt("pass", S, [t \in Targets |-> IF t \in S THEN ledger[t].attempts ELSE 0],
                   NoTarget, 0, FALSE)]
  /\ UNCHANGED <<store, runner, bounds, history>>

(* process p goes on with the selected rows in rest, or the pass is over. *)
PassRest(p, rest) ==
  loop' = [loop EXCEPT ![p] =
    IF rest = {} THEN IdleLoop
    ELSE LoopAt("pass", rest, [t \in Targets |-> IF t \in rest THEN loop[p].seen[t] ELSE 0],
                NoTarget, 0, FALSE)]

(* redeliver_webhook starts on a row as the selector saw it; it reads the  *)
(* event and the webhook again, never the row.                             *)
StartRedelivery(p, t) ==
  /\ loop[p].pc = "pass"
  /\ t \in loop[p].due
  /\ loop' = [loop EXCEPT ![p] =
       LoopAt("posting", loop[p].due, loop[p].seen, t, 1, FALSE)]
  /\ rounds' = [rounds EXCEPT ![t] = rounds[t] + 1]
  /\ UNCHANGED <<store, runner, bounds, fanned, lostRounds, acked, unrecorded>>

RedeliveryPost(p, outcome) ==
  LET t == loop[p].target
      try == loop[p].try
      due == loop[p].due
      seen == loop[p].seen
  IN
  /\ loop[p].pc = "posting"
  /\ Acknowledge(t, outcome)
  /\ loop' = [loop EXCEPT ![p] =
       IF CallDone(try, outcome) THEN LoopAt("update", due, seen, t, 0, outcome = "success")
       ELSE LoopAt("posting", due, seen, t, try + 1, FALSE)]
  /\ UNCHANGED <<store, runner, bounds, fanned, rounds, lostRounds, unrecorded>>

(* Mutants of Redelivered: the attempt is not counted; giving up is stored *)
(* as success.                                                             *)
RedeliveredUncounted(seen, ok) ==
  IF ok THEN [status |-> "ok", attempts |-> seen, next |-> "null"]
  ELSE [status |-> "failed", attempts |-> seen,
        next |-> IF seen + 1 < MaxAttempts THEN "future" ELSE "null"]

RedeliveredGivesUpOk(seen, ok) ==
  IF ok \/ seen + 1 = MaxAttempts
  THEN [status |-> "ok", attempts |-> seen + 1, next |-> "null"]
  ELSE [status |-> "failed", attempts |-> seen + 1, next |-> "future"]

(* The row an outcome leaves: one more attempt than the selector saw, and  *)
(* the next rung of the ladder while there is one.                         *)
Redelivered(seen, ok) ==
  IF ok THEN [status |-> "ok", attempts |-> seen + 1, next |-> "null"]
  ELSE [status |-> "failed", attempts |-> seen + 1,
        next |-> IF seen + 1 < MaxAttempts THEN "future" ELSE "null"]

(* update_webhook_delivery replaces the row whatever it holds by now. *)
UpdateDelivery(p) ==
  LET t == loop[p].target IN
  /\ loop[p].pc = "update"
  /\ ledger' = [ledger EXCEPT ![t] = Redelivered(loop[p].seen[t], loop[p].ok)]
  /\ PassRest(p, loop[p].due \ {t})
  /\ UNCHANGED <<log, hooks, runner, bounds, history>>

(* A store fault in the update escapes to the pass, which logs it and goes *)
(* on with the next row.                                                   *)
UpdateFault(p) ==
  LET t == loop[p].target IN
  /\ loop[p].pc = "update"
  /\ faults < MaxFaults
  /\ faults' = faults + 1
  /\ PassRest(p, loop[p].due \ {t})
  /\ lostRounds' = [lostRounds EXCEPT ![t] = lostRounds[t] + 1]
  /\ unrecorded' = unrecorded \cup {t}
  /\ UNCHANGED <<store, runner, crashes, appends, fanned, rounds, acked>>
-----------------------------------------------------------------------------
(* The clock reaches a row's next_attempt_at. *)
ReachNextAttempt(t) ==
  /\ ledger[t].next = "future"
  /\ ledger' = [ledger EXCEPT ![t].next = "reached"]
  /\ UNCHANGED <<log, hooks, runner, loop, bounds, history>>

InFlight(p) ==
  {<<runner[r].hook, runner[r].event>> :
      r \in {q \in Runners : Home[q] = p /\ runner[q].pc \in {"posting", "record"}}}
  \cup (IF loop[p].pc \in {"posting", "update"} THEN {loop[p].target} ELSE {})

(* A process dies and comes back: threads and the pass are gone, the       *)
(* database is as the last transaction left it.  A pass abandoned by the   *)
(* stop event, between two rows, is the case with nothing in flight.       *)
Crash(p) ==
  LET t == loop[p].target IN
  /\ crashes < MaxCrashes
  /\ crashes' = crashes + 1
  /\ runner' = [r \in Runners |-> IF Home[r] = p THEN IdleRunner ELSE runner[r]]
  /\ loop' = [loop EXCEPT ![p] = IdleLoop]
  /\ unrecorded' = unrecorded \cup InFlight(p)
  /\ lostRounds' = IF loop[p].pc \in {"posting", "update"}
                   THEN [lostRounds EXCEPT ![t] = lostRounds[t] + 1]
                   ELSE lostRounds
  /\ UNCHANGED <<store, faults, appends, fanned, rounds, acked>>

RunnerStep(r) ==
  \/ ListWebhooks(r)
  \/ \E w \in Webhooks : CheckLedger(r, w)
  \/ \E outcome \in Outcomes : FanoutPost(r, outcome)
  \/ RecordDelivery(r)

LoopStep(p) ==
  \/ SelectDue(p)
  \/ \E t \in Targets : StartRedelivery(p, t)
  \/ \E outcome \in Outcomes : RedeliveryPost(p, outcome)
  \/ UpdateDelivery(p)

Next ==
  \/ \E w \in Webhooks : AddWebhook(w)
  \/ \E r \in Runners, e \in Events : AppendEvent(r, e)
  \/ \E r \in Runners : RunnerStep(r) \/ FanoutFault(r)
  \/ \E p \in Procs : LoopStep(p) \/ UpdateFault(p) \/ Crash(p)
  \/ \E t \in Targets : ReachNextAttempt(t)

Spec == Init /\ [][Next]_vars

(* Threads run, passes repeat (WEBSET_REDELIVERY_SECONDS) and time passes. *)
Fairness ==
  /\ \A r \in Runners : WF_vars(RunnerStep(r))
  /\ \A p \in Procs : WF_vars(LoopStep(p))
  /\ \A t \in Targets : WF_vars(ReachNextAttempt(t))

FairSpec == Spec /\ Fairness
-----------------------------------------------------------------------------
TypeOK ==
  /\ log \subseteq Events
  /\ hooks \subseteq Webhooks
  /\ ledger \in [Targets -> Row]
  /\ runner \in [Runners -> RunnerState]
  /\ loop \in [Procs -> LoopState]
  /\ crashes \in 0..MaxCrashes /\ faults \in 0..MaxFaults /\ appends \in 0..MaxAppends
  /\ fanned \in [Targets -> Nat]
  /\ rounds \in [Targets -> Nat]
  /\ lostRounds \in [Targets -> Nat]
  /\ acked \subseteq Targets
  /\ unrecorded \subseteq Targets

Redelivering(p, t) == loop[p].pc \in {"posting", "update"} /\ loop[p].target = t

-----------------------------------------------------------------------------
(* The ledger as DeliveryLedger sees it. *)
StatusOf(row) ==
  CASE row.status = "absent" -> "absent"
    [] row.status = "ok" -> "delivered"
    [] row.status = "failed" /\ row.attempts < MaxAttempts -> "pending"
    [] OTHER -> "exhausted"

Ledger == INSTANCE DeliveryLedger WITH
  status <- [t \in Targets |-> StatusOf(ledger[t])],
  attempts <- [t \in Targets |-> ledger[t].attempts]

(* With one re-delivery loop the shared table behaves as the abstract      *)
(* ledger promises: delivered and exhausted rows are final and every       *)
(* stored retry counts exactly one more, although the loop overwrites rows *)
(* from a snapshot and fan-outs run beside it.                             *)
RefinesLedger == Ledger!Spec

(* A row that failed its first delivery does not stay pending for ever:    *)
(* passes, the backoff ladder and store faults together still settle it.   *)
FailedRowsSettle == Ledger!Settles

(* A row says ok only when the receiver really answered a POST for that    *)
(* target with success, whoever wrote the row and whatever was lost.       *)
OkMeansAcknowledged ==
  \A t \in Targets : ledger[t].status = "ok" => t \in acked

(* The selector's snapshot is still what the table says when the pass gets *)
(* to the row; redeliver_webhook relies on it when it adds one to          *)
(* delivery.attempts and overwrites.                                       *)
SnapshotIsFresh ==
  \A p \in Procs : \A t \in loop[p].due :
    /\ ledger[t].status = "failed"
    /\ ledger[t].attempts = loop[p].seen[t]
    /\ ledger[t].attempts < MaxAttempts

(* Re-delivery calls are all accounted for: counted in the row, lost to a  *)
(* crash or a store fault, or on the wire right now.  Without losses a     *)
(* target sees at most MaxAttempts of them.                                *)
RoundsAccounted ==
  \A t \in Targets :
    rounds[t] = ledger[t].attempts + lostRounds[t]
                + (IF \E p \in Procs : Redelivering(p, t) THEN 1 ELSE 0)

(* A re-delivery never starts on a row that is delivered or exhausted.     *)
NoRetryOfSettledRow ==
  [][\A t \in Targets : rounds'[t] > rounds[t] =>
       StatusOf(ledger[t]) = "pending"]_vars

(* When one thread appends, a target that has answered with success is     *)
(* contacted again only if the answer was lost before it was stored.       *)
RepeatOnlyAfterLoss ==
  [][\A t \in Targets :
       t \in acked /\ (fanned'[t] > fanned[t] \/ rounds'[t] > rounds[t])
         => t \in unrecorded]_vars

=============================================================================
