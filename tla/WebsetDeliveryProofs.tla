------------------------ MODULE WebsetDeliveryProofs ------------------------
(***************************************************************************)
(* Theorems about WebsetDelivery for every number of webhooks, events,     *)
(* appending threads, crashes and store faults.  Those that need a single  *)
(* re-delivery loop say so in their assumption.                            *)
(***************************************************************************)
EXTENDS WebsetDelivery, TLAPS

(* What a thread holds while it works: a runner past the append has an     *)
(* event, and one at a target has a listed webhook; a pass at a row has    *)
(* selected it.                                                            *)
Shape ==
  /\ \A r \in Runners :
       /\ runner[r].pc # "idle" => runner[r].event \in Events
       /\ runner[r].pc \in {"posting", "record"} => runner[r].hook \in runner[r].todo
  /\ \A p \in Procs :
       loop[p].pc \in {"posting", "update"} => loop[p].target \in loop[p].due

TypeInv == TypeOK /\ Shape

USE NumbersAssumption, SubscribedAssumption, HomeAssumption

LEMMA TypeInit == Init => TypeInv
BY DEF Init, TypeInv, TypeOK, Shape, IdleRunner, RunnerAt, IdleLoop, LoopAt, Absent, Row, Moments,
       RunnerState, LoopState, NoTarget, Targets

(* FanoutRest leaves a well-formed thread state. *)
LEMMA FanoutRestType ==
  ASSUME TypeInv, NEW r \in Runners, NEW rest \in SUBSET Webhooks,
         runner[r].event \in Events, FanoutRest(r, rest)
  PROVE  /\ runner' \in [Runners -> RunnerState]
         /\ \A q \in Runners :
              /\ runner'[q].pc # "idle" => runner'[q].event \in Events
              /\ runner'[q].pc \in {"posting", "record"} => runner'[q].hook \in runner'[q].todo
BY DEF TypeInv, TypeOK, Shape, FanoutRest, IdleRunner, RunnerAt, RunnerState

(* PassRest leaves a well-formed pass state. *)
LEMMA PassRestType ==
  ASSUME TypeInv, NEW p \in Procs, NEW rest \in SUBSET Targets, PassRest(p, rest)
  PROVE  /\ loop' \in [Procs -> LoopState]
         /\ \A q \in Procs :
              loop'[q].pc \in {"posting", "update"} => loop'[q].target \in loop'[q].due
BY DEF TypeInv, TypeOK, Shape, PassRest, IdleLoop, LoopAt, LoopState, NoTarget

LEMMA TypeStep == TypeInv /\ [Next]_vars => TypeInv'
<1> SUFFICES ASSUME TypeInv, [Next]_vars PROVE TypeInv'
  OBVIOUS
<1> USE DEF TypeInv, TypeOK, Shape
<1>1. ASSUME NEW w \in Webhooks, AddWebhook(w) PROVE TypeInv'
  BY <1>1 DEF AddWebhook, bounds, history
<1>2. ASSUME NEW r \in Runners, NEW e \in Events, AppendEvent(r, e) PROVE TypeInv'
  BY <1>2 DEF AppendEvent, history, IdleRunner, RunnerAt, RunnerState
<1>3. ASSUME NEW r \in Runners, ListWebhooks(r) PROVE TypeInv'
  <2>1. runner[r].event \in Events
    BY <1>3 DEF ListWebhooks
  <2>2. {w \in hooks : <<w, runner[r].event>> \in Subscribed} \in SUBSET Webhooks
    OBVIOUS
  <2>3. QED
    BY <1>3, <2>1, <2>2, FanoutRestType DEF ListWebhooks, store, bounds, history
<1>4. ASSUME NEW r \in Runners, NEW w \in Webhooks, CheckLedger(r, w) PROVE TypeInv'
  <2>1. runner[r].event \in Events /\ runner[r].todo \in SUBSET Webhooks
    BY <1>4 DEF CheckLedger, RunnerState
  <2>2. CASE ledger[<<w, runner[r].event>>].status # "absent"
    BY <1>4, <2>1, <2>2, FanoutRestType DEF CheckLedger, store, bounds
  <2>3. CASE ledger[<<w, runner[r].event>>].status = "absent"
    <3>1. RunnerAt("posting", runner[r].event, runner[r].todo, w, 1, FALSE) \in RunnerState
      BY <2>1 DEF RunnerAt, RunnerState
    <3>2. runner' \in [Runners -> RunnerState]
      BY <1>4, <2>3, <3>1 DEF CheckLedger
    <3>3. fanned' \in [Targets -> Nat]
      BY <1>4, <2>3 DEF CheckLedger
    <3>4. QED
      BY <1>4, <2>1, <2>3, <3>2, <3>3 DEF CheckLedger, store, bounds, RunnerAt
  <2>4. QED BY <2>2, <2>3
<1>5. ASSUME NEW r \in Runners, NEW outcome \in Outcomes, FanoutPost(r, outcome) PROVE TypeInv'
  <2>1. <<runner[r].hook, runner[r].event>> \in Targets
    BY <1>5 DEF FanoutPost, RunnerState, Targets
  <2>2. runner' \in [Runners -> RunnerState]
    BY <1>5 DEF FanoutPost, RunnerAt, RunnerState, CallDone, Outcomes
  <2>3. QED
    BY <1>5, <2>1, <2>2 DEF FanoutPost, Acknowledge, store, bounds, RunnerAt, RunnerState, CallDone
<1>6. ASSUME NEW r \in Runners, RecordDelivery(r) PROVE TypeInv'
  <2>1. runner[r].event \in Events /\ runner[r].todo \ {runner[r].hook} \in SUBSET Webhooks
    BY <1>6 DEF RecordDelivery, RunnerState
  <2>2. ledger' \in [Targets -> Row]
    BY <1>6 DEF RecordDelivery, InsertIfAbsent, Row, Moments
  <2>3. QED
    BY <1>6, <2>1, <2>2, FanoutRestType DEF RecordDelivery, bounds, history
<1>7. ASSUME NEW r \in Runners, FanoutFault(r) PROVE TypeInv'
  <2>1. CASE runner[r].pc = "appended" /\ FanoutRest(r, {}) /\ UNCHANGED unrecorded
    BY <1>7, <2>1, FanoutRestType DEF FanoutFault, store, RunnerState
  <2>2. ASSUME NEW w \in runner[r].todo, runner[r].pc = "fanout",
               FanoutRest(r, runner[r].todo \ {w}), UNCHANGED unrecorded
        PROVE  TypeInv'
    <3>1. runner[r].event \in Events /\ runner[r].todo \ {w} \in SUBSET Webhooks
      BY <2>2 DEF RunnerState
    <3>2. QED BY <1>7, <2>2, <3>1, FanoutRestType DEF FanoutFault, store
  <2>3. ASSUME runner[r].pc = "record", FanoutRest(r, runner[r].todo \ {runner[r].hook}),
               unrecorded' = unrecorded \cup {<<runner[r].hook, runner[r].event>>}
        PROVE  TypeInv'
    <3>1. runner[r].event \in Events /\ runner[r].hook \in Webhooks
          /\ runner[r].todo \ {runner[r].hook} \in SUBSET Webhooks
      BY <2>3 DEF RunnerState
    <3>2. unrecorded' \subseteq Targets
      BY <2>3, <3>1 DEF Targets
    <3>3. QED BY <1>7, <2>3, <3>1, <3>2, FanoutRestType DEF FanoutFault, store
  <2>4. QED BY <1>7, <2>1, <2>2, <2>3 DEF FanoutFault
<1>8. ASSUME NEW p \in Procs, SelectDue(p) PROVE TypeInv'
  <2>1. PICK S \in SUBSET Due : loop' = [loop EXCEPT ![p] =
            LoopAt("pass", S, [t \in Targets |-> IF t \in S THEN ledger[t].attempts ELSE 0],
                   NoTarget, 0, FALSE)]
    BY <1>8 DEF SelectDue
  <2>2. LoopAt("pass", S, [t \in Targets |-> IF t \in S THEN ledger[t].attempts ELSE 0],
               NoTarget, 0, FALSE) \in LoopState
    BY DEF IdleLoop, LoopAt, LoopState, NoTarget, Due, Row
  <2>3. loop' \in [Procs -> LoopState]
    BY <2>1, <2>2
  <2>4. \A q \in Procs : loop'[q].pc \in {"posting", "update"} => loop'[q].target \in loop'[q].due
    BY <2>1 DEF LoopAt
  <2>5. QED BY <1>8, <2>3, <2>4 DEF SelectDue, store, bounds, history
<1>9. ASSUME NEW p \in Procs, NEW t \in Targets, StartRedelivery(p, t) PROVE TypeInv'
  BY <1>9 DEF StartRedelivery, LoopAt, LoopState, store, bounds
<1>10. ASSUME NEW p \in Procs, NEW outcome \in Outcomes, RedeliveryPost(p, outcome) PROVE TypeInv'
  <2>1. loop[p].target \in Targets
    BY <1>10 DEF RedeliveryPost, LoopState
  <2>2. loop' \in [Procs -> LoopState]
    <3>1. loop[p] \in LoopState
      OBVIOUS
    <3>2. ~CallDone(loop[p].try, outcome) => loop[p].try + 1 \in 0..CallAttempts
      <4>1. loop[p].try \in 0..CallAttempts
        BY <3>1 DEF LoopState
      <4>2. ~CallDone(loop[p].try, outcome) => loop[p].try # CallAttempts
        BY DEF CallDone
      <4>3. \A n \in 0..CallAttempts : n # CallAttempts => n + 1 \in 0..CallAttempts
        OBVIOUS
      <4>4. QED BY <4>1, <4>2, <4>3
    <3>3. (outcome = "success") \in BOOLEAN
      OBVIOUS
    <3>4. LoopAt("update", loop[p].due, loop[p].seen, loop[p].target, 0, outcome = "success")
            \in LoopState
      BY <3>1, <3>3 DEF LoopAt, LoopState
    <3>5. ~CallDone(loop[p].try, outcome) =>
            LoopAt("posting", loop[p].due, loop[p].seen, loop[p].target, loop[p].try + 1, FALSE)
              \in LoopState
      BY <3>1, <3>2 DEF LoopAt, LoopState
    <3>6. QED
      BY <1>10, <3>4, <3>5 DEF RedeliveryPost
  <2>3. QED
    BY <1>10, <2>1, <2>2 DEF RedeliveryPost, Acknowledge, store, bounds, CallDone, LoopAt, LoopState
<1>11. ASSUME NEW p \in Procs, UpdateDelivery(p) PROVE TypeInv'
  <2>1. loop[p].target \in Targets /\ loop[p].due \ {loop[p].target} \in SUBSET Targets
    BY <1>11 DEF UpdateDelivery, LoopState
  <2>2. Redelivered(loop[p].seen[loop[p].target], loop[p].ok) \in Row
    BY <2>1 DEF Redelivered, Row, Moments, LoopState
  <2>3. QED
    BY <1>11, <2>1, <2>2, PassRestType DEF UpdateDelivery, bounds, history
<1>12. ASSUME NEW p \in Procs, UpdateFault(p) PROVE TypeInv'
  <2>1. loop[p].target \in Targets /\ loop[p].due \ {loop[p].target} \in SUBSET Targets
    BY <1>12 DEF UpdateFault, LoopState
  <2>2. QED
    BY <1>12, <2>1, PassRestType DEF UpdateFault, store
<1>13. ASSUME NEW p \in Procs, Crash(p) PROVE TypeInv'
  <2>1. IdleLoop \in LoopState /\ IdleRunner \in RunnerState
    BY DEF IdleLoop, LoopAt, LoopState, NoTarget, IdleRunner, RunnerAt, RunnerState
  <2>2. InFlight(p) \subseteq Targets
    BY DEF InFlight, LoopState, RunnerState, Targets
  <2>3. lostRounds' \in [Targets -> Nat]
    <3>1. CASE loop[p].pc \in {"posting", "update"}
      <4>1. loop[p].target \in Targets
        BY <3>1 DEF LoopState
      <4>2. lostRounds' = [lostRounds EXCEPT ![loop[p].target] = lostRounds[loop[p].target] + 1]
        BY <1>13, <3>1 DEF Crash
      <4>3. QED BY <4>1, <4>2
    <3>2. CASE loop[p].pc \notin {"posting", "update"}
      BY <1>13, <3>2 DEF Crash
    <3>3. QED BY <3>1, <3>2
  <2>4. QED
    BY <1>13, <2>1, <2>2, <2>3 DEF Crash, store, IdleLoop, LoopAt, IdleRunner, RunnerAt
<1>14. ASSUME NEW t \in Targets, ReachNextAttempt(t) PROVE TypeInv'
  BY <1>14 DEF ReachNextAttempt, Row, Moments, bounds, history
<1>15. CASE UNCHANGED vars
  BY <1>15 DEF vars, store, bounds, history
<1>16. QED
  BY <1>1, <1>2, <1>3, <1>4, <1>5, <1>6, <1>7, <1>8, <1>9, <1>10, <1>11, <1>12,
     <1>13, <1>14, <1>15 DEF Next, RunnerStep, LoopStep

(* Every variable keeps its type, and threads hold what they work on:      *)
(* whatever the number of processes, threads and targets.                  *)
THEOREM TypeCorrect == Spec => []TypeInv
<1>1. TypeInv /\ [Next]_vars => TypeInv' BY TypeStep
<1>2. QED BY TypeInit, <1>1, PTL DEF Spec

-----------------------------------------------------------------------------
(* Why a row's ok can be trusted: an outcome is only carried to the ledger *)
(* by a thread that saw the receiver's answer, and answers are not undone. *)
AckInv ==
  /\ OkMeansAcknowledged
  /\ \A r \in Runners :
       runner[r].pc = "record" /\ runner[r].ok =>
         <<runner[r].hook, runner[r].event>> \in acked
  /\ \A p \in Procs :
       loop[p].pc = "update" /\ loop[p].ok => loop[p].target \in acked

LEMMA AckStep == TypeInv /\ AckInv /\ [Next]_vars => AckInv'
<1> SUFFICES ASSUME TypeInv, AckInv, [Next]_vars PROVE AckInv'
  OBVIOUS
<1> USE DEF TypeInv, TypeOK, Shape, AckInv, OkMeansAcknowledged
<1>1. ASSUME NEW w \in Webhooks, AddWebhook(w) PROVE AckInv'
  BY <1>1 DEF AddWebhook, history
<1>2. ASSUME NEW r \in Runners, NEW e \in Events, AppendEvent(r, e) PROVE AckInv'
  BY <1>2 DEF AppendEvent, history, RunnerAt
<1>3. ASSUME NEW r \in Runners, ListWebhooks(r) PROVE AckInv'
  BY <1>3 DEF ListWebhooks, FanoutRest, IdleRunner, RunnerAt, store, history
<1>4. ASSUME NEW r \in Runners, NEW w \in Webhooks, CheckLedger(r, w) PROVE AckInv'
  <2>1. UNCHANGED <<ledger, loop, acked>>
    BY <1>4 DEF CheckLedger, store
  <2>2. \A q \in Runners : runner'[q] = runner[q] \/ runner'[q].pc # "record"
    <3>1. CASE ledger[<<w, runner[r].event>>].status # "absent"
      BY <1>4, <3>1 DEF CheckLedger, FanoutRest, IdleRunner, RunnerAt
    <3>2. CASE ledger[<<w, runner[r].event>>].status = "absent"
      BY <1>4, <3>2 DEF CheckLedger, RunnerAt
    <3>3. QED BY <3>1, <3>2
  <2>3. QED BY <2>1, <2>2
<1>5. ASSUME NEW r \in Runners, NEW outcome \in Outcomes, FanoutPost(r, outcome) PROVE AckInv'
  <2>1. UNCHANGED <<ledger, loop>> /\ acked \subseteq acked'
    BY <1>5 DEF FanoutPost, Acknowledge, store
  <2>2. \A q \in Runners : q # r => runner'[q] = runner[q]
    BY <1>5 DEF FanoutPost
  <2>3. runner'[r].pc = "record" /\ runner'[r].ok =>
          <<runner'[r].hook, runner'[r].event>> \in acked'
    BY <1>5 DEF FanoutPost, Acknowledge, RunnerAt
  <2>4. QED BY <2>1, <2>2, <2>3
<1>6. ASSUME NEW r \in Runners, RecordDelivery(r) PROVE AckInv'
  <2>1. UNCHANGED <<loop, acked>>
    BY <1>6 DEF RecordDelivery, history
  <2>2. \A q \in Runners : runner'[q] = runner[q] \/ runner'[q].pc # "record"
    BY <1>6 DEF RecordDelivery, FanoutRest, IdleRunner, RunnerAt
  <2>3. \A t \in Targets : ledger'[t].status = "ok" => t \in acked
    BY <1>6 DEF RecordDelivery, InsertIfAbsent
  <2>4. QED BY <2>1, <2>2, <2>3
<1>7. ASSUME NEW r \in Runners, FanoutFault(r) PROVE AckInv'
  <2>1. UNCHANGED <<ledger, loop, acked>>
    BY <1>7 DEF FanoutFault, store
  <2>2. \A q \in Runners : runner'[q] = runner[q] \/ runner'[q].pc # "record"
    BY <1>7 DEF FanoutFault, FanoutRest, IdleRunner, RunnerAt
  <2>3. QED BY <2>1, <2>2
<1>8. ASSUME NEW p \in Procs, SelectDue(p) PROVE AckInv'
  BY <1>8 DEF SelectDue, LoopAt, store, history
<1>9. ASSUME NEW p \in Procs, NEW t \in Targets, StartRedelivery(p, t) PROVE AckInv'
  BY <1>9 DEF StartRedelivery, LoopAt, store
<1>10. ASSUME NEW p \in Procs, NEW outcome \in Outcomes, RedeliveryPost(p, outcome) PROVE AckInv'
  <2>1. UNCHANGED <<ledger, runner>> /\ acked \subseteq acked'
    BY <1>10 DEF RedeliveryPost, Acknowledge, store
  <2>2. \A q \in Procs : q # p => loop'[q] = loop[q]
    BY <1>10 DEF RedeliveryPost
  <2>3. loop'[p].pc = "update" /\ loop'[p].ok => loop'[p].target \in acked'
    BY <1>10 DEF RedeliveryPost, Acknowledge, LoopAt
  <2>4. QED BY <2>1, <2>2, <2>3
<1>11. ASSUME NEW p \in Procs, UpdateDelivery(p) PROVE AckInv'
  <2>1. UNCHANGED <<runner, acked>>
    BY <1>11 DEF UpdateDelivery, history
  <2>2. \A q \in Procs : loop'[q] = loop[q] \/ loop'[q].pc # "update"
    BY <1>11 DEF UpdateDelivery, PassRest, IdleLoop, LoopAt
  <2>3. \A t \in Targets : ledger'[t].status = "ok" => t \in acked
    BY <1>11 DEF UpdateDelivery, Redelivered
  <2>4. QED BY <2>1, <2>2, <2>3
<1>12. ASSUME NEW p \in Procs, UpdateFault(p) PROVE AckInv'
  BY <1>12 DEF UpdateFault, PassRest, IdleLoop, LoopAt, store
<1>13. ASSUME NEW p \in Procs, Crash(p) PROVE AckInv'
  BY <1>13 DEF Crash, IdleLoop, LoopAt, IdleRunner, RunnerAt, store
<1>14. ASSUME NEW t \in Targets, ReachNextAttempt(t) PROVE AckInv'
  <2>1. UNCHANGED <<runner, loop, acked>>
    BY <1>14 DEF ReachNextAttempt, history
  <2>2. \A u \in Targets : ledger'[u].status = ledger[u].status
    BY <1>14 DEF ReachNextAttempt, Row
  <2>3. QED BY <2>1, <2>2
<1>15. CASE UNCHANGED vars
  BY <1>15 DEF vars, store, history
<1>16. QED
  BY <1>1, <1>2, <1>3, <1>4, <1>5, <1>6, <1>7, <1>8, <1>9, <1>10, <1>11, <1>12,
     <1>13, <1>14, <1>15 DEF Next, RunnerStep, LoopStep

(* A ledger row marked ok was really acknowledged by its receiver, with    *)
(* any number of processes sharing the table and any number of crashes.    *)
THEOREM OkIsTrue == Spec => []OkMeansAcknowledged
<1>1. Init => AckInv
  BY DEF Init, AckInv, OkMeansAcknowledged, Absent, IdleRunner, RunnerAt, IdleLoop, LoopAt
<1>2. TypeInv /\ AckInv /\ [Next]_vars => AckInv'
  BY AckStep
<1>3. AckInv => OkMeansAcknowledged
  BY DEF AckInv
<1>4. QED BY TypeCorrect, <1>1, <1>2, <1>3, PTL DEF Spec

-----------------------------------------------------------------------------
(* From here on a single re-delivery loop: one process has a driver.       *)
OneLoop == \A p, q \in Procs : p = q

AbsentIsBlank == \A t \in Targets : ledger[t].status = "absent" => ledger[t].attempts = 0

(* SnapshotIsFresh is what makes the overwriting update safe, so it is the *)
(* inductive core; RoundsAccounted needs it for UpdateDelivery.            *)
LoopInv == SnapshotIsFresh /\ AbsentIsBlank /\ RoundsAccounted

(* A step that leaves the passes, the counters and every recorded row's    *)
(* status and attempts alone keeps LoopInv.                                *)
LEMMA LoopQuiet ==
  ASSUME LoopInv, UNCHANGED <<loop, rounds, lostRounds>>,
         \A t \in Targets : /\ ledger'[t].attempts = ledger[t].attempts
                            /\ ledger'[t].status = ledger[t].status \/ ledger[t].status = "absent",
         TypeInv
  PROVE  LoopInv'
<1>1. SnapshotIsFresh'
  BY DEF LoopInv, SnapshotIsFresh, TypeInv, TypeOK, LoopState
<1>2. AbsentIsBlank'
  BY DEF LoopInv, AbsentIsBlank
<1>3. RoundsAccounted'
  BY DEF LoopInv, RoundsAccounted, Redelivering
<1>4. QED BY <1>1, <1>2, <1>3 DEF LoopInv

LEMMA LoopStepInv == OneLoop /\ TypeInv /\ LoopInv /\ [Next]_vars => LoopInv'
<1> SUFFICES ASSUME OneLoop, TypeInv, LoopInv, [Next]_vars PROVE LoopInv'
  OBVIOUS
<1>1. ASSUME NEW w \in Webhooks, AddWebhook(w) PROVE LoopInv'
  BY <1>1, LoopQuiet DEF AddWebhook, history
<1>2. ASSUME NEW r \in Runners, NEW e \in Events, AppendEvent(r, e) PROVE LoopInv'
  BY <1>2, LoopQuiet DEF AppendEvent, history
<1>3. ASSUME NEW r \in Runners, ListWebhooks(r) PROVE LoopInv'
  BY <1>3, LoopQuiet DEF ListWebhooks, store, history
<1>4. ASSUME NEW r \in Runners, NEW w \in Webhooks, CheckLedger(r, w) PROVE LoopInv'
  BY <1>4, LoopQuiet DEF CheckLedger, store
<1>5. ASSUME NEW r \in Runners, NEW outcome \in Outcomes, FanoutPost(r, outcome) PROVE LoopInv'
  BY <1>5, LoopQuiet DEF FanoutPost, store
<1>6. ASSUME NEW r \in Runners, RecordDelivery(r) PROVE LoopInv'
  <2>1. UNCHANGED <<loop, rounds, lostRounds>>
    BY <1>6 DEF RecordDelivery, history
  <2>2. \A t \in Targets : /\ ledger'[t].attempts = ledger[t].attempts
                           /\ ledger'[t].status = ledger[t].status \/ ledger[t].status = "absent"
    BY <1>6 DEF RecordDelivery, InsertIfAbsent, LoopInv, AbsentIsBlank, TypeInv, TypeOK
  <2>3. QED BY <2>1, <2>2, LoopQuiet
<1>7. ASSUME NEW r \in Runners, FanoutFault(r) PROVE LoopInv'
  BY <1>7, LoopQuiet DEF FanoutFault, store
<1>8. ASSUME NEW p \in Procs, SelectDue(p) PROVE LoopInv'
  <2>1. UNCHANGED <<ledger, rounds, lostRounds>>
    BY <1>8 DEF SelectDue, store, history
  <2>2. PICK S \in SUBSET Due : loop' = [loop EXCEPT ![p] =
            LoopAt("pass", S, [t \in Targets |-> IF t \in S THEN ledger[t].attempts ELSE 0],
                   NoTarget, 0, FALSE)]
    BY <1>8 DEF SelectDue
  <2>3. SnapshotIsFresh'
    BY <2>1, <2>2 DEF LoopInv, SnapshotIsFresh, LoopAt, Due, TypeInv, TypeOK, Row
  <2>4. \A t \in Targets : \A q \in Procs : Redelivering(q, t)' <=> Redelivering(q, t)
    BY <1>8, <2>2 DEF SelectDue, Redelivering, LoopAt, TypeInv, TypeOK
  <2>5. RoundsAccounted'
    BY <2>1, <2>4 DEF LoopInv, RoundsAccounted
  <2>6. QED BY <2>1, <2>3, <2>5 DEF LoopInv, AbsentIsBlank
<1>9. ASSUME NEW p \in Procs, NEW t \in Targets, StartRedelivery(p, t) PROVE LoopInv'
  <2>1. UNCHANGED <<ledger, lostRounds>> /\ rounds' = [rounds EXCEPT ![t] = rounds[t] + 1]
    BY <1>9 DEF StartRedelivery, store
  <2>2. SnapshotIsFresh'
    BY <1>9 DEF StartRedelivery, store, LoopInv, SnapshotIsFresh, LoopAt, TypeInv, TypeOK
  <2>3. \A u \in Targets : \A q \in Procs : ~Redelivering(q, u)
    BY <1>9 DEF StartRedelivery, Redelivering, OneLoop
  <2>4. \A u \in Targets : (\E q \in Procs : Redelivering(q, u)') <=> u = t
    BY <1>9 DEF StartRedelivery, Redelivering, OneLoop, LoopAt, TypeInv, TypeOK
  <2>5. RoundsAccounted'
    BY <2>1, <2>3, <2>4 DEF LoopInv, RoundsAccounted, TypeInv, TypeOK, Row
  <2>6. QED BY <2>1, <2>2, <2>5 DEF LoopInv, AbsentIsBlank
<1>10. ASSUME NEW p \in Procs, NEW outcome \in Outcomes, RedeliveryPost(p, outcome) PROVE LoopInv'
  <2>1. UNCHANGED <<ledger, rounds, lostRounds>>
    BY <1>10 DEF RedeliveryPost, store
  <2>2. \A q \in Procs : loop'[q].due = loop[q].due /\ loop'[q].seen = loop[q].seen
    BY <1>10 DEF RedeliveryPost, LoopAt, TypeInv, TypeOK
  <2>3. \A t \in Targets : \A q \in Procs : Redelivering(q, t)' <=> Redelivering(q, t)
    BY <1>10 DEF RedeliveryPost, Redelivering, LoopAt, TypeInv, TypeOK
  <2>4. QED
    BY <2>1, <2>2, <2>3 DEF LoopInv, SnapshotIsFresh, AbsentIsBlank, RoundsAccounted
<1>11. ASSUME NEW p \in Procs, UpdateDelivery(p) PROVE LoopInv'
  <2> DEFINE t == loop[p].target
  <2>1. UNCHANGED <<rounds, lostRounds>> /\ t \in loop[p].due /\ t \in Targets
    BY <1>11 DEF UpdateDelivery, history, TypeInv, TypeOK, Shape, LoopState
  <2>2. ledger'[t].attempts = ledger[t].attempts + 1 /\ ledger'[t].status # "absent"
    BY <1>11, <2>1 DEF UpdateDelivery, Redelivered, LoopInv, SnapshotIsFresh, TypeInv, TypeOK
  <2>3. \A u \in Targets : u # t => ledger'[u] = ledger[u]
    BY <1>11 DEF UpdateDelivery, TypeInv, TypeOK
  <2>4. SnapshotIsFresh'
    <3>1. \A u \in loop'[p].due :
            u \in loop[p].due /\ u # t /\ loop'[p].seen[u] = loop[p].seen[u]
      BY <1>11 DEF UpdateDelivery, PassRest, IdleLoop, LoopAt, TypeInv, TypeOK, LoopState
    <3>2. \A u \in loop[p].due : u \in Targets
      BY <1>11 DEF UpdateDelivery, TypeInv, TypeOK, LoopState
    <3>3. QED BY <2>3, <3>1, <3>2 DEF OneLoop, LoopInv, SnapshotIsFresh
  <2>5. AbsentIsBlank'
    BY <2>2, <2>3 DEF LoopInv, AbsentIsBlank
  <2>6. Redelivering(p, t) /\ \A u \in Targets : u # t => ~Redelivering(p, u)
    BY <1>11 DEF UpdateDelivery, Redelivering
  <2>7. \A u \in Targets : ~Redelivering(p, u)'
    BY <1>11 DEF UpdateDelivery, PassRest, IdleLoop, LoopAt, Redelivering, TypeInv, TypeOK
  <2>8. RoundsAccounted'
    <3>1. \A u \in Targets : /\ (\E q \in Procs : Redelivering(q, u)) <=> u = t
                             /\ ~(\E q \in Procs : Redelivering(q, u)')
      BY <2>6, <2>7 DEF OneLoop
    <3>2. QED
      BY <2>1, <2>2, <2>3, <3>1 DEF LoopInv, RoundsAccounted, TypeInv, TypeOK, Row
  <2>9. QED BY <2>4, <2>5, <2>8 DEF LoopInv
<1>12. ASSUME NEW p \in Procs, UpdateFault(p) PROVE LoopInv'
  <2> DEFINE t == loop[p].target
  <2>1. UNCHANGED <<ledger, rounds>> /\ t \in Targets
        /\ lostRounds' = [lostRounds EXCEPT ![t] = lostRounds[t] + 1]
    BY <1>12 DEF UpdateFault, store, TypeInv, TypeOK, Shape, LoopState
  <2>2. SnapshotIsFresh'
    BY <1>12, <2>1 DEF UpdateFault, PassRest, IdleLoop, LoopAt, LoopInv, SnapshotIsFresh,
                       TypeInv, TypeOK, LoopState
  <2>3. Redelivering(p, t) /\ \A u \in Targets : u # t => ~Redelivering(p, u)
    BY <1>12 DEF UpdateFault, Redelivering
  <2>4. \A u \in Targets : ~Redelivering(p, u)'
    BY <1>12 DEF UpdateFault, PassRest, IdleLoop, LoopAt, Redelivering, TypeInv, TypeOK
  <2>5. RoundsAccounted'
    <3>1. \A u \in Targets : /\ (\E q \in Procs : Redelivering(q, u)) <=> u = t
                             /\ ~(\E q \in Procs : Redelivering(q, u)')
      BY <2>3, <2>4 DEF OneLoop
    <3>2. QED BY <2>1, <3>1 DEF LoopInv, RoundsAccounted, TypeInv, TypeOK, Row
  <2>6. QED BY <2>1, <2>2, <2>5 DEF LoopInv, AbsentIsBlank
<1>13. ASSUME NEW p \in Procs, Crash(p) PROVE LoopInv'
  <2> DEFINE t == loop[p].target
  <2>1. UNCHANGED <<ledger, rounds>>
    BY <1>13 DEF Crash, store
  <2>2. SnapshotIsFresh'
    BY <1>13, <2>1 DEF Crash, IdleLoop, LoopAt, LoopInv, SnapshotIsFresh, TypeInv, TypeOK
  <2>3. \A u \in Targets : ~(\E q \in Procs : Redelivering(q, u)')
    BY <1>13 DEF Crash, IdleLoop, LoopAt, Redelivering, OneLoop, TypeInv, TypeOK
  <2>4. \A u \in Targets :
          lostRounds'[u] = lostRounds[u] + (IF \E q \in Procs : Redelivering(q, u) THEN 1 ELSE 0)
    <3>1. \A u \in Targets : (\E q \in Procs : Redelivering(q, u)) <=> Redelivering(p, u)
      BY DEF OneLoop
    <3>2. CASE loop[p].pc \in {"posting", "update"}
      <4>1. lostRounds' = [lostRounds EXCEPT ![t] = lostRounds[t] + 1]
        BY <1>13, <3>2 DEF Crash
      <4>2. QED BY <3>1, <3>2, <4>1 DEF Redelivering, TypeInv, TypeOK
    <3>3. CASE loop[p].pc \notin {"posting", "update"}
      <4>1. lostRounds' = lostRounds
        BY <1>13, <3>3 DEF Crash
      <4>2. QED BY <3>1, <3>3, <4>1 DEF Redelivering, TypeInv, TypeOK
    <3>4. QED BY <3>2, <3>3
  <2>5. RoundsAccounted'
    BY <2>1, <2>3, <2>4 DEF LoopInv, RoundsAccounted, TypeInv, TypeOK, Row
  <2>6. QED BY <2>1, <2>2, <2>5 DEF LoopInv, AbsentIsBlank
<1>14. ASSUME NEW t \in Targets, ReachNextAttempt(t) PROVE LoopInv'
  <2>1. \A u \in Targets : /\ ledger'[u].attempts = ledger[u].attempts
                           /\ ledger'[u].status = ledger[u].status
    BY <1>14 DEF ReachNextAttempt, TypeInv, TypeOK, Row
  <2>2. QED BY <1>14, <2>1, LoopQuiet DEF ReachNextAttempt, history
<1>15. CASE UNCHANGED vars
  BY <1>15, LoopQuiet DEF vars, store, history
<1>16. QED
  BY <1>1, <1>2, <1>3, <1>4, <1>5, <1>6, <1>7, <1>8, <1>9, <1>10, <1>11, <1>12,
     <1>13, <1>14, <1>15 DEF Next, RunnerStep, LoopStep

LEMMA LoopInit == Init => LoopInv
BY DEF Init, LoopInv, SnapshotIsFresh, AbsentIsBlank, RoundsAccounted, Redelivering,
       Absent, IdleLoop, LoopAt, NoTarget

(* With one loop the pass never works from a stale row: what the selector  *)
(* read is what update_webhook_delivery overwrites.                        *)
THEOREM SnapshotsStayFresh ==
  ASSUME OneLoop
  PROVE  Spec => []SnapshotIsFresh
<1>1. TypeInv /\ LoopInv /\ [Next]_vars => LoopInv'
  BY LoopStepInv
<1>2. LoopInv => SnapshotIsFresh
  BY DEF LoopInv
<1>3. QED BY LoopInit, TypeCorrect, <1>1, <1>2, PTL DEF Spec

(* With one loop every re-delivery call is counted in the row, lost to a   *)
(* crash or store fault, or still on the wire.                             *)
THEOREM RoundsStayAccounted ==
  ASSUME OneLoop
  PROVE  Spec => []RoundsAccounted
<1>1. TypeInv /\ LoopInv /\ [Next]_vars => LoopInv'
  BY LoopStepInv
<1>2. LoopInv => RoundsAccounted
  BY DEF LoopInv
<1>3. QED BY LoopInit, TypeCorrect, <1>1, <1>2, PTL DEF Spec

(* A target that is delivered or exhausted is never contacted again by the *)
(* re-delivery pass.                                                       *)
THEOREM SettledRowsAreLeftAlone ==
  ASSUME OneLoop
  PROVE  Spec => NoRetryOfSettledRow
<1>1. TypeInv /\ LoopInv /\ [Next]_vars =>
        [\A t \in Targets : rounds'[t] > rounds[t] => StatusOf(ledger[t]) = "pending"]_vars
  <2> SUFFICES ASSUME TypeInv, LoopInv, [Next]_vars, NEW t \in Targets, rounds'[t] > rounds[t]
               PROVE  StatusOf(ledger[t]) = "pending"
    OBVIOUS
  <2>1. rounds[t] \in Nat
    BY DEF TypeInv, TypeOK
  <2>2. rounds' # rounds
    BY <2>1
  <2>3. \E p \in Procs : \E u \in Targets : StartRedelivery(p, u)
    BY <2>2 DEF Next, RunnerStep, LoopStep, vars, history, AddWebhook, AppendEvent, ListWebhooks,
                CheckLedger, FanoutPost, RecordDelivery, FanoutFault, SelectDue, RedeliveryPost,
                UpdateDelivery, UpdateFault, Crash, ReachNextAttempt
  <2>4. PICK p \in Procs : t \in loop[p].due
    BY <2>1, <2>3 DEF StartRedelivery, TypeInv, TypeOK
  <2>5. ledger[t].status = "failed" /\ ledger[t].attempts < MaxAttempts
    BY <2>4 DEF LoopInv, SnapshotIsFresh
  <2>6. QED BY <2>5 DEF StatusOf
<1>2. TypeInv /\ LoopInv /\ [Next]_vars => LoopInv'
  BY LoopStepInv
<1>3. QED BY LoopInit, TypeCorrect, <1>1, <1>2, PTL DEF Spec, NoRetryOfSettledRow
-----------------------------------------------------------------------------
(* The refinement: only RecordDelivery and UpdateDelivery are steps of the *)
(* abstract ledger, everything else leaves its view of the table alone.    *)
LEMMA SameView ==
  ASSUME TypeInv, \A t \in Targets : /\ ledger'[t].status = ledger[t].status
                                     /\ ledger'[t].attempts = ledger[t].attempts
  PROVE  UNCHANGED Ledger!vars
BY DEF Ledger!vars, StatusOf

LEMMA LedgerStep == TypeInv /\ LoopInv /\ [Next]_vars => [Ledger!Next]_(Ledger!vars)
<1> SUFFICES ASSUME TypeInv, LoopInv, [Next]_vars PROVE [Ledger!Next]_(Ledger!vars)
  OBVIOUS
<1> DEFINE view == [t \in Targets |-> StatusOf(ledger[t])]
           count == [t \in Targets |-> ledger[t].attempts]
<1>a. \A u \in Targets : Ledger!Record(u) \/ Ledger!Retry(u) => Ledger!Next
  BY DEF Ledger!Next
<1>1. ASSUME NEW r \in Runners, RecordDelivery(r) PROVE [Ledger!Next]_(Ledger!vars)
  <2> DEFINE t == <<runner[r].hook, runner[r].event>>
             outcome == IF runner[r].ok THEN "ok" ELSE "failed"
  <2>1. t \in Targets
    BY <1>1 DEF RecordDelivery, TypeInv, TypeOK, Shape, RunnerState, Targets
  <2>2. CASE ledger[t].status # "absent"
    BY <1>1, <2>2, SameView DEF RecordDelivery, InsertIfAbsent
  <2>3. CASE ledger[t].status = "absent"
    <3>1. ledger' = [ledger EXCEPT ![t] = [status |-> outcome, attempts |-> 0, next |-> "null"]]
      BY <1>1, <2>3 DEF RecordDelivery, InsertIfAbsent
    <3>2. ledger[t].attempts = 0
      BY <2>1, <2>3 DEF LoopInv, AbsentIsBlank
    <3>3. ledger'[t].status = outcome /\ ledger'[t].attempts = 0
          /\ \A u \in Targets : u # t => ledger'[u] = ledger[u]
      BY <2>1, <3>1 DEF TypeInv, TypeOK
    <3>4. UNCHANGED count
      BY <3>2, <3>3
    <3>5. StatusOf(ledger'[t]) \in {"pending", "delivered"}
      BY <3>3 DEF StatusOf
    <3>6. view' = [view EXCEPT ![t] = StatusOf(ledger'[t])]
      BY <2>1, <3>3
    <3>7. view[t] = "absent"
      BY <2>1, <2>3 DEF StatusOf
    <3>8. Ledger!Record(t)
      BY <3>4, <3>5, <3>6, <3>7 DEF Ledger!Record
    <3>9. QED BY <1>a, <2>1, <3>8
  <2>4. QED BY <2>2, <2>3
<1>2. ASSUME NEW p \in Procs, UpdateDelivery(p) PROVE [Ledger!Next]_(Ledger!vars)
  <2>0. PICK t \in Targets : t = loop[p].target
    BY <1>2 DEF UpdateDelivery, TypeInv, TypeOK, Shape, LoopState
  <2> DEFINE n == ledger[t].attempts
  <2>1. t \in loop[p].due /\ n \in Nat
    BY <1>2, <2>0 DEF UpdateDelivery, TypeInv, TypeOK, Shape, LoopState, Row
  <2>2. ledger[t].status = "failed" /\ n = loop[p].seen[t] /\ n < MaxAttempts
    BY <2>1 DEF LoopInv, SnapshotIsFresh
  <2>3. ledger' = [ledger EXCEPT ![t] = Redelivered(n, loop[p].ok)]
    BY <1>2, <2>0, <2>2 DEF UpdateDelivery
  <2>4. ledger'[t] = Redelivered(n, loop[p].ok)
        /\ \A u \in Targets : u # t => ledger'[u] = ledger[u]
    BY <2>1, <2>3 DEF TypeInv, TypeOK
  <2>5. count' = [count EXCEPT ![t] = count[t] + 1]
    <3>1. count'[t] = count[t] + 1
      BY <2>4 DEF Redelivered
    <3>2. \A u \in Targets : u # t => count'[u] = count[u]
      BY <2>4
    <3>3. QED BY <3>1, <3>2
  <2>6. view' = [view EXCEPT ![t] = StatusOf(ledger'[t])]
    BY <2>1, <2>4
  <2>7. view[t] = "pending" /\ count[t] = n
    BY <2>1, <2>2 DEF StatusOf
  <2>8. CASE loop[p].ok
    <3>1. StatusOf(ledger'[t]) = "delivered"
      BY <2>4, <2>8 DEF StatusOf, Redelivered
    <3>2. Ledger!Retry(t)
      BY <2>5, <2>6, <2>7, <3>1 DEF Ledger!Retry
    <3>3. QED BY <1>a, <3>2
  <2>9. CASE ~loop[p].ok /\ n + 1 < MaxAttempts
    <3>1. StatusOf(ledger'[t]) = "pending"
      BY <2>4, <2>9 DEF StatusOf, Redelivered
    <3>2. view' = view
      BY <2>6, <2>7, <3>1
    <3>3. Ledger!Retry(t)
      BY <2>5, <2>7, <2>9, <3>2 DEF Ledger!Retry
    <3>4. QED BY <1>a, <3>3
  <2>10. CASE ~loop[p].ok /\ n + 1 = MaxAttempts
    <3>1. StatusOf(ledger'[t]) = "exhausted"
      BY <2>1, <2>4, <2>10, NumbersAssumption DEF StatusOf, Redelivered
    <3>2. Ledger!Retry(t)
      BY <2>5, <2>6, <2>7, <2>10, <3>1 DEF Ledger!Retry
    <3>3. QED BY <1>a, <3>2
  <2>11. QED
    BY <2>1, <2>2, <2>8, <2>9, <2>10, NumbersAssumption
<1>3. ASSUME NEW t \in Targets, ReachNextAttempt(t) PROVE [Ledger!Next]_(Ledger!vars)
  BY <1>3, SameView DEF ReachNextAttempt, TypeInv, TypeOK, Row
<1>4. CASE UNCHANGED ledger
  BY <1>4, SameView
<1>5. QED
  BY <1>1, <1>2, <1>3, <1>4 DEF Next, RunnerStep, LoopStep, vars, store, AddWebhook, AppendEvent,
     ListWebhooks, CheckLedger, FanoutPost, FanoutFault, SelectDue, StartRedelivery,
     RedeliveryPost, UpdateFault, Crash

(* With one loop, append_event, deliver_webhook and the re-delivery pass   *)
(* together implement the abstract ledger.                                 *)
THEOREM LedgerRefinement ==
  ASSUME OneLoop
  PROVE  Spec => RefinesLedger
<1>1. Init => Ledger!Init
  BY DEF Init, Ledger!Init, Absent, StatusOf
<1>2. TypeInv /\ LoopInv /\ [Next]_vars => [Ledger!Next]_(Ledger!vars)
  BY LedgerStep
<1>3. TypeInv /\ LoopInv /\ [Next]_vars => LoopInv'
  BY LoopStepInv
<1>4. QED BY LoopInit, TypeCorrect, <1>1, <1>2, <1>3, PTL DEF Spec, RefinesLedger, Ledger!Spec
-----------------------------------------------------------------------------
(* From here on, besides, a single thread that appends events.             *)
OneAppender == \A q, r \in Runners : q = r

FanoutCarries(r, t) ==
  runner[r].pc = "record" /\ runner[r].ok /\ <<runner[r].hook, runner[r].event>> = t

LoopCarries(p, t) ==
  loop[p].pc = "update" /\ loop[p].ok /\ loop[p].target = t

(* The answer of a target is safe in its row, on its way to the row, or    *)
(* known to be lost.                                                       *)
Kept(t) ==
  \/ t \in unrecorded
  \/ ledger[t].status = "ok"
  \/ \E r \in Runners : FanoutCarries(r, t)
  \/ \E p \in Procs : LoopCarries(p, t)

(* A fan-out that is POSTing, or about to record, found no row and nobody  *)
(* has inserted one since.                                                 *)
FirstContact ==
  \A r \in Runners : runner[r].pc \in {"posting", "record"} =>
    ledger[<<runner[r].hook, runner[r].event>>].status = "absent"

KeptInv == FirstContact /\ \A t \in acked : Kept(t)

(* A step keeps KeptInv when rows are at most rescheduled, a runner starts *)
(* on no target, and whoever drops an answer it carried says so.           *)
LEMMA KeptQuiet ==
  ASSUME TypeInv, KeptInv, acked' = acked, unrecorded \subseteq unrecorded',
         \A t \in Targets : ledger'[t].status = ledger[t].status,
         \A r \in Runners : \/ runner'[r] = runner[r]
                            \/ /\ runner'[r].pc \notin {"posting", "record"}
                               /\ \A t \in Targets : FanoutCarries(r, t) => t \in unrecorded',
         \A p \in Procs : \/ loop'[p] = loop[p]
                          \/ \A t \in Targets : LoopCarries(p, t) => t \in unrecorded'
  PROVE  KeptInv'
<1>1. FirstContact'
  BY DEF KeptInv, FirstContact, TypeInv, TypeOK, Shape, RunnerState, Targets
<1>2. ASSUME NEW t \in acked' PROVE Kept(t)'
  <2>1. t \in Targets /\ Kept(t)
    BY <1>2 DEF KeptInv, TypeInv, TypeOK
  <2>2. CASE t \in unrecorded \/ ledger[t].status = "ok"
    BY <2>1, <2>2 DEF Kept
  <2>3. ASSUME NEW r \in Runners, FanoutCarries(r, t) PROVE Kept(t)'
    BY <2>1, <2>3 DEF Kept, FanoutCarries
  <2>4. ASSUME NEW p \in Procs, LoopCarries(p, t) PROVE Kept(t)'
    BY <2>1, <2>4 DEF Kept, LoopCarries
  <2>5. QED BY <2>1, <2>2, <2>3, <2>4 DEF Kept
<1>3. QED BY <1>1, <1>2 DEF KeptInv

LEMMA KeptStep == OneLoop /\ OneAppender /\ TypeInv /\ LoopInv /\ KeptInv /\ [Next]_vars => KeptInv'
<1> SUFFICES ASSUME OneLoop, OneAppender, TypeInv, LoopInv, KeptInv, [Next]_vars PROVE KeptInv'
  OBVIOUS
<1>1. ASSUME NEW w \in Webhooks, AddWebhook(w) PROVE KeptInv'
  BY <1>1, KeptQuiet DEF AddWebhook, history
<1>2. ASSUME NEW r \in Runners, NEW e \in Events, AppendEvent(r, e) PROVE KeptInv'
  BY <1>2, KeptQuiet DEF AppendEvent, history, RunnerAt, FanoutCarries, TypeInv, TypeOK
<1>3. ASSUME NEW r \in Runners, ListWebhooks(r) PROVE KeptInv'
  BY <1>3, KeptQuiet DEF ListWebhooks, FanoutRest, store, history, IdleRunner, RunnerAt,
     FanoutCarries, TypeInv, TypeOK
<1>4. ASSUME NEW r \in Runners, NEW w \in Webhooks, CheckLedger(r, w) PROVE KeptInv'
  <2> DEFINE t == <<w, runner[r].event>>
  <2>1. UNCHANGED <<ledger, loop, acked, unrecorded>> /\ runner[r].pc = "fanout"
    BY <1>4 DEF CheckLedger, store
  <2>2. CASE ledger[t].status # "absent"
    BY <1>4, <2>1, <2>2, KeptQuiet DEF CheckLedger, FanoutRest, IdleRunner, RunnerAt,
       FanoutCarries, TypeInv, TypeOK
  <2>3. CASE ledger[t].status = "absent"
    <3>1. runner' = [runner EXCEPT ![r] =
             RunnerAt("posting", runner[r].event, runner[r].todo, w, 1, FALSE)]
      BY <1>4, <2>3 DEF CheckLedger
    <3>2. \A q \in Runners : runner'[q].pc = "posting"
                             /\ <<runner'[q].hook, runner'[q].event>> = t
      BY <3>1 DEF OneAppender, RunnerAt, TypeInv, TypeOK
    <3>3. FirstContact'
      BY <2>1, <2>3, <3>2 DEF FirstContact
    <3>4. \A u \in acked : Kept(u)'
      BY <2>1 DEF KeptInv, Kept, FanoutCarries, LoopCarries, OneAppender
    <3>5. QED BY <2>1, <3>3, <3>4 DEF KeptInv
  <2>4. QED BY <2>2, <2>3
<1>5. ASSUME NEW r \in Runners, NEW outcome \in Outcomes, FanoutPost(r, outcome) PROVE KeptInv'
  <2> DEFINE t == <<runner[r].hook, runner[r].event>>
  <2>1. UNCHANGED <<ledger, loop, unrecorded>> /\ runner[r].pc = "posting"
    BY <1>5 DEF FanoutPost, store
  <2>2. \A q \in Runners : /\ runner'[q].pc \in {"posting", "record"}
                           /\ runner'[q].hook = runner[r].hook
                           /\ runner'[q].event = runner[r].event
    BY <1>5 DEF FanoutPost, OneAppender, RunnerAt, TypeInv, TypeOK
  <2>3. FirstContact'
    BY <2>1, <2>2 DEF KeptInv, FirstContact
  <2>4. outcome = "success" => runner'[r].pc = "record" /\ runner'[r].ok
    BY <1>5 DEF FanoutPost, CallDone, RunnerAt, TypeInv, TypeOK
  <2>5. \A u \in acked' : u \in acked \/ (u = t /\ outcome = "success")
    BY <1>5 DEF FanoutPost, Acknowledge
  <2>6. \A u \in acked : Kept(u)'
    BY <2>1 DEF KeptInv, Kept, FanoutCarries, LoopCarries, OneAppender
  <2>7. ASSUME NEW u \in acked' PROVE Kept(u)'
    <3>1. CASE u \in acked
      BY <2>6, <3>1
    <3>2. CASE u = t /\ outcome = "success"
      BY <2>2, <2>4, <3>2 DEF Kept, FanoutCarries
    <3>3. QED BY <2>5, <3>1, <3>2
  <2>8. QED BY <2>3, <2>7 DEF KeptInv
<1>6. ASSUME NEW r \in Runners, RecordDelivery(r) PROVE KeptInv'
  <2> DEFINE t == <<runner[r].hook, runner[r].event>>
  <2>1. UNCHANGED <<loop, acked, unrecorded>> /\ t \in Targets /\ runner[r].pc = "record"
    BY <1>6 DEF RecordDelivery, history, TypeInv, TypeOK, Shape, RunnerState, Targets
  <2>2. ledger' = [ledger EXCEPT ![t] = [status |-> IF runner[r].ok THEN "ok" ELSE "failed",
                                         attempts |-> 0, next |-> "null"]]
    BY <1>6, <2>1 DEF RecordDelivery, InsertIfAbsent, KeptInv, FirstContact
  <2>3. FirstContact'
    BY <1>6 DEF RecordDelivery, FanoutRest, IdleRunner, RunnerAt, FirstContact, OneAppender,
       TypeInv, TypeOK
  <2>4. ASSUME NEW u \in acked, u = t PROVE Kept(u)'
    <3>1. ledger[u].status = "absent"
      BY <2>1, <2>4 DEF KeptInv, FirstContact
    <3>2. ~\E p \in Procs : LoopCarries(p, u)
      BY <3>1 DEF LoopCarries, TypeInv, Shape, LoopInv, SnapshotIsFresh
    <3>3. u \in unrecorded \/ runner[r].ok
      BY <3>1, <3>2 DEF KeptInv, Kept, FanoutCarries, OneAppender
    <3>4. QED BY <2>1, <2>2, <2>4, <3>3 DEF Kept, TypeInv, TypeOK
  <2>5. ASSUME NEW u \in acked, u # t PROVE Kept(u)'
    <3>1. ledger'[u] = ledger[u]
      BY <2>1, <2>2, <2>5 DEF TypeInv, TypeOK
    <3>2. ~\E q \in Runners : FanoutCarries(q, u)
      BY <2>5 DEF FanoutCarries, OneAppender
    <3>3. QED BY <2>1, <3>1, <3>2 DEF KeptInv, Kept, LoopCarries
  <2>6. QED BY <2>1, <2>3, <2>4, <2>5 DEF KeptInv
<1>7. ASSUME NEW r \in Runners, FanoutFault(r) PROVE KeptInv'
  <2>1. UNCHANGED <<ledger, loop, acked>>
    BY <1>7 DEF FanoutFault, store
  <2>2. runner'[r].pc \notin {"posting", "record"} /\ \A q \in Runners : q = r
    BY <1>7 DEF FanoutFault, FanoutRest, IdleRunner, RunnerAt, OneAppender, TypeInv, TypeOK
  <2>3. unrecorded \subseteq unrecorded'
    BY <1>7 DEF FanoutFault
  <2>4. \A t \in Targets : FanoutCarries(r, t) => t \in unrecorded'
    BY <1>7 DEF FanoutFault, FanoutCarries
  <2>5. QED BY <2>1, <2>2, <2>3, <2>4, KeptQuiet
<1>8. ASSUME NEW p \in Procs, SelectDue(p) PROVE KeptInv'
  <2>1. \A q \in Procs : loop'[q] = loop[q] \/ loop[q].pc # "update"
    BY <1>8 DEF SelectDue, TypeInv, TypeOK
  <2>2. QED BY <1>8, <2>1, KeptQuiet DEF SelectDue, store, history, LoopCarries
<1>9. ASSUME NEW p \in Procs, NEW t \in Targets, StartRedelivery(p, t) PROVE KeptInv'
  <2>1. \A q \in Procs : loop'[q] = loop[q] \/ loop[q].pc # "update"
    BY <1>9 DEF StartRedelivery, TypeInv, TypeOK
  <2>2. QED BY <1>9, <2>1, KeptQuiet DEF StartRedelivery, store, LoopCarries
<1>10. ASSUME NEW p \in Procs, NEW outcome \in Outcomes, RedeliveryPost(p, outcome) PROVE KeptInv'
  <2>1. UNCHANGED <<ledger, runner, unrecorded>> /\ loop[p].pc = "posting"
    BY <1>10 DEF RedeliveryPost, store
  <2>2. FirstContact'
    BY <2>1 DEF KeptInv, FirstContact
  <2>3. outcome = "success" =>
          loop'[p].pc = "update" /\ loop'[p].ok /\ loop'[p].target = loop[p].target
    BY <1>10 DEF RedeliveryPost, CallDone, LoopAt, TypeInv, TypeOK
  <2>4. \A u \in acked' : u \in acked \/ (u = loop[p].target /\ outcome = "success")
    BY <1>10 DEF RedeliveryPost, Acknowledge
  <2>5. \A u \in acked : Kept(u)'
    BY <2>1 DEF KeptInv, Kept, FanoutCarries, LoopCarries, OneLoop
  <2>6. ASSUME NEW u \in acked' PROVE Kept(u)'
    <3>1. CASE u \in acked
      BY <2>5, <3>1
    <3>2. CASE u = loop[p].target /\ outcome = "success"
      BY <2>3, <3>2 DEF Kept, LoopCarries
    <3>3. QED BY <2>4, <3>1, <3>2
  <2>7. QED BY <2>2, <2>6 DEF KeptInv
<1>11. ASSUME NEW p \in Procs, UpdateDelivery(p) PROVE KeptInv'
  <2>0. PICK t \in Targets : t = loop[p].target /\ t \in loop[p].due
    BY <1>11 DEF UpdateDelivery, TypeInv, TypeOK, Shape, LoopState
  <2>1. UNCHANGED <<runner, acked, unrecorded>> /\ loop[p].pc = "update"
    BY <1>11 DEF UpdateDelivery, history
  <2>2. ledger' = [ledger EXCEPT ![t] = Redelivered(loop[p].seen[t], loop[p].ok)]
    BY <1>11, <2>0 DEF UpdateDelivery
  <2>3. ledger[t].status = "failed"
    BY <2>0 DEF LoopInv, SnapshotIsFresh
  <2>4. ~\E r \in Runners : runner[r].pc \in {"posting", "record"}
                            /\ <<runner[r].hook, runner[r].event>> = t
    BY <2>3 DEF KeptInv, FirstContact
  <2>5. FirstContact'
    BY <2>0, <2>1, <2>2, <2>4 DEF KeptInv, FirstContact, TypeInv, TypeOK
  <2>6. ASSUME NEW u \in acked, u = t PROVE Kept(u)'
    <3>1. u \in unrecorded \/ loop[p].ok
      BY <2>3, <2>4, <2>6 DEF KeptInv, Kept, FanoutCarries, LoopCarries, OneLoop
    <3>2. loop[p].ok => ledger'[t].status = "ok"
      BY <2>0, <2>2 DEF Redelivered, TypeInv, TypeOK
    <3>3. QED BY <2>1, <2>6, <3>1, <3>2 DEF Kept
  <2>7. ASSUME NEW u \in acked, u # t PROVE Kept(u)'
    <3>1. ledger'[u] = ledger[u]
      BY <2>2, <2>7 DEF TypeInv, TypeOK
    <3>2. ~\E q \in Procs : LoopCarries(q, u)
      BY <2>0, <2>7 DEF LoopCarries, OneLoop
    <3>3. QED BY <2>1, <3>1, <3>2 DEF KeptInv, Kept, FanoutCarries
  <2>8. QED BY <2>1, <2>5, <2>6, <2>7 DEF KeptInv
<1>12. ASSUME NEW p \in Procs, UpdateFault(p) PROVE KeptInv'
  <2>1. UNCHANGED <<ledger, runner, acked>> /\ unrecorded' = unrecorded \cup {loop[p].target}
    BY <1>12 DEF UpdateFault, store
  <2>2. \A q \in Procs : \A t \in Targets : LoopCarries(q, t) => t \in unrecorded'
    BY <2>1 DEF LoopCarries, OneLoop
  <2>3. QED BY <2>1, <2>2, KeptQuiet
<1>13. ASSUME NEW p \in Procs, Crash(p) PROVE KeptInv'
  <2>1. UNCHANGED <<ledger, acked>> /\ unrecorded' = unrecorded \cup InFlight(p)
    BY <1>13 DEF Crash, store
  <2>2. ASSUME NEW r \in Runners, runner'[r] # runner[r]
        PROVE  /\ runner'[r].pc \notin {"posting", "record"}
               /\ \A t \in Targets : FanoutCarries(r, t) => t \in unrecorded'
    <3>1. Home[r] = p /\ runner'[r] = IdleRunner
      BY <1>13, <2>2 DEF Crash
    <3>2. \A t \in Targets : FanoutCarries(r, t) => t \in InFlight(p)
      BY <3>1 DEF FanoutCarries, InFlight
    <3>3. QED BY <2>1, <3>1, <3>2 DEF IdleRunner, RunnerAt
  <2>3. \A q \in Procs : \A t \in Targets : LoopCarries(q, t) => t \in unrecorded'
    <3>1. \A t \in Targets : LoopCarries(p, t) => t \in InFlight(p)
      BY DEF LoopCarries, InFlight
    <3>2. QED BY <2>1, <3>1 DEF OneLoop
  <2>4. QED BY <2>1, <2>2, <2>3, KeptQuiet
<1>14. ASSUME NEW t \in Targets, ReachNextAttempt(t) PROVE KeptInv'
  <2>1. \A u \in Targets : ledger'[u].status = ledger[u].status
    BY <1>14 DEF ReachNextAttempt, TypeInv, TypeOK, Row
  <2>2. QED BY <1>14, <2>1, KeptQuiet DEF ReachNextAttempt, history
<1>15. CASE UNCHANGED vars
  BY <1>15, KeptQuiet DEF vars, store, history
<1>16. QED
  BY <1>1, <1>2, <1>3, <1>4, <1>5, <1>6, <1>7, <1>8, <1>9, <1>10, <1>11, <1>12,
     <1>13, <1>14, <1>15 DEF Next, RunnerStep, LoopStep

(* Neither a fan-out nor a re-delivery starts on a target whose answer is  *)
(* kept: the one finds its row, the other has it from a failed row.        *)
LEMMA NoRepeat ==
  OneLoop /\ OneAppender /\ TypeInv /\ LoopInv /\ KeptInv /\ [Next]_vars =>
    \A t \in Targets :
      t \in acked /\ (fanned'[t] > fanned[t] \/ rounds'[t] > rounds[t]) => t \in unrecorded
<1> SUFFICES ASSUME OneLoop, OneAppender, TypeInv, LoopInv, KeptInv, [Next]_vars,
                    NEW t \in Targets, t \in acked,
                    fanned'[t] > fanned[t] \/ rounds'[t] > rounds[t]
             PROVE  t \in unrecorded
  OBVIOUS
<1>1. Kept(t)
  BY DEF KeptInv
<1>2. fanned[t] \in Nat /\ rounds[t] \in Nat
  BY DEF TypeInv, TypeOK
<1>3. CASE fanned'[t] > fanned[t]
  <2>1. fanned' # fanned
    BY <1>2, <1>3
  <2>2. PICK r \in Runners, w \in Webhooks : CheckLedger(r, w)
    BY <2>1 DEF Next, RunnerStep, LoopStep, vars, history, AddWebhook, AppendEvent, ListWebhooks,
       FanoutPost, RecordDelivery, FanoutFault, SelectDue, StartRedelivery, RedeliveryPost,
       UpdateDelivery, UpdateFault, Crash, ReachNextAttempt
  <2>3. ledger[t].status = "absent" /\ runner[r].pc = "fanout"
    <3> DEFINE u == <<w, runner[r].event>>
    <3>1. ledger[u].status = "absent" /\ fanned' = [fanned EXCEPT ![u] = fanned[u] + 1]
      BY <2>1, <2>2 DEF CheckLedger
    <3>2. t = u
      BY <1>2, <1>3, <3>1 DEF TypeInv, TypeOK
    <3>3. QED BY <2>2, <3>1, <3>2 DEF CheckLedger
  <2>4. ~\E q \in Runners : FanoutCarries(q, t)
    BY <2>3 DEF FanoutCarries, OneAppender
  <2>5. ~\E p \in Procs : LoopCarries(p, t)
    BY <2>3 DEF LoopCarries, TypeInv, Shape, LoopInv, SnapshotIsFresh
  <2>6. QED BY <1>1, <2>3, <2>4, <2>5 DEF Kept
<1>4. CASE rounds'[t] > rounds[t]
  <2>1. rounds' # rounds
    BY <1>2, <1>4
  <2>2. PICK p \in Procs, u \in Targets : StartRedelivery(p, u)
    BY <2>1 DEF Next, RunnerStep, LoopStep, vars, history, AddWebhook, AppendEvent, ListWebhooks,
       CheckLedger, FanoutPost, RecordDelivery, FanoutFault, SelectDue, RedeliveryPost,
       UpdateDelivery, UpdateFault, Crash, ReachNextAttempt
  <2>3. t = u
    BY <1>2, <1>4, <2>2 DEF StartRedelivery, TypeInv, TypeOK
  <2>4. ledger[t].status = "failed" /\ loop[p].pc = "pass"
    BY <2>2, <2>3 DEF StartRedelivery, LoopInv, SnapshotIsFresh
  <2>5. ~\E q \in Runners : FanoutCarries(q, t)
    BY <2>4 DEF FanoutCarries, KeptInv, FirstContact
  <2>6. ~\E q \in Procs : LoopCarries(q, t)
    BY <2>4 DEF LoopCarries, OneLoop
  <2>7. QED BY <1>1, <2>4, <2>5, <2>6 DEF Kept
<1>5. QED BY <1>3, <1>4

(* With one loop and one appending thread a receiver that has answered     *)
(* with success is contacted again only if that answer was lost in a crash *)
(* or a store fault before it was stored.                                  *)
THEOREM RepeatsFollowLosses ==
  ASSUME OneLoop, OneAppender
  PROVE  Spec => RepeatOnlyAfterLoss
<1>1. Init => KeptInv
  BY DEF Init, KeptInv, FirstContact, IdleRunner, RunnerAt
<1>2. TypeInv /\ LoopInv /\ KeptInv /\ [Next]_vars => KeptInv'
  BY KeptStep
<1>3. TypeInv /\ LoopInv /\ [Next]_vars => LoopInv'
  BY LoopStepInv
<1>4. TypeInv /\ LoopInv /\ KeptInv /\ [Next]_vars =>
        [\A t \in Targets :
           t \in acked /\ (fanned'[t] > fanned[t] \/ rounds'[t] > rounds[t])
             => t \in unrecorded]_vars
  BY NoRepeat
<1>5. QED BY LoopInit, TypeCorrect, <1>1, <1>2, <1>3, <1>4, PTL DEF Spec, RepeatOnlyAfterLoss
=============================================================================
