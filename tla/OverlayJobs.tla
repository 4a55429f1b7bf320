---------------------------- MODULE OverlayJobs ----------------------------
(***************************************************************************)
(* The overlay_daily jobs of digiquant: cron workers that insert, claim    *)
(* and execute one job_runs row per workspace and day over one PostgREST   *)
(* table, without a lease and without anyone who cleans up after a worker. *)
(*                                                                         *)
(* Every request to the table is one step.  A request may also fail, with  *)
(* or without its effect on the row, and a worker may die at any point.    *)
(* Names start with Overlay or Job where another module has the same.      *)
(***************************************************************************)
EXTENDS Naturals

CONSTANTS
  Jobs,       \* idempotency keys: workspaces on one day
  Workers,    \* cron processes
  MaxMishaps  \* bound: requests that fail, and workers that die

VARIABLES
  job,      \* job_runs.status by key; "absent" without a row
  at,       \* where each worker is
  mode,     \* whether it was started with --execute
  todo,     \* targets it has still to dispatch
  mine,     \* jobs it has claimed and has still to execute
  cur,      \* the job it is working on, as a set of at most one
  result,   \* the status the run of cur ends in
  runs,     \* history: how often the graph was invoked for a job
  left,     \* history: jobs claimed by a worker without --execute
  mishaps   \* how much of the bound is used

worker == <<at, mode, todo, mine, cur, result>>
history == <<runs, left>>
overlay == <<job, worker, history, mishaps>>

Settled == {"succeeded", "failed", "skipped", "budget_exhausted", "persist_disabled"}

(* A job in a worker's hands: claimed, and not yet left behind. *)
Executing == {"run", "graph", "pinMissing", "settle", "readBack", "fail"}
Held(w) == mine[w] \cup (IF at[w] \in Executing THEN cur[w] ELSE {})

OverlayInit ==
  /\ job = [k \in Jobs |-> "absent"]
  /\ at = [w \in Workers |-> "idle"]
  /\ mode = [w \in Workers |-> "dispatch"]
  /\ todo = [w \in Workers |-> {}] /\ mine = [w \in Workers |-> {}]
  /\ cur = [w \in Workers |-> {}] /\ result = [w \in Workers |-> "none"]
  /\ runs = [k \in Jobs |-> 0] /\ left = {} /\ mishaps = 0

Goto(w, l) == at' = [at EXCEPT ![w] = l]
-----------------------------------------------------------------------------
(* The statements of SupabaseJobRunStore, as the table they leave.         *)

(* Mutant of Inserted: the upsert replaces the row that is there. *)
Upserted(k, status) == [job EXCEPT ![k] = status]

(* INSERT ... ON CONFLICT DO NOTHING *)
Inserted(k, status) == [job EXCEPT ![k] = IF @ = "absent" THEN status ELSE @]

(* Mutant of Claimable: a running job is taken over. *)
ClaimableAlive(k) == job[k] \in {"pending", "running"}

(* UPDATE ... WHERE status = 'pending' *)
Claimable(k) == job[k] = "pending"
Claimed(k) == [job EXCEPT ![k] = IF Claimable(k) THEN "running" ELSE @]

(* UPDATE by key, whatever the row says *)
Updated(k, status) == [job EXCEPT ![k] = status]
-----------------------------------------------------------------------------
(* main: --all or --workspace-id, with or without --execute. *)
StartCron(w) ==
  /\ at[w] = "idle"
  /\ \E targets \in SUBSET Jobs \ {{}} : todo' = [todo EXCEPT ![w] = targets]
  /\ \E m \in {"dispatch", "execute"} : mode' = [mode EXCEPT ![w] = m]
  /\ Goto(w, "look")
  /\ UNCHANGED <<job, mine, cur, result, history, mishaps>>

(* dispatch_overlay_daily: a row past pending ends it; otherwise the       *)
(* entitlement and the credential decide.                                  *)
Look(w) ==
  /\ at[w] = "look"
  /\ \E k \in todo[w] :
       /\ todo' = [todo EXCEPT ![w] = @ \ {k}]
       /\ \/ job[k] \notin {"absent", "pending"} /\ UNCHANGED <<at, cur>>
          \/ /\ job[k] \in {"absent", "pending"}
             /\ cur' = [cur EXCEPT ![w] = {k}]
             /\ \E l \in {"insertSkip", "insert"} : Goto(w, l)
  /\ UNCHANGED <<job, mode, mine, result, history, mishaps>>

InsertSkipped(w) ==
  /\ at[w] = "insertSkip"
  /\ \E k \in cur[w] : job' = Inserted(k, "skipped")
  /\ cur' = [cur EXCEPT ![w] = {}] /\ Goto(w, "look")
  /\ UNCHANGED <<mode, todo, mine, result, history, mishaps>>

InsertPending(w) ==
  /\ at[w] = "insert"
  /\ \E k \in cur[w] : job' = Inserted(k, "pending")
  /\ Goto(w, "claim")
  /\ UNCHANGED <<mode, todo, mine, cur, result, history, mishaps>>

(* Mutant of Claim: the row that the update returns is not looked at. *)
ClaimForgetting(w) ==
  /\ at[w] = "claim"
  /\ \E k \in cur[w] : job' = Claimed(k)
  /\ cur' = [cur EXCEPT ![w] = {}] /\ Goto(w, "look")
  /\ UNCHANGED <<mode, todo, mine, result, history, mishaps>>

Claim(w) ==
  /\ at[w] = "claim"
  /\ \E k \in cur[w] :
       /\ job' = Claimed(k)
       /\ mine' = [mine EXCEPT ![w] = IF Claimable(k) THEN @ \cup {k} ELSE @]
  /\ cur' = [cur EXCEPT ![w] = {}] /\ Goto(w, "look")
  /\ UNCHANGED <<mode, todo, result, history, mishaps>>

(* Every target is dispatched before the first job is executed; without    *)
(* --execute the claimed rows stay behind as running.                      *)
Dispatched(w) ==
  /\ at[w] = "look" /\ todo[w] = {}
  /\ \/ mode[w] = "execute" /\ Goto(w, "next") /\ UNCHANGED <<mine, left>>
     \/ /\ mode[w] = "dispatch" /\ Goto(w, "idle")
        /\ mine' = [mine EXCEPT ![w] = {}] /\ left' = left \cup mine[w]
  /\ UNCHANGED <<job, mode, todo, cur, result, runs, mishaps>>

(* execute_claimed_rows reads each claimed row again. *)
Reread(w) ==
  /\ at[w] = "next"
  /\ \/ mine[w] = {} /\ Goto(w, "idle") /\ UNCHANGED <<mine, cur>>
     \/ \E k \in mine[w] :
          /\ mine' = [mine EXCEPT ![w] = @ \ {k}]
          /\ \/ job[k] = "running" /\ cur' = [cur EXCEPT ![w] = {k}] /\ Goto(w, "run")
             \/ job[k] # "running" /\ UNCHANGED <<at, cur>>
  /\ UNCHANGED <<job, mode, todo, result, history, mishaps>>

(* Up to the graph: no profile pin, no usable credential, persistence off, *)
(* an error, or the invocation.                                            *)
RunOverlay(w) ==
  /\ at[w] = "run"
  /\ \/ Goto(w, "pinMissing") /\ UNCHANGED <<result, runs>>
     \/ Goto(w, "fail") /\ UNCHANGED <<result, runs>>
     \/ /\ Goto(w, "settle") /\ UNCHANGED runs
        /\ \E s \in {"skipped", "persist_disabled", "failed"} : result' = [result EXCEPT ![w] = s]
     \/ /\ Goto(w, "graph") /\ UNCHANGED result
        /\ runs' = [k \in Jobs |-> IF k \in cur[w] THEN runs[k] + 1 ELSE runs[k]]
  /\ UNCHANGED <<job, mode, todo, mine, cur, left, mishaps>>

(* The graph raises, or require_overlay_legacy_book_safe does after it. *)
GraphEnds(w) ==
  /\ at[w] = "graph"
  /\ result' = [result EXCEPT ![w] = "failed"] /\ Goto(w, "settle")
  /\ UNCHANGED <<job, mode, todo, mine, cur, history, mishaps>>

(* Mutant of FinishJob: an outcome is returned, but not stored. *)
FinishJobUnseen(w) ==
  /\ at[w] = "settle"
  /\ \E k \in cur[w] :
       job' = IF result[w] = "persist_disabled" THEN job ELSE Updated(k, result[w])
  /\ result' = [result EXCEPT ![w] = "none"] /\ Goto(w, "readBack")
  /\ UNCHANGED <<mode, todo, mine, cur, history, mishaps>>

FinishJob(w) ==
  /\ at[w] = "settle"
  /\ \E k \in cur[w] : job' = Updated(k, result[w])
  /\ result' = [result EXCEPT ![w] = "none"] /\ Goto(w, "readBack")
  /\ UNCHANGED <<mode, todo, mine, cur, history, mishaps>>

(* execute_claimed_overlay reads the row once more for its caller. *)
ReadBack(w) ==
  /\ at[w] = "readBack"
  /\ cur' = [cur EXCEPT ![w] = {}] /\ Goto(w, "next")
  /\ UNCHANGED <<job, mode, todo, mine, result, history, mishaps>>

(* fail_running_job: for a missing pin, and for whatever was raised. *)
FailRunningJob(w) ==
  /\ at[w] \in {"pinMissing", "fail"}
  /\ \E k \in cur[w] : job' = Updated(k, "failed")
  /\ cur' = [cur EXCEPT ![w] = {}] /\ Goto(w, "next")
  /\ UNCHANGED <<mode, todo, mine, result, history, mishaps>>
-----------------------------------------------------------------------------
(* What the request in front of w may have done to the table although it   *)
(* failed.                                                                 *)
Effect(w) ==
  \/ UNCHANGED job
  \/ \E k \in cur[w] :
       \/ at[w] = "insertSkip" /\ job' = Inserted(k, "skipped")
       \/ at[w] = "insert" /\ job' = Inserted(k, "pending")
       \/ at[w] = "claim" /\ job' = Claimed(k)
       \/ at[w] = "settle" /\ job' = Updated(k, result[w])
       \/ at[w] \in {"pinMissing", "fail"} /\ job' = Updated(k, "failed")

Die(w) ==
  /\ Goto(w, "idle")
  /\ todo' = [todo EXCEPT ![w] = {}] /\ mine' = [mine EXCEPT ![w] = {}]
  /\ cur' = [cur EXCEPT ![w] = {}] /\ result' = [result EXCEPT ![w] = "none"]

(* The handlers of execute_claimed_rows turn an error of the run into a    *)
(* failed job; anywhere else it ends the worker, as a crash does.          *)
RequestFails(w) ==
  /\ at[w] # "idle" /\ mishaps < MaxMishaps
  /\ Effect(w)
  /\ \/ /\ at[w] \in {"pinMissing", "settle", "readBack"}
        /\ Goto(w, "fail") /\ result' = [result EXCEPT ![w] = "none"]
        /\ UNCHANGED <<todo, mine, cur>>
     \/ Die(w)
  /\ mishaps' = mishaps + 1
  /\ UNCHANGED <<mode, history>>

OverlayStep(w) ==
  \/ Look(w) \/ InsertSkipped(w) \/ InsertPending(w) \/ Claim(w) \/ Dispatched(w)
  \/ Reread(w) \/ RunOverlay(w) \/ GraphEnds(w) \/ FinishJob(w) \/ ReadBack(w)
  \/ FailRunningJob(w)

OverlayNext == \E w \in Workers : StartCron(w) \/ OverlayStep(w) \/ RequestFails(w)

OverlaySpec == OverlayInit /\ [][OverlayNext]_overlay
-----------------------------------------------------------------------------
(* The shape of the table and of the workers. *)
OverlayTypeOK ==
  /\ job \in [Jobs -> Settled \cup {"absent", "pending", "running"}]
  /\ at \in [Workers -> Executing \cup {"idle", "look", "insertSkip", "insert", "claim", "next"}]
  /\ mode \in [Workers -> {"dispatch", "execute"}]
  /\ todo \in [Workers -> SUBSET Jobs] /\ mine \in [Workers -> SUBSET Jobs]
  /\ cur \in [Workers -> SUBSET Jobs] /\ result \in [Workers -> Settled \cup {"none"}]
  /\ runs \in [Jobs -> Nat] /\ left \subseteq Jobs /\ mishaps \in Nat

(* dispatch.py: "A second dispatch for the same day ... does not start a   *)
(* second run": the graph, which spends money and writes books, is invoked *)
(* at most once per workspace and day, whatever workers die or retry.      *)
GraphRunsOnce == \A k \in Jobs : runs[k] <= 1

(* A settled row is left alone, by later workers as well; only the worker  *)
(* that executes the job may turn it into failed, when reading it back or  *)
(* storing it went wrong.                                                  *)
SettledStays ==
  [][\A k \in Jobs : job[k] \in Settled /\ job'[k] # job[k] =>
       job'[k] = "failed" /\ \E w \in Workers : k \in Held(w)]_overlay

(* While nothing fails a running row is in one worker's hands, or was left *)
(* behind by a worker without --execute.                                   *)
RunningIsHeld ==
  mishaps = 0 => \A k \in Jobs : job[k] = "running" =>
    k \in left \/ \E w \in Workers : k \in Held(w)

(* Nobody takes over: a row left running by a worker that died, or that    *)
(* was not told to execute, stays as it is for the rest of the day.        *)
OrphanStays ==
  [][\A k \in Jobs : job[k] = "running" /\ (\A w \in Workers : k \notin Held(w))
       => job'[k] = "running"]_overlay

(* A worker that executes settles what it has claimed, unless a mishap     *)
(* ends it.                                                                *)
ClaimedJobSettles ==
  \A w \in Workers, k \in Jobs :
    k \in Held(w) /\ mode[w] = "execute" ~> job[k] \in Settled \/ mishaps > 0
=============================================================================
