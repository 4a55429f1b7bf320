------------------------------ MODULE MCServing ------------------------------
(***************************************************************************)
(* Instances of what a digisearch server process runs beside its requests: *)
(* the webset driver and the turns of a watch.  They share no state, so a  *)
(* behaviour is one of either, as part says.                               *)
(***************************************************************************)
EXTENDS WebsetDriver, MonitorWatch

CONSTANTS s1, s2, w1, r1, r2, t1, k1, k2, u1, x1, x2

VARIABLE part

vars == <<driver, watch, part>>

Init == DriverInit /\ MonitorInit /\ part \in {"driver", "watch"}

Next ==
  /\ \/ part = "driver" /\ DriverNext /\ UNCHANGED watch
     \/ part = "watch" /\ MonitorNext /\ UNCHANGED driver
  /\ UNCHANGED part

(* The event loop runs its coroutines and threads that have begun go on;   *)
(* nobody has to enter, leave, send a request or be due.                   *)
Driving(A) == part = "driver" /\ A /\ UNCHANGED <<watch, part>>

Fairness ==
  /\ \A s \in Sessions : /\ WF_vars(Driving(SessionStep(s)))
                         /\ WF_vars(Driving(SupervisorStep(s)))
  /\ \A k \in Slots : WF_vars(Driving(TaskStep(k)))
  /\ \A c \in Callers : WF_vars(Driving(CallerStep(c)))

FairSpec == Init /\ [][Next]_vars /\ Fairness

(* runner.py: "Scheduling a webset whose task is still running returns the *)
(* existing task instead of double-driving it".  At most one task drives a *)
(* webset in this process.                                                 *)
OneDriver ==
  \A j, k \in Live :
    /\ task[j].stage = "driving" /\ task[k].stage = "driving"
    /\ task[j].webset = task[k].webset
    => j = k

(* driver.py: "only the last exit signals the supervisor and awaits its    *)
(* teardown".  Refuted (README, section 5): an exit cancelled while it     *)
(* waits for the lock leaves the driver installed for good.                *)
LastExitTearsDown ==
  (\A s \in Sessions : session[s] = "gone") => seam = None

(* driver.py: "cancels every tracked task first so a clean shutdown never  *)
(* hangs on an in-flight pass".  Refuted (README, section 5): a thread     *)
(* that has read the seam schedules a run on the group being torn down.    *)
ShutdownCancelsAll ==
  \A k \in Live : super[task[k].group] = "draining" => task[k].stage = "cancelled"

(* store.py: "newest run first, so the most recent observation of a URL    *)
(* wins" (versions only grow).  Refuted (README, section 5): runs are in   *)
(* the order they started in, not the one they recalled in.                *)
LatestObservationWins ==
  \A i \in Positions : \A u \in Urls : log[i].results[u] <= Seen(u)
=============================================================================
