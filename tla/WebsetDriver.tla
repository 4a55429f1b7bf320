---------------------------- MODULE WebsetDriver ----------------------------
(***************************************************************************)
(* The install window of the digisearch webset driver in one process:      *)
(* lifespan invocations ("sessions") that share one supervisor by counting *)
(* references under an asyncio lock, the supervisor with its TaskGroup and *)
(* startup resume, and the threads (requests, the tick) that store a       *)
(* search and schedule its run through the service's scheduler seam.       *)
(*                                                                         *)
(* Coroutines switch only where they wait; threads interleave with them at *)
(* every read and write of the seam and of WEBSET_TASKS.  A pass is two    *)
(* steps here: what it still picks up, and its end (WebsetRun has more).   *)
(* When a monitor is due is left open; backfills are in WebsetItems.       *)
(***************************************************************************)
EXTENDS Naturals, Sequences, FiniteSets

CONSTANTS
  Sessions,  \* invocations of webset_task_lifespan, all on one event loop
  Websets,
  Requests,  \* threads serving requests
  Tick,      \* the worker thread of the tick loop
  Slots,     \* bound: run tasks alive at a time
  None

Callers == Requests \cup {Tick}

ASSUME DriverAssumption ==
  /\ IsFiniteSet(Sessions)
  /\ Tick \notin Requests
  /\ None \notin Sessions \cup Slots

VARIABLES
  lock,     \* holder of _install_lock
  queue,    \* sessions waiting for it, first come first served
  active,   \* _active
  session,  \* session[s]: how far the invocation is
  current,  \* _supervisor and _stop: the session that started it, or None
  awaited,  \* the supervisor the lock's holder waits for
  super,    \* super[s]: the supervisor started by s
  order,    \* order[s]: what it has been told: "run", "stop" or "kill"
  seam,     \* service._scheduler: the supervisor behind it, None for the null
  found,    \* websets the startup query has found, not yet scheduled
  row,      \* row[w]: the webset is incomplete
  task,     \* task[k]: a live run task
  entry,    \* entry[w]: the task in WEBSET_TASKS
  caller,   \* caller[c]: where the thread is, its webset, the scheduler it has
            \* read and, for the tick, the window its pass belongs to
  missed    \* history: websets whose driving the code has given up

window == <<lock, queue, active, session, current, awaited, order>>
install == <<super, seam, found>>
runs == <<row, task, entry>>
driver == <<window, install, runs, caller, missed>>

Idle == [at |-> "idle", webset |-> None, group |-> None, window |-> None]
NoTask == [webset |-> None, group |-> None, stage |-> "free"]

In == {s \in Sessions : session[s] = "in"}
Live == {k \in Slots : task[k] # NoTask}

DriverInit ==
  /\ lock = None /\ queue = <<>> /\ active = 0
  /\ session = [s \in Sessions |-> "new"]
  /\ current = None /\ awaited = None
  /\ super = [s \in Sessions |-> "off"]
  /\ order = [s \in Sessions |-> "run"]
  /\ seam = None /\ found = {}
  /\ row \in [Websets -> BOOLEAN]
  /\ task = [k \in Slots |-> NoTask]
  /\ entry = [w \in Websets |-> None]
  /\ caller = [c \in Callers |-> Idle]
  /\ missed = {}
-----------------------------------------------------------------------------
(* The lock is free for s: it does not queue behind anybody, or it is next. *)
Free == lock = None /\ queue = <<>>
Without(s) == SelectSeq(queue, LAMBDA t : t # s)
Session(s, at) == session' = [session EXCEPT ![s] = at]

NoWindow == IF current = None THEN TRUE ELSE active = 0 \/ super[current] = "off"

(* s, holding the lock, enters.  No window is open: it starts a supervisor *)
(* and waits for it with the lock held; else it is one more reference.     *)
Enter(s) ==
  \/ /\ NoWindow
     /\ super' = [super EXCEPT ![s] = "created"]
     /\ lock' = s /\ current' = s /\ awaited' = s
     /\ Session(s, "starting")
     /\ UNCHANGED <<active, order>>
  \/ /\ ~NoWindow
     /\ active' = active + 1
     /\ Session(s, "in") /\ lock' = None
     /\ UNCHANGED <<super, current, awaited, order>>

(* Mutant of Exit: every session that leaves stops the supervisor. *)
ExitAlways(s) ==
  /\ active' = active - 1
  /\ current' = None /\ awaited' = current
  /\ order' = [g \in Sessions |-> IF g = current THEN "stop" ELSE order[g]]
  /\ Session(s, "draining") /\ lock' = s
  /\ UNCHANGED super

(* s, holding the lock, leaves; the last one stops the supervisor. *)
Exit(s) ==
  /\ active' = active - 1
  /\ \/ /\ active = 1
        /\ current' = None /\ awaited' = current
        /\ order' = [g \in Sessions |-> IF g = current THEN "stop" ELSE order[g]]
        /\ Session(s, "draining") /\ lock' = s
     \/ /\ active # 1
        /\ Session(s, "gone") /\ lock' = None
        /\ UNCHANGED <<current, awaited, order>>
  /\ UNCHANGED super

Queue(s, at) ==
  /\ ~Free /\ queue' = Append(queue, s) /\ Session(s, at)
  /\ UNCHANGED <<lock, active, current, awaited, order, super>>

Arrive(s) ==
  /\ session[s] = "new"
  /\ \/ Free /\ Enter(s) /\ UNCHANGED queue
     \/ Queue(s, "queued")
  /\ UNCHANGED <<seam, found, runs, caller, missed>>

Leave(s) ==
  /\ session[s] = "in"
  /\ \/ Free /\ Exit(s) /\ UNCHANGED queue
     \/ Queue(s, "exiting")
  /\ UNCHANGED <<seam, found, runs, caller, missed>>

(* The lock passes to the first in the queue. *)
Granted(s) ==
  /\ lock = None /\ queue # <<>> /\ Head(queue) = s /\ queue' = Tail(queue)
  /\ \/ session[s] = "queued" /\ Enter(s)
     \/ session[s] = "exiting" /\ Exit(s)
  /\ UNCHANGED <<seam, found, runs, caller, missed>>

(* The supervisor is ready: the reference counts. *)
Started(s) ==
  /\ session[s] = "starting" /\ super[s] = "serving"
  /\ active' = active + 1
  /\ Session(s, "in") /\ lock' = None /\ awaited' = None
  /\ UNCHANGED <<queue, current, order, install, runs, caller, missed>>

(* The supervisor ended before it was ready: the entry raises. *)
StartFails(s) ==
  /\ session[s] = "starting" /\ super[s] = "off"
  /\ Session(s, "gone") /\ lock' = None /\ current' = None /\ awaited' = None
  /\ UNCHANGED <<queue, active, order, install, runs, caller, missed>>

(* Mutant of CancelEntry: the supervisor is cancelled, not awaited. *)
CancelEntryOnly(s) ==
  /\ \/ /\ session[s] = "queued"
        /\ queue' = Without(s) /\ Session(s, "gone")
        /\ UNCHANGED <<lock, current, awaited, order>>
     \/ /\ session[s] = "starting"
        /\ current' = None /\ order' = [order EXCEPT ![s] = "kill"]
        /\ Session(s, "gone") /\ lock' = None /\ awaited' = None
        /\ UNCHANGED queue
  /\ UNCHANGED <<active, install, runs, caller, missed>>

(* An entry is cancelled: waiting for the lock it just goes; waiting for   *)
(* its supervisor it cancels that too and waits for it to end.             *)
CancelEntry(s) ==
  /\ \/ /\ session[s] = "queued"
        /\ queue' = Without(s) /\ Session(s, "gone")
        /\ UNCHANGED <<current, order>>
     \/ /\ session[s] = "starting"
        /\ current' = None /\ order' = [order EXCEPT ![s] = "kill"]
        /\ Session(s, "draining")
        /\ UNCHANGED queue
  /\ UNCHANGED <<lock, active, awaited, install, runs, caller, missed>>

(* An exit is cancelled.  Waiting for the lock it never gives its          *)
(* reference back; waiting for the supervisor, whose task it awaits, it    *)
(* passes the cancellation on to it.                                       *)
CancelExit(s) ==
  /\ \/ /\ session[s] = "exiting"
        /\ queue' = Without(s) /\ Session(s, "gone")
        /\ UNCHANGED order
     \/ /\ session[s] = "draining"
        /\ order' = [order EXCEPT ![awaited] = "kill"]
        /\ UNCHANGED <<queue, session>>
  /\ UNCHANGED <<lock, active, current, awaited, install, runs, caller, missed>>

Drained(s) ==
  /\ session[s] = "draining" /\ super[awaited] = "off"
  /\ Session(s, "gone") /\ lock' = None /\ awaited' = None
  /\ UNCHANGED <<queue, active, current, order, install, runs, caller, missed>>
-----------------------------------------------------------------------------
(* The supervisor of g.  Cancelled before its first step it never runs.    *)
Supervisor(g, at) == super' = [super EXCEPT ![g] = at]

Install(g) ==
  /\ super[g] = "created"
  /\ IF order[g] = "kill" THEN Supervisor(g, "off") /\ UNCHANGED seam
                          ELSE Supervisor(g, "query") /\ seam' = g
  /\ UNCHANGED <<window, found, runs, caller, missed>>

(* Mutant of Query: the resume runs once per process, not per window. *)
QueryOnce(g) ==
  /\ super[g] = "query" /\ order[g] = "run"
  /\ Supervisor(g, "resume")
  /\ \/ /\ found' = {w \in Websets : row[w] /\ \A s \in Sessions : session[s] # "gone"}
        /\ UNCHANGED missed
     \/ found' = {} /\ missed' = missed \cup {w \in Websets : row[w]}
  /\ UNCHANGED <<window, seam, runs, caller>>

(* list_incomplete_websets, on a worker thread; a store that cannot be     *)
(* opened is logged and nothing is resumed.                                *)
Query(g) ==
  /\ super[g] = "query" /\ order[g] = "run"
  /\ Supervisor(g, "resume")
  /\ \/ found' = {w \in Websets : row[w]} /\ UNCHANGED missed
     \/ found' = {} /\ missed' = missed \cup {w \in Websets : row[w]}
  /\ UNCHANGED <<window, seam, runs, caller>>

NewTask(k, w, g) ==
  /\ task[k] = NoTask
  /\ task' = [task EXCEPT ![k] = [webset |-> w, group |-> g, stage |-> "driving"]]
  /\ entry' = [entry EXCEPT ![w] = k]

(* schedule_webset_task on the loop for one webset found; when all are     *)
(* through the supervisor is ready and waits to be stopped.                *)
Resume(g) ==
  /\ super[g] = "resume"
  /\ \/ \E w \in found :
          /\ found' = found \ {w}
          /\ \/ entry[w] = None /\ \E k \in Slots : NewTask(k, w, g)
             \/ entry[w] # None /\ UNCHANGED <<task, entry>>
          /\ UNCHANGED super
     \/ found = {} /\ Supervisor(g, "serving") /\ UNCHANGED <<found, task, entry>>
  /\ UNCHANGED <<window, seam, row, caller, missed>>

Cancelled(k) == [task[k] EXCEPT !.stage = "cancelled"]

(* The end of _supervise: the seam is undone, then cancel_all cancels what *)
(* WEBSET_TASKS names; a group that ends by an exception aborts the rest.  *)
TearDown(g) ==
  /\ Supervisor(g, "draining") /\ seam' = None /\ found' = {}
  /\ task' = [k \in Slots |->
       IF \/ \E w \in Websets : entry[w] = k
          \/ order'[g] = "kill" /\ task[k].group = g
       THEN Cancelled(k) ELSE task[k]]

Unwind(g) ==
  /\ \/ super[g] = "serving" /\ order[g] # "run"
     \/ super[g] = "query" /\ order[g] = "kill"
  /\ UNCHANGED window /\ TearDown(g)
  /\ UNCHANGED <<row, entry, caller, missed>>

(* The startup query raises what nobody catches. *)
QueryRaises(g) ==
  /\ super[g] = "query" /\ order[g] = "run"
  /\ order' = [order EXCEPT ![g] = "kill"] /\ TearDown(g)
  /\ UNCHANGED <<lock, queue, active, session, current, awaited, row, entry, caller, missed>>

(* A group told to stop waits for its tick's pass; a cancelled one leaves  *)
(* the thread behind.                                                      *)
Finish(g) ==
  /\ super[g] = "draining"
  /\ \A k \in Live : task[k].group # g
  /\ order[g] = "kill" \/ caller[Tick].window # g
  /\ Supervisor(g, "off")
  /\ UNCHANGED <<window, seam, found, runs, caller, missed>>
-----------------------------------------------------------------------------
(* A run task.  Its pass settles the webset; a search that arrives after   *)
(* its last look is not its own.                                           *)
Settle(k) ==
  /\ task[k].stage = "driving"
  /\ row' = [row EXCEPT ![task[k].webset] = FALSE]
  /\ task' = [task EXCEPT ![k].stage = "closing"]
  /\ missed' = missed \ {task[k].webset}
  /\ UNCHANGED <<window, install, entry, caller>>

(* _log_task_done drops the entry only if it is this task's. *)
TaskEnds(k) ==
  /\ task[k].stage \in {"closing", "cancelled"}
  /\ task' = [task EXCEPT ![k] = NoTask]
  /\ entry' = [w \in Websets |-> IF entry[w] = k THEN None ELSE entry[w]]
  /\ UNCHANGED <<window, install, row, caller, missed>>
-----------------------------------------------------------------------------
(* A thread that stores a search and schedules its run: a request served   *)
(* in some session, or the tick of the open window for a webset that has   *)
(* no entry.                                                               *)
Stand(c, at) == caller' = [caller EXCEPT ![c].at = at]
Done(c) == caller' = [caller EXCEPT ![c] = Idle]

BeginRequest(c, w) ==
  /\ caller[c].at = "idle" /\ In # {}
  /\ caller' = [caller EXCEPT ![c] =
                  [at |-> "insert", webset |-> w, group |-> None, window |-> None]]
  /\ UNCHANGED <<window, install, runs, missed>>

BeginTick(g, w) ==
  /\ caller[Tick].at = "idle"
  /\ super[g] = "serving" /\ order[g] = "run" /\ entry[w] = None
  /\ caller' = [caller EXCEPT ![Tick] =
                  [at |-> "insert", webset |-> w, group |-> None, window |-> g]]
  /\ UNCHANGED <<window, install, runs, missed>>

Insert(c) ==
  /\ caller[c].at = "insert"
  /\ row' = [row EXCEPT ![caller[c].webset] = TRUE]
  /\ Stand(c, "seam")
  /\ UNCHANGED <<window, install, task, entry, missed>>

(* _schedule_run reads the seam; the null scheduler only logs. *)
ReadSeam(c) ==
  /\ caller[c].at = "seam"
  /\ IF seam = None
     THEN Done(c)
     ELSE caller' = [caller EXCEPT ![c].at = "guard", ![c].group = seam]
  /\ UNCHANGED <<window, install, runs, missed>>

(* schedule_webset_task: an entry whose task is not done is the answer ... *)
Guard(c) ==
  /\ caller[c].at = "guard"
  /\ LET w == caller[c].webset IN
     \/ entry[w] = None /\ Stand(c, "create") /\ UNCHANGED missed
     \/ /\ entry[w] # None /\ Done(c)
        /\ missed' = IF task[entry[w]].stage = "closing" THEN missed \cup {w} ELSE missed
  /\ UNCHANGED <<window, install, runs>>

(* ... and else a task is created and entered.  A group that is aborting   *)
(* or has finished refuses.                                                *)
Create(c) ==
  /\ caller[c].at = "create"
  /\ Done(c)
  /\ LET g == caller[c].group
         closed == super[g] = "off" \/ (super[g] = "draining" /\ order[g] = "kill")
     IN \/ closed /\ UNCHANGED <<task, entry>>
        \/ ~closed /\ \E k \in Slots : NewTask(k, caller[c].webset, g)
  /\ UNCHANGED <<window, install, row, missed>>
-----------------------------------------------------------------------------
SessionStep(s) ==
  Granted(s) \/ Started(s) \/ StartFails(s) \/ Drained(s)

SupervisorStep(g) == Install(g) \/ Query(g) \/ Resume(g) \/ Unwind(g) \/ Finish(g)

TaskStep(k) == Settle(k) \/ TaskEnds(k)

CallerStep(c) == Insert(c) \/ ReadSeam(c) \/ Guard(c) \/ Create(c)

DriverNext ==
  \/ \E s \in Sessions : \/ SessionStep(s) \/ SupervisorStep(s)
                         \/ Arrive(s) \/ Leave(s) \/ CancelEntry(s) \/ CancelExit(s)
                         \/ QueryRaises(s)
  \/ \E k \in Slots : TaskStep(k)
  \/ \E c \in Callers : CallerStep(c)
  \/ \E w \in Websets : \/ \E c \in Requests : BeginRequest(c, w)
                        \/ \E g \in Sessions : BeginTick(g, w)

DriverSpec == DriverInit /\ [][DriverNext]_driver
-----------------------------------------------------------------------------
At == {"idle", "insert", "seam", "guard", "create"}

DriverTypeOK ==
  /\ lock \in Sessions \cup {None} /\ active \in Nat
  /\ session \in [Sessions -> {"new", "queued", "starting", "in", "exiting", "draining", "gone"}]
  /\ current \in Sessions \cup {None} /\ awaited \in Sessions \cup {None}
  /\ super \in [Sessions -> {"off", "created", "query", "resume", "serving", "draining"}]
  /\ order \in [Sessions -> {"run", "stop", "kill"}]
  /\ seam \in Sessions \cup {None} /\ found \subseteq Websets
  /\ row \in [Websets -> BOOLEAN]
  /\ task \in [Slots -> [webset : Websets \cup {None}, group : Sessions \cup {None},
                         stage : {"free", "driving", "closing", "cancelled"}]]
  /\ entry \in [Websets -> Slots \cup {None}]
  /\ caller \in [Callers -> [at : At, webset : Websets \cup {None},
                             group : Sessions \cup {None}, window : Sessions \cup {None}]]

(* driver docstring: "An earlier session's exit never nulls the seam or    *)
(* cancels another still-active session's runs".  Whoever enters, leaves,  *)
(* is cancelled or fails to start, a session that is being served has an   *)
(* installed scheduler whose supervisor has not been told to end, and no   *)
(* run in the registry is a cancelled one.                                 *)
SessionsHaveDriver ==
  In # {} =>
    /\ current # None /\ seam = current
    /\ super[current] = "serving" /\ order[current] = "run"
    /\ \A w \in Websets : entry[w] # None => task[entry[w]].stage # "cancelled"

(* Once the last reference is gone and the lock is free, the driver has    *)
(* left nothing behind: no seam, no supervisor, no run task (the count is  *)
(* what the code goes by; sessions may disagree with it, see CancelExit).  *)
ClosedWindowIsEmpty ==
  active = 0 /\ lock = None =>
    /\ seam = None /\ Live = {}
    /\ \A g \in Sessions : super[g] = "off"

(* A webset that is incomplete while the window stays open is driven: its  *)
(* run is in somebody's hands, or the startup query finds what threads of  *)
(* an earlier window and cancelled runs have left.  Exempt is what the     *)
(* code knowingly gives up: the query that found no store, and a search    *)
(* scheduled onto a run that has taken its last look (WebsetRun).          *)
IncompleteIsDriven ==
  \A w \in Websets :
    (row[w] /\ In # {}) ~> (~row[w] \/ w \in missed \/ In = {})
=============================================================================
