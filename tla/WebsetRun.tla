----------------------------- MODULE WebsetRun -----------------------------
(***************************************************************************)
(* The life of one digisearch webset: the run task that drives its search  *)
(* generations to a terminal status (runner.AsyncioRunner), the requests   *)
(* that add searches and cancel it (service, store), a crash of the server *)
(* and the resume at startup (driver).                                     *)
(*                                                                         *)
(* The run task and each request have their own SQLite connection, so one  *)
(* store statement or transaction is one step.  A store method that reads, *)
(* checks and then writes is several steps: no transaction spans them.     *)
(*                                                                         *)
(* The enrichment definitions are those the webset was created with;       *)
(* add_enrichment and its backfill are left out.  Of the items only one    *)
(* fact is kept: whether something stored still blocks "idle".             *)
(***************************************************************************)
EXTENDS Naturals

CONSTANTS
  MaxSearches,      \* bound: search generations, numbered in creation order
  Variants,         \* query variants of a search (4)
  FinalizeAttempts, \* _FINALIZE_ATTEMPTS (2)
  Callers,          \* threads serving add_search / trigger / cancel requests
  MaxCrashes,       \* bound: server crashes explored
  MaxFaults         \* bound: store faults explored in the run task

ASSUME BoundsAssumption ==
  /\ MaxSearches \in Nat \ {0} /\ Variants \in Nat \ {0}
  /\ FinalizeAttempts \in Nat \ {0}
  /\ MaxCrashes \in Nat /\ MaxFaults \in Nat

VARIABLES
  webset,     \* websets.status
  search,     \* search[s]: searches.status, or "absent"
  unsettled,  \* some item is pending or a verified one lacks a field
  events,     \* <<kind, s>>: webset.idle / webset.failed under generation s
  pc,         \* where the run task is; "off" when WEBSET_TASKS has no live one
  queue,      \* searches the current loop of the run task still has to visit
  driven,     \* state.driven: the searches this run has started
  phase,      \* which loop drives: _drive, or _drive_newcomers and its caller
  tries,      \* idle flips _finalize has had refused
  cur, variant, recalled,  \* _drive_search: its search, loop index and flag
  gens,       \* generations whose terminal event the run is about to append
  flip,       \* _fail: the webset was running when _fail read it
  call,       \* call[c]: where request thread c is
  victims,    \* victims[c]: searches its cancel_webset is about to overwrite
  crashes, faults

rows == <<webset, search, unsettled, events>>
pass == <<cur, variant, recalled>>
run == <<pc, queue, driven, phase, tries, pass, gens, flip>>
requests == <<call, victims>>
bounds == <<crashes, faults>>
vars == <<rows, run, requests, bounds>>

Searches == 1..MaxSearches
Terminal == {"idle", "failed", "cancelled"}

Running == {s \in Searches : search[s] = "running"}
Stored == {s \in Searches : search[s] # "absent"}

(* Mutant of Blocked: pending items and missing fields are overlooked. *)
BlockedBySearchOnly == Running # {}

(* What set_webset_idle refuses on. *)
Blocked == Running # {} \/ unsettled

First(s, S) == s \in S /\ \A t \in S : s <= t
Last(s, S) == s \in S /\ \A t \in S : t <= s

(* create_webset has stored the webset and its first search and scheduled  *)
(* the run.                                                                *)
Init ==
  /\ webset = "running"
  /\ search = [s \in Searches |-> IF s = 1 THEN "running" ELSE "absent"]
  /\ unsettled = FALSE
  /\ events = {}
  /\ pc = "load"
  /\ queue = {} /\ driven = {} /\ phase = "first" /\ tries = 0
  /\ cur = 0 /\ variant = 0 /\ recalled = FALSE
  /\ gens = {} /\ flip = FALSE
  /\ call = [c \in Callers |-> "none"]
  /\ victims = [c \in Callers |-> {}]
  /\ crashes = 0 /\ faults = 0
-----------------------------------------------------------------------------
(* The run task forgets everything and stands at l. *)
Fresh(l) ==
  /\ pc' = l
  /\ queue' = {} /\ driven' = {} /\ phase' = "first" /\ tries' = 0
  /\ cur' = 0 /\ variant' = 0 /\ recalled' = FALSE
  /\ gens' = {} /\ flip' = FALSE

Return == Fresh("off")
Raise == Fresh("fail")

(* Between two searches the locals of _drive_search are dead. *)
NoPass == cur' = 0 /\ variant' = 0 /\ recalled' = FALSE

(* A cancelled run writes its missing fields as "skipped"; pending items,  *)
(* if there are any, stay.                                                 *)
SkipFields == unsettled' \in {FALSE, unsettled}

Load ==
  /\ pc = "load"
  /\ \/ webset = "cancelled" /\ Return
     \/ /\ webset # "cancelled"
        /\ pc' = "next" /\ queue' = Running
        /\ UNCHANGED <<driven, phase, tries, pass, gens, flip>>
  /\ UNCHANGED <<rows, requests, bounds>>

(* _drive looks at the cancel flag before each search; _drive_newcomers    *)
(* leaves that to _drive_search.                                           *)
PickSearch ==
  /\ pc = "next" /\ queue # {}
  /\ \/ /\ phase = "first" /\ webset = "cancelled"
        /\ pc' = "finalize" /\ queue' = {}
        /\ UNCHANGED <<driven, pass>>
     \/ /\ ~(phase = "first" /\ webset = "cancelled")
        /\ \E s \in queue :
             /\ First(s, queue)
             /\ cur' = s /\ queue' = queue \ {s} /\ driven' = driven \cup {s}
        /\ variant' = 0 /\ recalled' = FALSE
        /\ pc' = "variant"
  /\ UNCHANGED <<rows, phase, tries, gens, flip, requests, bounds>>

(* The loop is through: on to _finalize, to the sticky-idle flip, or to    *)
(* another attempt at a refused flip, while there are attempts left.       *)
SearchesDone ==
  /\ pc = "next" /\ queue = {}
  /\ \/ /\ phase = "first" /\ pc' = "finalize"
        /\ UNCHANGED <<queue, driven, phase, tries, pass, gens, flip>>
     \/ /\ phase = "sticky" /\ pc' = "setIdle"
        /\ UNCHANGED <<queue, driven, phase, tries, pass, gens, flip>>
     \/ /\ phase = "retry" /\ tries < FinalizeAttempts /\ pc' = "setIdle"
        /\ UNCHANGED <<queue, driven, phase, tries, pass, gens, flip>>
     \/ phase = "retry" /\ tries = FinalizeAttempts /\ Raise
  /\ UNCHANGED <<rows, requests, bounds>>

(* Top of the variant loop: cancelled, or the target count is reached by   *)
(* what earlier variants or passes verified, or recall this variant.       *)
TryVariant ==
  /\ pc = "variant"
  /\ \/ webset = "cancelled" /\ pc' = "next" /\ NoPass
     \/ /\ webset # "cancelled"
        /\ pc' = "recall" \/ (variant > 0 /\ pc' = "passEnd")
        /\ UNCHANGED pass
  /\ UNCHANGED <<rows, queue, driven, phase, tries, gens, flip, requests, bounds>>

(* search_web fails and the next variant is tried, or its hits are worked  *)
(* through (_run_batch: save, fetch, verify, enrich, item by item).  Every *)
(* failure is contained per item; any of them may be left pending or with  *)
(* a field missing, or the last one of an earlier pass may be settled.     *)
Recall ==
  /\ pc = "recall"
  /\ \/ recalled' = TRUE /\ unsettled' \in BOOLEAN
     \/ UNCHANGED <<recalled, unsettled>>
  /\ variant' = variant + 1
  /\ pc' = IF variant + 1 = Variants THEN "passEnd" ELSE "variant"
  /\ UNCHANGED <<webset, search, events, queue, driven, phase, tries, cur, gens, flip,
                 requests, bounds>>

PassEnd ==
  /\ pc = "passEnd"
  /\ \/ ~recalled /\ Raise
     \/ /\ recalled
        /\ \/ webset = "cancelled" /\ pc' = "next" /\ NoPass
           \/ webset # "cancelled" /\ pc' = "settleItems" /\ UNCHANGED pass
        /\ UNCHANGED <<queue, driven, phase, tries, gens, flip>>
  /\ UNCHANGED <<rows, requests, bounds>>

SettleItems ==
  /\ pc = "settleItems"
  /\ unsettled' = FALSE
  /\ pc' = "reread"
  /\ UNCHANGED <<webset, search, events, queue, driven, phase, tries, pass, gens, flip,
                 requests, bounds>>

(* The re-read in front of settle_search. *)
Reread ==
  /\ pc = "reread"
  /\ \/ search[cur] = "running" /\ pc' = "settle" /\ UNCHANGED pass
     \/ search[cur] # "running" /\ pc' = "next" /\ NoPass
  /\ UNCHANGED <<rows, queue, driven, phase, tries, gens, flip, requests, bounds>>

(* settle_search reads again and refuses what is not running any more ... *)
SettleSearch ==
  /\ pc = "settle"
  /\ \/ /\ search[cur] = "running" /\ pc' = "writeSearch"
        /\ UNCHANGED <<queue, driven, phase, tries, pass, gens, flip>>
     \/ search[cur] # "running" /\ Raise
  /\ UNCHANGED <<rows, requests, bounds>>

(* ... and then updates the row whatever it holds. *)
WriteSearch ==
  /\ pc = "writeSearch"
  /\ search' = [search EXCEPT ![cur] = "idle"]
  /\ pc' = "next" /\ NoPass
  /\ UNCHANGED <<webset, unsettled, events, queue, driven, phase, tries, gens, flip,
                 requests, bounds>>
-----------------------------------------------------------------------------
Finalize ==
  /\ pc = "finalize"
  /\ \/ webset = "cancelled" /\ SkipFields /\ Return
     \/ webset = "failed" /\ Return /\ UNCHANGED unsettled
     \/ /\ webset = "idle" /\ pc' = "newcomers" /\ phase' = "sticky"
        /\ UNCHANGED <<unsettled, queue, driven, tries, pass, gens, flip>>
     \/ /\ webset = "running" /\ pc' = "setIdle"
        /\ UNCHANGED <<unsettled, queue, driven, phase, tries, pass, gens, flip>>
  /\ UNCHANGED <<webset, search, events, requests, bounds>>

(* _drive_newcomers: the running searches this run has not started yet. *)
DriveNewcomers ==
  /\ pc = "newcomers"
  /\ IF webset = "cancelled" \/ Running \ driven = {}
     THEN /\ pc' = IF phase = "sticky" THEN "setIdle" ELSE "recheck"
          /\ UNCHANGED queue
     ELSE pc' = "next" /\ queue' = Running \ driven
  /\ UNCHANGED <<rows, driven, phase, tries, pass, gens, flip, requests, bounds>>

(* set_webset_idle reads the status and the settlement blockers. *)
SetIdle ==
  /\ pc = "setIdle"
  /\ \/ webset \in {"cancelled", "failed"} /\ SkipFields /\ Return
     \/ /\ \/ webset = "idle" /\ pc' = "announce"
           \/ webset = "running" /\ Blocked /\ pc' = "blocked"
           \/ webset = "running" /\ ~Blocked /\ pc' = "reidle"
        /\ UNCHANGED <<unsettled, queue, driven, phase, tries, pass, gens, flip>>
  /\ UNCHANGED <<webset, search, events, requests, bounds>>

(* set_webset_status reads the status once more ... *)
RereadIdle ==
  /\ pc = "reidle"
  /\ \/ webset # "running" /\ SkipFields /\ Return
     \/ /\ webset = "running" /\ pc' = "writeIdle"
        /\ UNCHANGED <<unsettled, queue, driven, phase, tries, pass, gens, flip>>
  /\ UNCHANGED <<webset, search, events, requests, bounds>>

(* Mutant of WriteIdle: the flip returns without announcing it. *)
WriteIdleSilently ==
  /\ pc = "writeIdle"
  /\ webset' = "idle"
  /\ Return
  /\ UNCHANGED <<search, unsettled, events, requests, bounds>>

(* ... and writes the whole row. *)
WriteIdle ==
  /\ pc = "writeIdle"
  /\ webset' = "idle"
  /\ pc' = "announce"
  /\ UNCHANGED <<search, unsettled, events, queue, driven, phase, tries, pass, gens, flip,
                 requests, bounds>>

(* The flip was refused as not settled. *)
RetryIdle ==
  /\ pc = "blocked"
  /\ \/ webset = "cancelled" /\ SkipFields /\ Return
     \/ /\ webset # "cancelled"
        /\ pc' = "newcomers" /\ phase' = "retry" /\ tries' = tries + 1
        /\ UNCHANGED <<unsettled, queue, driven, pass, gens, flip>>
  /\ UNCHANGED <<webset, search, events, requests, bounds>>

Recheck ==
  /\ pc = "recheck"
  /\ \/ webset = "cancelled" /\ SkipFields /\ Return
     \/ webset # "cancelled" /\ Raise /\ UNCHANGED unsettled
  /\ UNCHANGED <<webset, search, events, requests, bounds>>

(* Mutant of ListIdle: every settled search is announced as idle. *)
ListTerminal ==
  /\ pc = "announce"
  /\ LET over == {s \in Searches : search[s] \in Terminal} IN
     \/ over = {} /\ Return
     \/ /\ over # {} /\ gens' = over /\ pc' = "emit"
        /\ UNCHANGED <<queue, driven, phase, tries, pass, flip>>
  /\ UNCHANGED <<rows, requests, bounds>>

(* webset.idle is emitted for every search that is idle by now. *)
ListIdle ==
  /\ pc = "announce"
  /\ LET idle == {s \in Searches : search[s] = "idle"} IN
     \/ idle = {} /\ Return
     \/ /\ idle # {} /\ gens' = idle /\ pc' = "emit"
        /\ UNCHANGED <<queue, driven, phase, tries, pass, flip>>
  /\ UNCHANGED <<rows, requests, bounds>>

EmitIdle ==
  /\ pc = "emit"
  /\ \E s \in gens :
       /\ First(s, gens)
       /\ events' = events \cup {<<"idle", s>>}
       /\ \/ gens = {s} /\ Return
          \/ /\ gens # {s} /\ gens' = gens \ {s}
             /\ UNCHANGED <<pc, queue, driven, phase, tries, pass, flip>>
  /\ UNCHANGED <<webset, search, unsettled, requests, bounds>>
-----------------------------------------------------------------------------
(* _fail reads the webset: it will settle the running searches as failed,  *)
(* or, when there are none, blame the latest one.                          *)
Fail ==
  /\ pc = "fail"
  /\ flip' = (webset = "running")
  /\ queue' = Running
  /\ \/ Running # {} /\ gens' = {}
     \/ Running = {} /\ \E s \in Stored : Last(s, Stored) /\ gens' = {s}
  /\ pc' = "failSettle"
  /\ UNCHANGED <<rows, driven, phase, tries, pass, requests, bounds>>

(* settle_search(failed) again reads, refuses a search cancelled meanwhile *)
(* (which ends _fail: the exception is only logged) and writes.            *)
FailSettle ==
  /\ pc = "failSettle"
  /\ \/ /\ queue = {} /\ pc' = "failEmit"
        /\ UNCHANGED <<queue, driven, phase, tries, pass, gens, flip>>
     \/ \E s \in queue :
          /\ First(s, queue)
          /\ \/ /\ search[s] = "running" /\ pc' = "failWrite"
                /\ UNCHANGED <<queue, driven, phase, tries, pass, gens, flip>>
             \/ search[s] # "running" /\ Return
  /\ UNCHANGED <<rows, requests, bounds>>

FailWrite ==
  /\ pc = "failWrite"
  /\ \E s \in queue :
       /\ First(s, queue)
       /\ search' = [search EXCEPT ![s] = "failed"]
       /\ queue' = queue \ {s} /\ gens' = gens \cup {s}
  /\ pc' = "failSettle"
  /\ UNCHANGED <<webset, unsettled, events, driven, phase, tries, pass, flip, requests, bounds>>

(* Mutant of EmitFailed: the failed generations are not announced. *)
EmitFailedNothing ==
  /\ pc = "failEmit"
  /\ gens' = {}
  /\ pc' = "failItems"
  /\ UNCHANGED <<rows, queue, driven, phase, tries, pass, flip, requests, bounds>>

EmitFailed ==
  /\ pc = "failEmit"
  /\ \E s \in gens :
       /\ First(s, gens)
       /\ events' = events \cup {<<"failed", s>>}
       /\ gens' = gens \ {s}
       /\ pc' = IF gens = {s} THEN "failItems" ELSE "failEmit"
  /\ UNCHANGED <<webset, search, unsettled, queue, driven, phase, tries, pass, flip,
                 requests, bounds>>

(* Mutant of FailItems: the webset's own status is forgotten. *)
FailItemsOnly ==
  /\ pc = "failItems"
  /\ unsettled' = FALSE
  /\ Return
  /\ UNCHANGED <<webset, search, events, requests, bounds>>

FailItems ==
  /\ pc = "failItems"
  /\ unsettled' = FALSE
  /\ \/ /\ flip /\ pc' = "failStatus"
        /\ UNCHANGED <<queue, driven, phase, tries, pass, gens, flip>>
     \/ ~flip /\ Return
  /\ UNCHANGED <<webset, search, events, requests, bounds>>

(* set_webset_status(failed): read and check, then write. *)
FailStatus ==
  /\ pc = "failStatus"
  /\ \/ /\ webset = "running" /\ pc' = "writeFailed"
        /\ UNCHANGED <<queue, driven, phase, tries, pass, gens, flip>>
     \/ webset # "running" /\ Return
  /\ UNCHANGED <<rows, requests, bounds>>

WriteFailed ==
  /\ pc = "writeFailed"
  /\ webset' = "failed"
  /\ Return
  /\ UNCHANGED <<search, unsettled, events, requests, bounds>>

(* A store call raises.  Loading: the guard logs it and the task ends.     *)
(* In the pass: on to _fail.  In _fail: it is logged and the task ends.    *)
PassSteps == {"variant", "passEnd", "settleItems", "reread", "settle", "writeSearch",
              "finalize", "newcomers", "setIdle", "reidle", "writeIdle", "blocked",
              "recheck", "announce", "emit"}
FailSteps == {"fail", "failSettle", "failWrite", "failEmit", "failItems", "failStatus",
              "writeFailed"}

StoreFault ==
  /\ faults < MaxFaults
  /\ faults' = faults + 1
  /\ \/ pc \in PassSteps /\ Raise
     \/ pc \in FailSteps \cup {"load"} /\ Return
  /\ UNCHANGED <<rows, requests, crashes>>
-----------------------------------------------------------------------------
Goto(c, l) == call' = [call EXCEPT ![c] = l]

(* add_search and trigger_monitor: refuse a cancelled or failed webset ... *)
AddSearch(c) ==
  /\ call[c] = "none"
  /\ webset \notin {"cancelled", "failed"}
  /\ Stored # Searches
  /\ Goto(c, "insert")
  /\ UNCHANGED <<rows, run, victims, bounds>>

(* ... insert the generation ... *)
InsertSearch(c) ==
  /\ call[c] = "insert"
  /\ \E s \in Searches :
       /\ First(s, Searches \ Stored)
       /\ search' = [search EXCEPT ![s] = "running"]
  /\ Goto(c, "schedule")
  /\ UNCHANGED <<webset, unsettled, events, run, victims, bounds>>

(* ... and schedule a run, unless the webset already has a live task. *)
ScheduleRun(c) ==
  /\ call[c] = "schedule"
  /\ Goto(c, "none")
  /\ pc' = IF pc = "off" THEN "load" ELSE pc
  /\ UNCHANGED <<rows, queue, driven, phase, tries, pass, gens, flip, victims, bounds>>

(* cancel_webset reads the status before its transaction. *)
CancelWebset(c) ==
  /\ call[c] = "none"
  /\ Goto(c, IF webset = "running" THEN "flip" ELSE "list")
  /\ UNCHANGED <<rows, run, victims, bounds>>

(* Mutant of CancelFlip: the running searches are not settled. *)
CancelFlipOnly(c) ==
  /\ call[c] = "flip"
  /\ webset' = "cancelled"
  /\ Goto(c, "none")
  /\ UNCHANGED <<search, unsettled, events, run, victims, bounds>>

(* A webset read as running is flipped, and its running searches settled,  *)
(* in one write transaction.                                               *)
CancelFlip(c) ==
  /\ call[c] = "flip"
  /\ webset' = "cancelled"
  /\ search' = [s \in Searches |-> IF s \in Running THEN "cancelled" ELSE search[s]]
  /\ Goto(c, "none")
  /\ UNCHANGED <<unsettled, events, run, victims, bounds>>

(* Without the flip the searches are listed before the first write, so     *)
(* outside any transaction, and the ones listed as running overwritten.    *)
CancelList(c) ==
  /\ call[c] = "list"
  /\ victims' = [victims EXCEPT ![c] = Running]
  /\ Goto(c, IF Running = {} THEN "none" ELSE "settle")
  /\ UNCHANGED <<rows, run, bounds>>

CancelSettle(c) ==
  /\ call[c] = "settle"
  /\ search' = [s \in Searches |-> IF s \in victims[c] THEN "cancelled" ELSE search[s]]
  /\ victims' = [victims EXCEPT ![c] = {}]
  /\ Goto(c, "none")
  /\ UNCHANGED <<webset, unsettled, events, run, bounds>>

(* Mutant of CrashAndResume: the resume looks at the searches only. *)
CrashAndResumeSearches ==
  /\ crashes < MaxCrashes
  /\ crashes' = crashes + 1
  /\ Fresh(IF Running # {} THEN "load" ELSE "off")
  /\ call' = [c \in Callers |-> "none"]
  /\ victims' = [c \in Callers |-> {}]
  /\ UNCHANGED <<rows, faults>>

(* The server dies and starts again: tasks and requests are gone, and the  *)
(* startup resume schedules the webset if list_incomplete_websets has it.  *)
CrashAndResume ==
  /\ crashes < MaxCrashes
  /\ crashes' = crashes + 1
  /\ Fresh(IF webset = "running" \/ Running # {} THEN "load" ELSE "off")
  /\ call' = [c \in Callers |-> "none"]
  /\ victims' = [c \in Callers |-> {}]
  /\ UNCHANGED <<rows, faults>>
-----------------------------------------------------------------------------
DriveStep ==
  \/ Load \/ PickSearch \/ SearchesDone \/ TryVariant \/ Recall \/ PassEnd
  \/ SettleItems \/ Reread \/ SettleSearch \/ WriteSearch

FinalizeStep ==
  \/ Finalize \/ DriveNewcomers \/ SetIdle \/ RereadIdle \/ WriteIdle
  \/ RetryIdle \/ Recheck \/ ListIdle \/ EmitIdle

FailStep ==
  \/ Fail \/ FailSettle \/ FailWrite \/ EmitFailed \/ FailItems
  \/ FailStatus \/ WriteFailed

RunStep == DriveStep \/ FinalizeStep \/ FailStep

(* A request that has begun: the rest of it. *)
RequestStep(c) ==
  \/ InsertSearch(c) \/ ScheduleRun(c)
  \/ CancelFlip(c) \/ CancelList(c) \/ CancelSettle(c)

Next ==
  \/ RunStep
  \/ StoreFault
  \/ \E c \in Callers : AddSearch(c) \/ CancelWebset(c) \/ RequestStep(c)
  \/ CrashAndResume

Spec == Init /\ [][Next]_vars

(* The event loop runs the task and requests that have begun are finished; *)
(* nobody is obliged to make one.                                          *)
FairSpec ==
  /\ Spec
  /\ WF_vars(RunStep)
  /\ \A c \in Callers : WF_vars(RequestStep(c))
-----------------------------------------------------------------------------
RunPoints == {"off", "load", "next", "recall"} \cup PassSteps \cup FailSteps
CallPoints == {"none", "insert", "schedule", "flip", "list", "settle"}

TypeOK ==
  /\ webset \in Terminal \cup {"running"}
  /\ search \in [Searches -> Terminal \cup {"running", "absent"}]
  /\ unsettled \in BOOLEAN
  /\ events \subseteq {"idle", "failed"} \X Searches
  /\ pc \in RunPoints
  /\ queue \subseteq Searches /\ driven \subseteq Searches /\ gens \subseteq Searches
  /\ phase \in {"first", "sticky", "retry"}
  /\ tries \in Nat /\ cur \in 0..MaxSearches /\ variant \in Nat
  /\ recalled \in BOOLEAN /\ flip \in BOOLEAN
  /\ call \in [Callers -> CallPoints]
  /\ victims \in [Callers -> SUBSET Searches]
  /\ crashes \in 0..MaxCrashes /\ faults \in 0..MaxFaults

(* A webset is never left running without a run task to bring it to an     *)
(* end, through cancels, refused flips, failed recalls and crashes; only a *)
(* store fault inside _fail or the load can do that (guard_webset_task:    *)
(* "the stored row keeps its status").                                     *)
RunningHasTask == webset = "running" /\ faults = 0 => pc # "off"

(* The status "failed" is never stored before some generation's            *)
(* webset.failed event is, wherever _fail is interrupted.                  *)
FailedWebsetIsAnnounced ==
  webset = "failed" => \E s \in Searches : <<"failed", s>> \in events

(* A webset.idle event tells the truth: the webset has left "running", and *)
(* the generation it names did settle (a late cancel may overwrite it).    *)
IdleEventIsTrue ==
  \A s \in Searches : <<"idle", s>> \in events =>
    webset # "running" /\ search[s] \in {"idle", "cancelled"}

(* store docstring: '"idle" can only be reached with the work actually     *)
(* settled'.  Check, re-read and write are three steps beside cancels and  *)
(* new searches; still no item and no search the run drove is unfinished   *)
(* when the flip is written.                                               *)
IdleIsEarned ==
  [][webset = "running" /\ webset' = "idle" =>
       ~unsettled /\ driven \cap Running = {}]_vars

(* Every webset comes to an end: idle, failed or cancelled.                *)
WebsetSettles == webset = "running" ~> webset # "running"

(* A search nobody adds another one to does end: driven, cancelled, or     *)
(* settled by the run that resumes after a crash.                          *)
LoneSearchSettles ==
  search[1] = "running" ~> search[1] \in Terminal \/ Stored # {1}

(* While the server stays up the flip to idle is announced, unless a late  *)
(* cancel overwrites the row, or a later generation of the same run        *)
(* fails: then _fail ends the run, even silently when that generation is   *)
(* cancelled under its hands and settle_search refuses to settle it.       *)
IdleIsAnnouncedUnlessCrashed ==
  \A s \in Searches :
    webset = "idle" /\ search[s] = "idle"
      ~> \/ <<"idle", s>> \in events
         \/ search[s] # "idle" \/ webset # "idle" \/ crashes > 0
         \/ \E t \in Searches : t > s /\ search[t] \in {"failed", "cancelled"}

(* While the server stays up a failed pass is announced, although the      *)
(* settle, the event and the status are separate writes beside cancels:    *)
(* unless _fail is cut short at a later generation that was cancelled      *)
(* between its read and its settle.                                        *)
FailureIsAnnouncedUnlessCrashed ==
  \A s \in Searches :
    search[s] = "failed"
      ~> \/ crashes > 0 \/ \E t \in Searches : <<"failed", t>> \in events
         \/ \E t \in Searches : t > s /\ search[t] = "cancelled"

=============================================================================
