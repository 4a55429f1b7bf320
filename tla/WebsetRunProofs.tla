-------------------------- MODULE WebsetRunProofs --------------------------
(***************************************************************************)
(* Proofs about WebsetRun, for any number of searches, variants, attempts, *)
(* request threads, crashes and store faults.                              *)
(*                                                                         *)
(* The inductive invariant IInv adds to the four invariants what the       *)
(* control points of the run task know about the rows: which checks still  *)
(* hold between a read and the write that relies on it.                    *)
(***************************************************************************)
EXTENDS WebsetRun, TLAPS

RowsOK ==
  /\ webset \in Terminal \cup {"running"}
  /\ search \in [Searches -> Terminal \cup {"running", "absent"}]
  /\ unsettled \in BOOLEAN
  /\ events \subseteq {"idle", "failed"} \X Searches

TaskOK ==
  /\ pc \in RunPoints
  /\ queue \subseteq Searches /\ driven \subseteq Searches /\ gens \subseteq Searches
  /\ phase \in {"first", "sticky", "retry"}
  /\ tries \in Nat /\ cur \in 0..MaxSearches /\ variant \in Nat
  /\ recalled \in BOOLEAN /\ flip \in BOOLEAN

RequestsOK ==
  /\ call \in [Callers -> CallPoints]
  /\ victims \in [Callers -> SUBSET Searches]
  /\ crashes \in 0..MaxCrashes /\ faults \in 0..MaxFaults

AtPass == {"variant", "recall", "passEnd", "settleItems", "reread", "settle", "writeSearch"}

(* The run task works on stored searches, and on one it has started. *)
Known ==
  /\ queue \subseteq Stored /\ driven \subseteq Stored
  /\ pc \in AtPass => cur \in driven

(* Who relies on the webset being, or no longer being, running: a cancel   *)
(* without a flip, the announcement of idle, and _fail, which while the    *)
(* webset is running still finds its searches running.                     *)
NotRunningAgain ==
  /\ \A c \in Callers : call[c] \in {"list", "settle"} => webset # "running"
  /\ \A c \in Callers : victims[c] # {} => call[c] = "settle"
  /\ pc \in {"announce", "emit"} => webset # "running"
  /\ pc \in FailSteps \ {"fail"} /\ webset = "running" => flip
  /\ pc \in {"failSettle", "failWrite"} /\ webset = "running" => queue \subseteq Running

(* What the emitters of terminal events may rely on. *)
Announcing ==
  /\ pc \in {"failItems", "failStatus", "writeFailed"}
       => \E s \in Searches : <<"failed", s>> \in events
  /\ pc = "emit" => \A s \in gens : search[s] \in {"idle", "cancelled"}
  /\ pc \in {"failSettle", "failWrite"} => \A s \in queue : <<"idle", s>> \notin events

(* Between the check of the settlement blockers and the write of "idle" a  *)
(* search may arrive, but nothing the run itself has done comes undone.    *)
Earned ==
  pc \in {"reidle", "writeIdle"} /\ webset = "running"
    => ~unsettled /\ driven \cap Running = {}

IInv ==
  /\ TypeOK /\ Known /\ NotRunningAgain /\ Announcing /\ Earned
  /\ RunningHasTask /\ FailedWebsetIsAnnounced /\ IdleEventIsTrue

-----------------------------------------------------------------------------
LEMMA TypeParts == TypeOK <=> RowsOK /\ TaskOK /\ RequestsOK
  BY DEF TypeOK, RowsOK, TaskOK, RequestsOK

(* Initially all of it holds. *)
LEMMA Initially == Init => IInv
<1> SUFFICES ASSUME Init PROVE IInv
  OBVIOUS
<1>1. 1 \in Searches
  BY BoundsAssumption DEF Searches
<1>2. RowsOK
  BY <1>1 DEF Init, RowsOK, Terminal
<1>3. TaskOK
  <2>1. cur \in 0..MaxSearches /\ variant \in Nat /\ tries \in Nat
    BY BoundsAssumption DEF Init
  <2>2. recalled \in BOOLEAN /\ flip \in BOOLEAN
    BY DEF Init
  <2>3. QED
    BY <2>1, <2>2 DEF Init, TaskOK, RunPoints
<1>4. RequestsOK
  BY BoundsAssumption DEF Init, RequestsOK, CallPoints
<1>5. Known /\ NotRunningAgain /\ Announcing /\ Earned
  BY DEF Init, Known, AtPass, NotRunningAgain, FailSteps, Announcing, Earned
<1>6. RunningHasTask /\ FailedWebsetIsAnnounced /\ IdleEventIsTrue
  BY DEF Init, RunningHasTask, FailedWebsetIsAnnounced, IdleEventIsTrue
<1>7. QED
  BY <1>2, <1>3, <1>4, <1>5, <1>6, TypeParts DEF IInv

(* The end of a run task, its way into _fail and a restart leave it typed. *)
LEMMA FreshTask == ASSUME NEW l \in RunPoints, Fresh(l) PROVE TaskOK'
<1>1. /\ pc' \in RunPoints
      /\ queue' \subseteq Searches /\ driven' \subseteq Searches /\ gens' \subseteq Searches
  BY DEF Fresh
<1>2. phase' \in {"first", "sticky", "retry"} /\ tries' \in Nat /\ variant' \in Nat
  BY DEF Fresh
<1>3. cur' \in 0..MaxSearches
  BY BoundsAssumption DEF Fresh
<1>4. recalled' \in BOOLEAN /\ flip' \in BOOLEAN
  BY DEF Fresh
<1>5. QED
  BY <1>1, <1>2, <1>3, <1>4 DEF TaskOK

LEMMA Ending == (Return => TaskOK') /\ (Raise => TaskOK')
  BY FreshTask DEF Return, Raise, RunPoints, FailSteps

(* Leaving _drive_search clears its locals. *)
LEMMA PassOver ==
  ASSUME NoPass PROVE cur' \in 0..MaxSearches /\ variant' \in Nat /\ recalled' \in BOOLEAN
<1>1. cur' \in 0..MaxSearches /\ variant' \in Nat
  BY BoundsAssumption DEF NoPass
<1>2. QED
  BY <1>1 DEF NoPass

(* The rows stay typed. *)
LEMMA RowsOKStep == IInv /\ [Next]_vars => RowsOK'
<1> SUFFICES ASSUME RowsOK, Known, TaskOK, [Next]_vars PROVE RowsOK'
  BY TypeParts DEF IInv
<1> USE DEF RowsOK, Known, TaskOK, rows, run, pass, requests, bounds, Running, Stored,
          PassSteps, FailSteps, NoPass, SkipFields, First, Goto, Fresh, Return, Raise,
          Searches, Terminal
<1>1. CASE Load
  BY <1>1 DEF Load
<1>2. CASE PickSearch
  BY <1>2 DEF PickSearch
<1>3. CASE SearchesDone
  BY <1>3 DEF SearchesDone
<1>4. CASE TryVariant
  BY <1>4 DEF TryVariant
<1>5. CASE Recall
  BY <1>5 DEF Recall
<1>6. CASE PassEnd
  BY <1>6 DEF PassEnd
<1>7. CASE SettleItems
  BY <1>7 DEF SettleItems
<1>8. CASE Reread
  BY <1>8 DEF Reread
<1>9. CASE SettleSearch
  BY <1>9 DEF SettleSearch
<1>10. CASE WriteSearch
  BY <1>10 DEF WriteSearch
<1>11. CASE Finalize
  BY <1>11 DEF Finalize
<1>12. CASE DriveNewcomers
  BY <1>12 DEF DriveNewcomers
<1>13. CASE SetIdle
  BY <1>13 DEF SetIdle
<1>14. CASE RereadIdle
  BY <1>14 DEF RereadIdle
<1>15. CASE WriteIdle
  BY <1>15 DEF WriteIdle
<1>16. CASE RetryIdle
  BY <1>16 DEF RetryIdle
<1>17. CASE Recheck
  BY <1>17 DEF Recheck
<1>18. CASE ListIdle
  BY <1>18 DEF ListIdle
<1>19. CASE EmitIdle
  BY <1>19 DEF EmitIdle
<1>20. CASE Fail
  BY <1>20 DEF Fail
<1>21. CASE FailSettle
  BY <1>21 DEF FailSettle
<1>22. CASE FailWrite
  BY <1>22 DEF FailWrite
<1>23. CASE EmitFailed
  BY <1>23 DEF EmitFailed
<1>24. CASE FailItems
  BY <1>24 DEF FailItems
<1>25. CASE FailStatus
  BY <1>25 DEF FailStatus
<1>26. CASE WriteFailed
  BY <1>26 DEF WriteFailed
<1>27. CASE StoreFault
  BY <1>27 DEF StoreFault
<1>28. CASE CrashAndResume
  BY <1>28 DEF CrashAndResume
<1>29. ASSUME NEW c \in Callers, AddSearch(c) PROVE RowsOK'
  BY <1>29 DEF AddSearch
<1>30. ASSUME NEW c \in Callers, InsertSearch(c) PROVE RowsOK'
  BY <1>30 DEF InsertSearch
<1>31. ASSUME NEW c \in Callers, ScheduleRun(c) PROVE RowsOK'
  BY <1>31 DEF ScheduleRun
<1>32. ASSUME NEW c \in Callers, CancelWebset(c) PROVE RowsOK'
  BY <1>32 DEF CancelWebset
<1>33. ASSUME NEW c \in Callers, CancelFlip(c) PROVE RowsOK'
  BY <1>33 DEF CancelFlip
<1>34. ASSUME NEW c \in Callers, CancelList(c) PROVE RowsOK'
  BY <1>34 DEF CancelList
<1>35. ASSUME NEW c \in Callers, CancelSettle(c) PROVE RowsOK'
  BY <1>35 DEF CancelSettle
<1>36. CASE UNCHANGED vars
  BY <1>36 DEF vars
<1>37. QED
    BY <1>1, <1>2, <1>3, <1>4, <1>5, <1>6, <1>7, <1>8, <1>9, <1>10, <1>11, <1>12, <1>13,
     <1>14, <1>15, <1>16, <1>17, <1>18, <1>19, <1>20, <1>21, <1>22, <1>23, <1>24, <1>25,
     <1>26, <1>27, <1>28, <1>29, <1>30, <1>31, <1>32, <1>33, <1>34, <1>35, <1>36 DEF
     Next, RunStep, DriveStep, FinalizeStep, FailStep, RequestStep

(* The run task stays typed. *)
LEMMA TaskOKStep == IInv /\ [Next]_vars => TaskOK'
<1> SUFFICES ASSUME TaskOK, RowsOK, [Next]_vars PROVE TaskOK'
  BY TypeParts DEF IInv
<1> USE BoundsAssumption, Ending
<1> USE DEF TaskOK, RowsOK, rows, pass, bounds, requests, Running, RunPoints,
          PassSteps, FailSteps, First, Searches, run
<1>1. CASE Load
  BY <1>1 DEF Load
<1>2. CASE PickSearch
  <2>1. CASE phase = "first" /\ webset = "cancelled"
    BY <1>2, <2>1 DEF PickSearch
  <2>2. CASE ~(phase = "first" /\ webset = "cancelled")
    <3>1. PICK s \in queue : cur' = s /\ queue' = queue \ {s} /\ driven' = driven \cup {s}
      BY <1>2, <2>2 DEF PickSearch
    <3>2. cur' \in 0..MaxSearches
      BY <3>1
    <3>3. variant' \in Nat /\ pc' \in RunPoints /\ UNCHANGED <<phase, tries, gens, flip>>
      BY <1>2, <2>2 DEF PickSearch
    <3>4. recalled' \in BOOLEAN
      BY <1>2, <2>2 DEF PickSearch
    <3>5. QED
      BY <3>1, <3>2, <3>3, <3>4
  <2>3. QED
    BY <2>1, <2>2
<1>3. CASE SearchesDone
  BY <1>3 DEF SearchesDone
<1>4. CASE TryVariant
  <2>1. CASE NoPass /\ pc' = "next" /\ UNCHANGED <<queue, driven, phase, tries, gens, flip>>
    <3>1. cur' \in 0..MaxSearches /\ variant' \in Nat /\ recalled' \in BOOLEAN
      BY <2>1, PassOver
    <3>2. QED
      BY <2>1, <3>1
  <2>3. CASE UNCHANGED <<pass, queue, driven, phase, tries, gens, flip>> /\ pc' \in RunPoints
    BY <2>3
  <2>4. QED
    BY <1>4, <2>1, <2>3 DEF TryVariant
<1>5. CASE Recall
  <2>1. recalled' \in BOOLEAN
    BY <1>5 DEF Recall
  <2>2. variant' \in Nat /\ pc' \in RunPoints
    BY <1>5 DEF Recall
  <2>3. QED
    BY <1>5, <2>1, <2>2 DEF Recall
<1>6. CASE PassEnd
  <2>1. CASE NoPass /\ pc' = "next" /\ UNCHANGED <<queue, driven, phase, tries, gens, flip>>
    <3>1. cur' \in 0..MaxSearches /\ variant' \in Nat /\ recalled' \in BOOLEAN
      BY <2>1, PassOver
    <3>2. QED
      BY <2>1, <3>1
  <2>2. CASE Raise
    BY <2>2
  <2>3. CASE UNCHANGED <<pass, queue, driven, phase, tries, gens, flip>> /\ pc' \in RunPoints
    BY <2>3
  <2>4. QED
    BY <1>6, <2>1, <2>2, <2>3 DEF PassEnd
<1>7. CASE SettleItems
  BY <1>7 DEF SettleItems
<1>8. CASE Reread
  <2>1. CASE NoPass /\ pc' = "next" /\ UNCHANGED <<queue, driven, phase, tries, gens, flip>>
    <3>1. cur' \in 0..MaxSearches /\ variant' \in Nat /\ recalled' \in BOOLEAN
      BY <2>1, PassOver
    <3>2. QED
      BY <2>1, <3>1
  <2>3. CASE UNCHANGED <<pass, queue, driven, phase, tries, gens, flip>> /\ pc' \in RunPoints
    BY <2>3
  <2>4. QED
    BY <1>8, <2>1, <2>3 DEF Reread
<1>9. CASE SettleSearch
  BY <1>9 DEF SettleSearch
<1>10. CASE WriteSearch
  BY <1>10, PassOver DEF WriteSearch
<1>11. CASE Finalize
  BY <1>11 DEF Finalize
<1>12. CASE DriveNewcomers
  BY <1>12 DEF DriveNewcomers
<1>13. CASE SetIdle
  BY <1>13 DEF SetIdle
<1>14. CASE RereadIdle
  BY <1>14 DEF RereadIdle
<1>15. CASE WriteIdle
  BY <1>15 DEF WriteIdle
<1>16. CASE RetryIdle
  <2>1. CASE Return
    BY <2>1
  <2>2. CASE pc' = "newcomers" /\ phase' = "retry" /\ tries' = tries + 1
             /\ UNCHANGED <<queue, driven, pass, gens, flip>>
    <3>1. tries' \in Nat
      BY <2>2
    <3>2. QED
      BY <2>2, <3>1
  <2>3. QED
    BY <1>16, <2>1, <2>2 DEF RetryIdle
<1>17. CASE Recheck
  BY <1>17 DEF Recheck
<1>18. CASE ListIdle
  BY <1>18 DEF ListIdle
<1>19. CASE EmitIdle
  BY <1>19 DEF EmitIdle
<1>20. CASE Fail
  <2>1. flip' \in BOOLEAN
    BY <1>20 DEF Fail
  <2>2. gens' \subseteq Searches
    <3>1. gens' = {} \/ \E s \in Stored : gens' = {s}
      BY <1>20 DEF Fail
    <3>2. Stored \subseteq Searches
      BY DEF Stored
    <3>3. QED
      BY <3>1, <3>2
  <2>3. pc' \in RunPoints /\ queue' \subseteq Searches
    BY <1>20 DEF Fail
  <2>4. UNCHANGED <<driven, phase, tries, pass>>
    BY <1>20 DEF Fail
  <2>5. QED
    BY <2>1, <2>2, <2>3, <2>4
<1>21. CASE FailSettle
  BY <1>21 DEF FailSettle
<1>22. CASE FailWrite
  BY <1>22 DEF FailWrite
<1>23. CASE EmitFailed
  BY <1>23 DEF EmitFailed
<1>24. CASE FailItems
  BY <1>24 DEF FailItems
<1>25. CASE FailStatus
  BY <1>25 DEF FailStatus
<1>26. CASE WriteFailed
  BY <1>26 DEF WriteFailed
<1>27. CASE StoreFault
  BY <1>27 DEF StoreFault
<1>28. CASE CrashAndResume
  <2>1. "load" \in RunPoints /\ "off" \in RunPoints
    OBVIOUS
  <2>2. QED
    BY <1>28, <2>1, FreshTask DEF CrashAndResume
<1>29. ASSUME NEW c \in Callers, AddSearch(c) PROVE TaskOK'
  BY <1>29 DEF AddSearch
<1>30. ASSUME NEW c \in Callers, InsertSearch(c) PROVE TaskOK'
  BY <1>30 DEF InsertSearch
<1>31. ASSUME NEW c \in Callers, ScheduleRun(c) PROVE TaskOK'
  BY <1>31 DEF ScheduleRun
<1>32. ASSUME NEW c \in Callers, CancelWebset(c) PROVE TaskOK'
  BY <1>32 DEF CancelWebset
<1>33. ASSUME NEW c \in Callers, CancelFlip(c) PROVE TaskOK'
  BY <1>33 DEF CancelFlip
<1>34. ASSUME NEW c \in Callers, CancelList(c) PROVE TaskOK'
  BY <1>34 DEF CancelList
<1>35. ASSUME NEW c \in Callers, CancelSettle(c) PROVE TaskOK'
  BY <1>35 DEF CancelSettle
<1>36. CASE UNCHANGED vars
  BY <1>36 DEF vars
<1>37. QED
    BY <1>1, <1>2, <1>3, <1>4, <1>5, <1>6, <1>7, <1>8, <1>9, <1>10, <1>11, <1>12, <1>13,
     <1>14, <1>15, <1>16, <1>17, <1>18, <1>19, <1>20, <1>21, <1>22, <1>23, <1>24, <1>25,
     <1>26, <1>27, <1>28, <1>29, <1>30, <1>31, <1>32, <1>33, <1>34, <1>35, <1>36 DEF
     Next, RunStep, DriveStep, FinalizeStep, FailStep, RequestStep

(* The requests stay typed. *)
LEMMA RequestsOKStep == IInv /\ [Next]_vars => RequestsOK'
<1> SUFFICES ASSUME RequestsOK, RowsOK, [Next]_vars PROVE RequestsOK'
  BY TypeParts DEF IInv
<1> USE BoundsAssumption
<1> USE DEF RequestsOK, RowsOK, bounds, requests, rows, run, Running, CallPoints, Goto
<1>1. CASE Load
  BY <1>1 DEF Load
<1>2. CASE PickSearch
  BY <1>2 DEF PickSearch
<1>3. CASE SearchesDone
  BY <1>3 DEF SearchesDone
<1>4. CASE TryVariant
  BY <1>4 DEF TryVariant
<1>5. CASE Recall
  BY <1>5 DEF Recall
<1>6. CASE PassEnd
  BY <1>6 DEF PassEnd
<1>7. CASE SettleItems
  BY <1>7 DEF SettleItems
<1>8. CASE Reread
  BY <1>8 DEF Reread
<1>9. CASE SettleSearch
  BY <1>9 DEF SettleSearch
<1>10. CASE WriteSearch
  BY <1>10 DEF WriteSearch
<1>11. CASE Finalize
  BY <1>11 DEF Finalize
<1>12. CASE DriveNewcomers
  BY <1>12 DEF DriveNewcomers
<1>13. CASE SetIdle
  BY <1>13 DEF SetIdle
<1>14. CASE RereadIdle
  BY <1>14 DEF RereadIdle
<1>15. CASE WriteIdle
  BY <1>15 DEF WriteIdle
<1>16. CASE RetryIdle
  BY <1>16 DEF RetryIdle
<1>17. CASE Recheck
  BY <1>17 DEF Recheck
<1>18. CASE ListIdle
  BY <1>18 DEF ListIdle
<1>19. CASE EmitIdle
  BY <1>19 DEF EmitIdle
<1>20. CASE Fail
  BY <1>20 DEF Fail
<1>21. CASE FailSettle
  BY <1>21 DEF FailSettle
<1>22. CASE FailWrite
  BY <1>22 DEF FailWrite
<1>23. CASE EmitFailed
  BY <1>23 DEF EmitFailed
<1>24. CASE FailItems
  BY <1>24 DEF FailItems
<1>25. CASE FailStatus
  BY <1>25 DEF FailStatus
<1>26. CASE WriteFailed
  BY <1>26 DEF WriteFailed
<1>27. CASE StoreFault
  BY <1>27 DEF StoreFault
<1>28. CASE CrashAndResume
  BY <1>28 DEF CrashAndResume
<1>29. ASSUME NEW c \in Callers, AddSearch(c) PROVE RequestsOK'
  BY <1>29 DEF AddSearch
<1>30. ASSUME NEW c \in Callers, InsertSearch(c) PROVE RequestsOK'
  BY <1>30 DEF InsertSearch
<1>31. ASSUME NEW c \in Callers, ScheduleRun(c) PROVE RequestsOK'
  BY <1>31 DEF ScheduleRun
<1>32. ASSUME NEW c \in Callers, CancelWebset(c) PROVE RequestsOK'
  BY <1>32 DEF CancelWebset
<1>33. ASSUME NEW c \in Callers, CancelFlip(c) PROVE RequestsOK'
  BY <1>33 DEF CancelFlip
<1>34. ASSUME NEW c \in Callers, CancelList(c) PROVE RequestsOK'
  BY <1>34 DEF CancelList
<1>35. ASSUME NEW c \in Callers, CancelSettle(c) PROVE RequestsOK'
  BY <1>35 DEF CancelSettle
<1>36. CASE UNCHANGED vars
  BY <1>36 DEF vars
<1>37. QED
    BY <1>1, <1>2, <1>3, <1>4, <1>5, <1>6, <1>7, <1>8, <1>9, <1>10, <1>11, <1>12, <1>13,
     <1>14, <1>15, <1>16, <1>17, <1>18, <1>19, <1>20, <1>21, <1>22, <1>23, <1>24, <1>25,
     <1>26, <1>27, <1>28, <1>29, <1>30, <1>31, <1>32, <1>33, <1>34, <1>35, <1>36 DEF
     Next, RunStep, DriveStep, FinalizeStep, FailStep, RequestStep

(* A stored search stays stored. *)
LEMMA KnownStep == IInv /\ [Next]_vars => Known'
<1> SUFFICES ASSUME Known, RowsOK, TaskOK, [Next]_vars PROVE Known'
  BY TypeParts DEF IInv
<1> USE DEF Known, RowsOK, TaskOK, rows, run, pass, requests, bounds, Running, Stored,
          PassSteps, FailSteps, NoPass, SkipFields, First, Goto, Fresh, Return, Raise,
          Searches, Terminal, AtPass
<1>1. CASE Load
  BY <1>1 DEF Load
<1>2. CASE PickSearch
  BY <1>2 DEF PickSearch
<1>3. CASE SearchesDone
  BY <1>3 DEF SearchesDone
<1>4. CASE TryVariant
  BY <1>4 DEF TryVariant
<1>5. CASE Recall
  BY <1>5 DEF Recall
<1>6. CASE PassEnd
  BY <1>6 DEF PassEnd
<1>7. CASE SettleItems
  BY <1>7 DEF SettleItems
<1>8. CASE Reread
  BY <1>8 DEF Reread
<1>9. CASE SettleSearch
  BY <1>9 DEF SettleSearch
<1>10. CASE WriteSearch
  BY <1>10 DEF WriteSearch
<1>11. CASE Finalize
  BY <1>11 DEF Finalize
<1>12. CASE DriveNewcomers
  BY <1>12 DEF DriveNewcomers
<1>13. CASE SetIdle
  BY <1>13 DEF SetIdle
<1>14. CASE RereadIdle
  BY <1>14 DEF RereadIdle
<1>15. CASE WriteIdle
  BY <1>15 DEF WriteIdle
<1>16. CASE RetryIdle
  BY <1>16 DEF RetryIdle
<1>17. CASE Recheck
  BY <1>17 DEF Recheck
<1>18. CASE ListIdle
  BY <1>18 DEF ListIdle
<1>19. CASE EmitIdle
  BY <1>19 DEF EmitIdle
<1>20. CASE Fail
  BY <1>20 DEF Fail
<1>21. CASE FailSettle
  BY <1>21 DEF FailSettle
<1>22. CASE FailWrite
  BY <1>22 DEF FailWrite
<1>23. CASE EmitFailed
  BY <1>23 DEF EmitFailed
<1>24. CASE FailItems
  BY <1>24 DEF FailItems
<1>25. CASE FailStatus
  BY <1>25 DEF FailStatus
<1>26. CASE WriteFailed
  BY <1>26 DEF WriteFailed
<1>27. CASE StoreFault
  BY <1>27 DEF StoreFault
<1>28. CASE CrashAndResume
  BY <1>28 DEF CrashAndResume
<1>29. ASSUME NEW c \in Callers, AddSearch(c) PROVE Known'
  BY <1>29 DEF AddSearch
<1>30. ASSUME NEW c \in Callers, InsertSearch(c) PROVE Known'
  BY <1>30 DEF InsertSearch
<1>31. ASSUME NEW c \in Callers, ScheduleRun(c) PROVE Known'
  BY <1>31 DEF ScheduleRun
<1>32. ASSUME NEW c \in Callers, CancelWebset(c) PROVE Known'
  BY <1>32 DEF CancelWebset
<1>33. ASSUME NEW c \in Callers, CancelFlip(c) PROVE Known'
  BY <1>33 DEF CancelFlip
<1>34. ASSUME NEW c \in Callers, CancelList(c) PROVE Known'
  BY <1>34 DEF CancelList
<1>35. ASSUME NEW c \in Callers, CancelSettle(c) PROVE Known'
  BY <1>35 DEF CancelSettle
<1>36. CASE UNCHANGED vars
  BY <1>36 DEF vars
<1>37. QED
    BY <1>1, <1>2, <1>3, <1>4, <1>5, <1>6, <1>7, <1>8, <1>9, <1>10, <1>11, <1>12, <1>13,
     <1>14, <1>15, <1>16, <1>17, <1>18, <1>19, <1>20, <1>21, <1>22, <1>23, <1>24, <1>25,
     <1>26, <1>27, <1>28, <1>29, <1>30, <1>31, <1>32, <1>33, <1>34, <1>35, <1>36 DEF
     Next, RunStep, DriveStep, FinalizeStep, FailStep, RequestStep

(* A webset that has left "running" does not come back to it. *)
LEMMA NotRunningAgainStep == IInv /\ [Next]_vars => NotRunningAgain'
<1> SUFFICES ASSUME NotRunningAgain, RowsOK, TaskOK, RequestsOK, [Next]_vars PROVE NotRunningAgain'
  BY TypeParts DEF IInv
<1> USE DEF NotRunningAgain, RowsOK, TaskOK, RequestsOK, rows, run, pass, requests,
          bounds, Running, Stored, PassSteps, FailSteps, NoPass, SkipFields, First,
          Goto, Fresh, Return, Raise, Searches, Terminal
<1>1. CASE Load
  BY <1>1 DEF Load
<1>2. CASE PickSearch
  BY <1>2 DEF PickSearch
<1>3. CASE SearchesDone
  BY <1>3 DEF SearchesDone
<1>4. CASE TryVariant
  BY <1>4 DEF TryVariant
<1>5. CASE Recall
  BY <1>5 DEF Recall
<1>6. CASE PassEnd
  BY <1>6 DEF PassEnd
<1>7. CASE SettleItems
  BY <1>7 DEF SettleItems
<1>8. CASE Reread
  BY <1>8 DEF Reread
<1>9. CASE SettleSearch
  BY <1>9 DEF SettleSearch
<1>10. CASE WriteSearch
  BY <1>10 DEF WriteSearch
<1>11. CASE Finalize
  BY <1>11 DEF Finalize
<1>12. CASE DriveNewcomers
  BY <1>12 DEF DriveNewcomers
<1>13. CASE SetIdle
  BY <1>13 DEF SetIdle
<1>14. CASE RereadIdle
  BY <1>14 DEF RereadIdle
<1>15. CASE WriteIdle
  BY <1>15 DEF WriteIdle
<1>16. CASE RetryIdle
  BY <1>16 DEF RetryIdle
<1>17. CASE Recheck
  BY <1>17 DEF Recheck
<1>18. CASE ListIdle
  BY <1>18 DEF ListIdle
<1>19. CASE EmitIdle
  BY <1>19 DEF EmitIdle
<1>20. CASE Fail
  BY <1>20 DEF Fail
<1>21. CASE FailSettle
  BY <1>21 DEF FailSettle
<1>22. CASE FailWrite
  BY <1>22 DEF FailWrite
<1>23. CASE EmitFailed
  BY <1>23 DEF EmitFailed
<1>24. CASE FailItems
  BY <1>24 DEF FailItems
<1>25. CASE FailStatus
  BY <1>25 DEF FailStatus
<1>26. CASE WriteFailed
  BY <1>26 DEF WriteFailed
<1>27. CASE StoreFault
  BY <1>27 DEF StoreFault
<1>28. CASE CrashAndResume
  BY <1>28 DEF CrashAndResume
<1>29. ASSUME NEW c \in Callers, AddSearch(c) PROVE NotRunningAgain'
  BY <1>29 DEF AddSearch
<1>30. ASSUME NEW c \in Callers, InsertSearch(c) PROVE NotRunningAgain'
  BY <1>30 DEF InsertSearch
<1>31. ASSUME NEW c \in Callers, ScheduleRun(c) PROVE NotRunningAgain'
  BY <1>31 DEF ScheduleRun
<1>32. ASSUME NEW c \in Callers, CancelWebset(c) PROVE NotRunningAgain'
  BY <1>32 DEF CancelWebset
<1>33. ASSUME NEW c \in Callers, CancelFlip(c) PROVE NotRunningAgain'
  BY <1>33 DEF CancelFlip
<1>34. ASSUME NEW c \in Callers, CancelList(c) PROVE NotRunningAgain'
  BY <1>34 DEF CancelList
<1>35. ASSUME NEW c \in Callers, CancelSettle(c) PROVE NotRunningAgain'
  BY <1>35 DEF CancelSettle
<1>36. CASE UNCHANGED vars
  BY <1>36 DEF vars
<1>37. QED
    BY <1>1, <1>2, <1>3, <1>4, <1>5, <1>6, <1>7, <1>8, <1>9, <1>10, <1>11, <1>12, <1>13,
     <1>14, <1>15, <1>16, <1>17, <1>18, <1>19, <1>20, <1>21, <1>22, <1>23, <1>24, <1>25,
     <1>26, <1>27, <1>28, <1>29, <1>30, <1>31, <1>32, <1>33, <1>34, <1>35, <1>36 DEF
     Next, RunStep, DriveStep, FinalizeStep, FailStep, RequestStep

(* The checks in front of an event still hold when it is appended. *)
LEMMA AnnouncingStep == IInv /\ [Next]_vars => Announcing'
<1> SUFFICES ASSUME Announcing, RowsOK, TaskOK, IdleEventIsTrue, Known, [Next]_vars PROVE Announcing'
  BY TypeParts DEF IInv
<1> USE DEF Announcing, RowsOK, TaskOK, IdleEventIsTrue, Known, rows, run, pass,
          requests, bounds, Running, Stored, PassSteps, FailSteps, NoPass, SkipFields,
          First, Goto, Fresh, Return, Raise, Searches, Terminal
<1>1. CASE Load
  BY <1>1 DEF Load
<1>2. CASE PickSearch
  BY <1>2 DEF PickSearch
<1>3. CASE SearchesDone
  BY <1>3 DEF SearchesDone
<1>4. CASE TryVariant
  BY <1>4 DEF TryVariant
<1>5. CASE Recall
  BY <1>5 DEF Recall
<1>6. CASE PassEnd
  BY <1>6 DEF PassEnd
<1>7. CASE SettleItems
  BY <1>7 DEF SettleItems
<1>8. CASE Reread
  BY <1>8 DEF Reread
<1>9. CASE SettleSearch
  BY <1>9 DEF SettleSearch
<1>10. CASE WriteSearch
  BY <1>10 DEF WriteSearch
<1>11. CASE Finalize
  BY <1>11 DEF Finalize
<1>12. CASE DriveNewcomers
  BY <1>12 DEF DriveNewcomers
<1>13. CASE SetIdle
  BY <1>13 DEF SetIdle
<1>14. CASE RereadIdle
  BY <1>14 DEF RereadIdle
<1>15. CASE WriteIdle
  BY <1>15 DEF WriteIdle
<1>16. CASE RetryIdle
  BY <1>16 DEF RetryIdle
<1>17. CASE Recheck
  BY <1>17 DEF Recheck
<1>18. CASE ListIdle
  BY <1>18 DEF ListIdle
<1>19. CASE EmitIdle
  BY <1>19 DEF EmitIdle
<1>20. CASE Fail
  BY <1>20 DEF Fail
<1>21. CASE FailSettle
  BY <1>21 DEF FailSettle
<1>22. CASE FailWrite
  BY <1>22 DEF FailWrite
<1>23. CASE EmitFailed
  BY <1>23 DEF EmitFailed
<1>24. CASE FailItems
  BY <1>24 DEF FailItems
<1>25. CASE FailStatus
  BY <1>25 DEF FailStatus
<1>26. CASE WriteFailed
  BY <1>26 DEF WriteFailed
<1>27. CASE StoreFault
  BY <1>27 DEF StoreFault
<1>28. CASE CrashAndResume
  BY <1>28 DEF CrashAndResume
<1>29. ASSUME NEW c \in Callers, AddSearch(c) PROVE Announcing'
  BY <1>29 DEF AddSearch
<1>30. ASSUME NEW c \in Callers, InsertSearch(c) PROVE Announcing'
  BY <1>30 DEF InsertSearch
<1>31. ASSUME NEW c \in Callers, ScheduleRun(c) PROVE Announcing'
  BY <1>31 DEF ScheduleRun
<1>32. ASSUME NEW c \in Callers, CancelWebset(c) PROVE Announcing'
  BY <1>32 DEF CancelWebset
<1>33. ASSUME NEW c \in Callers, CancelFlip(c) PROVE Announcing'
  BY <1>33 DEF CancelFlip
<1>34. ASSUME NEW c \in Callers, CancelList(c) PROVE Announcing'
  BY <1>34 DEF CancelList
<1>35. ASSUME NEW c \in Callers, CancelSettle(c) PROVE Announcing'
  BY <1>35 DEF CancelSettle
<1>36. CASE UNCHANGED vars
  BY <1>36 DEF vars
<1>37. QED
    BY <1>1, <1>2, <1>3, <1>4, <1>5, <1>6, <1>7, <1>8, <1>9, <1>10, <1>11, <1>12, <1>13,
     <1>14, <1>15, <1>16, <1>17, <1>18, <1>19, <1>20, <1>21, <1>22, <1>23, <1>24, <1>25,
     <1>26, <1>27, <1>28, <1>29, <1>30, <1>31, <1>32, <1>33, <1>34, <1>35, <1>36 DEF
     Next, RunStep, DriveStep, FinalizeStep, FailStep, RequestStep

(* Only the run itself could undo what the settlement check saw. *)
LEMMA EarnedStep == IInv /\ [Next]_vars => Earned'
<1> SUFFICES ASSUME Earned, RowsOK, TaskOK, Known, NotRunningAgain, [Next]_vars PROVE Earned'
  BY TypeParts DEF IInv
<1> USE DEF Earned, RowsOK, TaskOK, Known, NotRunningAgain, rows, run, pass, requests,
          bounds, Running, Stored, PassSteps, FailSteps, NoPass, SkipFields, First,
          Goto, Fresh, Return, Raise, Searches, Terminal, Blocked
<1>1. CASE Load
  BY <1>1 DEF Load
<1>2. CASE PickSearch
  BY <1>2 DEF PickSearch
<1>3. CASE SearchesDone
  BY <1>3 DEF SearchesDone
<1>4. CASE TryVariant
  BY <1>4 DEF TryVariant
<1>5. CASE Recall
  BY <1>5 DEF Recall
<1>6. CASE PassEnd
  BY <1>6 DEF PassEnd
<1>7. CASE SettleItems
  BY <1>7 DEF SettleItems
<1>8. CASE Reread
  BY <1>8 DEF Reread
<1>9. CASE SettleSearch
  BY <1>9 DEF SettleSearch
<1>10. CASE WriteSearch
  BY <1>10 DEF WriteSearch
<1>11. CASE Finalize
  BY <1>11 DEF Finalize
<1>12. CASE DriveNewcomers
  BY <1>12 DEF DriveNewcomers
<1>13. CASE SetIdle
  BY <1>13 DEF SetIdle
<1>14. CASE RereadIdle
  BY <1>14 DEF RereadIdle
<1>15. CASE WriteIdle
  BY <1>15 DEF WriteIdle
<1>16. CASE RetryIdle
  BY <1>16 DEF RetryIdle
<1>17. CASE Recheck
  BY <1>17 DEF Recheck
<1>18. CASE ListIdle
  BY <1>18 DEF ListIdle
<1>19. CASE EmitIdle
  BY <1>19 DEF EmitIdle
<1>20. CASE Fail
  BY <1>20 DEF Fail
<1>21. CASE FailSettle
  BY <1>21 DEF FailSettle
<1>22. CASE FailWrite
  BY <1>22 DEF FailWrite
<1>23. CASE EmitFailed
  BY <1>23 DEF EmitFailed
<1>24. CASE FailItems
  BY <1>24 DEF FailItems
<1>25. CASE FailStatus
  BY <1>25 DEF FailStatus
<1>26. CASE WriteFailed
  BY <1>26 DEF WriteFailed
<1>27. CASE StoreFault
  BY <1>27 DEF StoreFault
<1>28. CASE CrashAndResume
  BY <1>28 DEF CrashAndResume
<1>29. ASSUME NEW c \in Callers, AddSearch(c) PROVE Earned'
  BY <1>29 DEF AddSearch
<1>30. ASSUME NEW c \in Callers, InsertSearch(c) PROVE Earned'
  BY <1>30 DEF InsertSearch
<1>31. ASSUME NEW c \in Callers, ScheduleRun(c) PROVE Earned'
  BY <1>31 DEF ScheduleRun
<1>32. ASSUME NEW c \in Callers, CancelWebset(c) PROVE Earned'
  BY <1>32 DEF CancelWebset
<1>33. ASSUME NEW c \in Callers, CancelFlip(c) PROVE Earned'
  BY <1>33 DEF CancelFlip
<1>34. ASSUME NEW c \in Callers, CancelList(c) PROVE Earned'
  BY <1>34 DEF CancelList
<1>35. ASSUME NEW c \in Callers, CancelSettle(c) PROVE Earned'
  BY <1>35 DEF CancelSettle
<1>36. CASE UNCHANGED vars
  BY <1>36 DEF vars
<1>37. QED
    BY <1>1, <1>2, <1>3, <1>4, <1>5, <1>6, <1>7, <1>8, <1>9, <1>10, <1>11, <1>12, <1>13,
     <1>14, <1>15, <1>16, <1>17, <1>18, <1>19, <1>20, <1>21, <1>22, <1>23, <1>24, <1>25,
     <1>26, <1>27, <1>28, <1>29, <1>30, <1>31, <1>32, <1>33, <1>34, <1>35, <1>36 DEF
     Next, RunStep, DriveStep, FinalizeStep, FailStep, RequestStep

(* A task only ends on a webset that has ended, or by a store fault. *)
LEMMA RunningHasTaskStep == IInv /\ [Next]_vars => RunningHasTask'
<1> SUFFICES ASSUME RunningHasTask, NotRunningAgain, RequestsOK, [Next]_vars PROVE RunningHasTask'
  BY TypeParts DEF IInv
<1> USE DEF RunningHasTask, NotRunningAgain, RequestsOK, rows, run, pass, requests,
          bounds, Running, Stored, PassSteps, FailSteps, NoPass, SkipFields, First,
          Goto, Fresh, Return, Raise, Searches, Terminal
<1>1. CASE Load
  BY <1>1 DEF Load
<1>2. CASE PickSearch
  BY <1>2 DEF PickSearch
<1>3. CASE SearchesDone
  BY <1>3 DEF SearchesDone
<1>4. CASE TryVariant
  BY <1>4 DEF TryVariant
<1>5. CASE Recall
  BY <1>5 DEF Recall
<1>6. CASE PassEnd
  BY <1>6 DEF PassEnd
<1>7. CASE SettleItems
  BY <1>7 DEF SettleItems
<1>8. CASE Reread
  BY <1>8 DEF Reread
<1>9. CASE SettleSearch
  BY <1>9 DEF SettleSearch
<1>10. CASE WriteSearch
  BY <1>10 DEF WriteSearch
<1>11. CASE Finalize
  BY <1>11 DEF Finalize
<1>12. CASE DriveNewcomers
  BY <1>12 DEF DriveNewcomers
<1>13. CASE SetIdle
  BY <1>13 DEF SetIdle
<1>14. CASE RereadIdle
  BY <1>14 DEF RereadIdle
<1>15. CASE WriteIdle
  BY <1>15 DEF WriteIdle
<1>16. CASE RetryIdle
  BY <1>16 DEF RetryIdle
<1>17. CASE Recheck
  BY <1>17 DEF Recheck
<1>18. CASE ListIdle
  BY <1>18 DEF ListIdle
<1>19. CASE EmitIdle
  BY <1>19 DEF EmitIdle
<1>20. CASE Fail
  BY <1>20 DEF Fail
<1>21. CASE FailSettle
  BY <1>21 DEF FailSettle
<1>22. CASE FailWrite
  BY <1>22 DEF FailWrite
<1>23. CASE EmitFailed
  BY <1>23 DEF EmitFailed
<1>24. CASE FailItems
  BY <1>24 DEF FailItems
<1>25. CASE FailStatus
  BY <1>25 DEF FailStatus
<1>26. CASE WriteFailed
  BY <1>26 DEF WriteFailed
<1>27. CASE StoreFault
  BY <1>27 DEF StoreFault
<1>28. CASE CrashAndResume
  BY <1>28 DEF CrashAndResume
<1>29. ASSUME NEW c \in Callers, AddSearch(c) PROVE RunningHasTask'
  BY <1>29 DEF AddSearch
<1>30. ASSUME NEW c \in Callers, InsertSearch(c) PROVE RunningHasTask'
  BY <1>30 DEF InsertSearch
<1>31. ASSUME NEW c \in Callers, ScheduleRun(c) PROVE RunningHasTask'
  BY <1>31 DEF ScheduleRun
<1>32. ASSUME NEW c \in Callers, CancelWebset(c) PROVE RunningHasTask'
  BY <1>32 DEF CancelWebset
<1>33. ASSUME NEW c \in Callers, CancelFlip(c) PROVE RunningHasTask'
  BY <1>33 DEF CancelFlip
<1>34. ASSUME NEW c \in Callers, CancelList(c) PROVE RunningHasTask'
  BY <1>34 DEF CancelList
<1>35. ASSUME NEW c \in Callers, CancelSettle(c) PROVE RunningHasTask'
  BY <1>35 DEF CancelSettle
<1>36. CASE UNCHANGED vars
  BY <1>36 DEF vars
<1>37. QED
    BY <1>1, <1>2, <1>3, <1>4, <1>5, <1>6, <1>7, <1>8, <1>9, <1>10, <1>11, <1>12, <1>13,
     <1>14, <1>15, <1>16, <1>17, <1>18, <1>19, <1>20, <1>21, <1>22, <1>23, <1>24, <1>25,
     <1>26, <1>27, <1>28, <1>29, <1>30, <1>31, <1>32, <1>33, <1>34, <1>35, <1>36 DEF
     Next, RunStep, DriveStep, FinalizeStep, FailStep, RequestStep

(* The event is appended before the status is written. *)
LEMMA FailedWebsetIsAnnouncedStep == IInv /\ [Next]_vars => FailedWebsetIsAnnounced'
<1> SUFFICES ASSUME FailedWebsetIsAnnounced, Announcing, [Next]_vars PROVE FailedWebsetIsAnnounced'
  BY TypeParts DEF IInv
<1> USE DEF FailedWebsetIsAnnounced, Announcing, rows, run, pass, requests, bounds,
          Running, Stored, PassSteps, FailSteps, NoPass, SkipFields, First, Goto,
          Fresh, Return, Raise, Searches, Terminal
<1>1. CASE Load
  BY <1>1 DEF Load
<1>2. CASE PickSearch
  BY <1>2 DEF PickSearch
<1>3. CASE SearchesDone
  BY <1>3 DEF SearchesDone
<1>4. CASE TryVariant
  BY <1>4 DEF TryVariant
<1>5. CASE Recall
  BY <1>5 DEF Recall
<1>6. CASE PassEnd
  BY <1>6 DEF PassEnd
<1>7. CASE SettleItems
  BY <1>7 DEF SettleItems
<1>8. CASE Reread
  BY <1>8 DEF Reread
<1>9. CASE SettleSearch
  BY <1>9 DEF SettleSearch
<1>10. CASE WriteSearch
  BY <1>10 DEF WriteSearch
<1>11. CASE Finalize
  BY <1>11 DEF Finalize
<1>12. CASE DriveNewcomers
  BY <1>12 DEF DriveNewcomers
<1>13. CASE SetIdle
  BY <1>13 DEF SetIdle
<1>14. CASE RereadIdle
  BY <1>14 DEF RereadIdle
<1>15. CASE WriteIdle
  BY <1>15 DEF WriteIdle
<1>16. CASE RetryIdle
  BY <1>16 DEF RetryIdle
<1>17. CASE Recheck
  BY <1>17 DEF Recheck
<1>18. CASE ListIdle
  BY <1>18 DEF ListIdle
<1>19. CASE EmitIdle
  BY <1>19 DEF EmitIdle
<1>20. CASE Fail
  BY <1>20 DEF Fail
<1>21. CASE FailSettle
  BY <1>21 DEF FailSettle
<1>22. CASE FailWrite
  BY <1>22 DEF FailWrite
<1>23. CASE EmitFailed
  BY <1>23 DEF EmitFailed
<1>24. CASE FailItems
  BY <1>24 DEF FailItems
<1>25. CASE FailStatus
  BY <1>25 DEF FailStatus
<1>26. CASE WriteFailed
  BY <1>26 DEF WriteFailed
<1>27. CASE StoreFault
  BY <1>27 DEF StoreFault
<1>28. CASE CrashAndResume
  BY <1>28 DEF CrashAndResume
<1>29. ASSUME NEW c \in Callers, AddSearch(c) PROVE FailedWebsetIsAnnounced'
  BY <1>29 DEF AddSearch
<1>30. ASSUME NEW c \in Callers, InsertSearch(c) PROVE FailedWebsetIsAnnounced'
  BY <1>30 DEF InsertSearch
<1>31. ASSUME NEW c \in Callers, ScheduleRun(c) PROVE FailedWebsetIsAnnounced'
  BY <1>31 DEF ScheduleRun
<1>32. ASSUME NEW c \in Callers, CancelWebset(c) PROVE FailedWebsetIsAnnounced'
  BY <1>32 DEF CancelWebset
<1>33. ASSUME NEW c \in Callers, CancelFlip(c) PROVE FailedWebsetIsAnnounced'
  BY <1>33 DEF CancelFlip
<1>34. ASSUME NEW c \in Callers, CancelList(c) PROVE FailedWebsetIsAnnounced'
  BY <1>34 DEF CancelList
<1>35. ASSUME NEW c \in Callers, CancelSettle(c) PROVE FailedWebsetIsAnnounced'
  BY <1>35 DEF CancelSettle
<1>36. CASE UNCHANGED vars
  BY <1>36 DEF vars
<1>37. QED
    BY <1>1, <1>2, <1>3, <1>4, <1>5, <1>6, <1>7, <1>8, <1>9, <1>10, <1>11, <1>12, <1>13,
     <1>14, <1>15, <1>16, <1>17, <1>18, <1>19, <1>20, <1>21, <1>22, <1>23, <1>24, <1>25,
     <1>26, <1>27, <1>28, <1>29, <1>30, <1>31, <1>32, <1>33, <1>34, <1>35, <1>36 DEF
     Next, RunStep, DriveStep, FinalizeStep, FailStep, RequestStep

(* An announced search is only ever overwritten by a cancel. *)
LEMMA IdleEventIsTrueStep == IInv /\ [Next]_vars => IdleEventIsTrue'
<1> SUFFICES ASSUME IdleEventIsTrue, Announcing, NotRunningAgain, [Next]_vars PROVE IdleEventIsTrue'
  BY TypeParts DEF IInv
<1> USE DEF IdleEventIsTrue, Announcing, NotRunningAgain, rows, run, pass, requests,
          bounds, Running, Stored, PassSteps, FailSteps, NoPass, SkipFields, First,
          Goto, Fresh, Return, Raise, Searches, Terminal
<1>1. CASE Load
  BY <1>1 DEF Load
<1>2. CASE PickSearch
  BY <1>2 DEF PickSearch
<1>3. CASE SearchesDone
  BY <1>3 DEF SearchesDone
<1>4. CASE TryVariant
  BY <1>4 DEF TryVariant
<1>5. CASE Recall
  BY <1>5 DEF Recall
<1>6. CASE PassEnd
  BY <1>6 DEF PassEnd
<1>7. CASE SettleItems
  BY <1>7 DEF SettleItems
<1>8. CASE Reread
  BY <1>8 DEF Reread
<1>9. CASE SettleSearch
  BY <1>9 DEF SettleSearch
<1>10. CASE WriteSearch
  BY <1>10 DEF WriteSearch
<1>11. CASE Finalize
  BY <1>11 DEF Finalize
<1>12. CASE DriveNewcomers
  BY <1>12 DEF DriveNewcomers
<1>13. CASE SetIdle
  BY <1>13 DEF SetIdle
<1>14. CASE RereadIdle
  BY <1>14 DEF RereadIdle
<1>15. CASE WriteIdle
  BY <1>15 DEF WriteIdle
<1>16. CASE RetryIdle
  BY <1>16 DEF RetryIdle
<1>17. CASE Recheck
  BY <1>17 DEF Recheck
<1>18. CASE ListIdle
  BY <1>18 DEF ListIdle
<1>19. CASE EmitIdle
  BY <1>19 DEF EmitIdle
<1>20. CASE Fail
  BY <1>20 DEF Fail
<1>21. CASE FailSettle
  BY <1>21 DEF FailSettle
<1>22. CASE FailWrite
  BY <1>22 DEF FailWrite
<1>23. CASE EmitFailed
  BY <1>23 DEF EmitFailed
<1>24. CASE FailItems
  BY <1>24 DEF FailItems
<1>25. CASE FailStatus
  BY <1>25 DEF FailStatus
<1>26. CASE WriteFailed
  BY <1>26 DEF WriteFailed
<1>27. CASE StoreFault
  BY <1>27 DEF StoreFault
<1>28. CASE CrashAndResume
  BY <1>28 DEF CrashAndResume
<1>29. ASSUME NEW c \in Callers, AddSearch(c) PROVE IdleEventIsTrue'
  BY <1>29 DEF AddSearch
<1>30. ASSUME NEW c \in Callers, InsertSearch(c) PROVE IdleEventIsTrue'
  BY <1>30 DEF InsertSearch
<1>31. ASSUME NEW c \in Callers, ScheduleRun(c) PROVE IdleEventIsTrue'
  BY <1>31 DEF ScheduleRun
<1>32. ASSUME NEW c \in Callers, CancelWebset(c) PROVE IdleEventIsTrue'
  BY <1>32 DEF CancelWebset
<1>33. ASSUME NEW c \in Callers, CancelFlip(c) PROVE IdleEventIsTrue'
  BY <1>33 DEF CancelFlip
<1>34. ASSUME NEW c \in Callers, CancelList(c) PROVE IdleEventIsTrue'
  BY <1>34 DEF CancelList
<1>35. ASSUME NEW c \in Callers, CancelSettle(c) PROVE IdleEventIsTrue'
  BY <1>35 DEF CancelSettle
<1>36. CASE UNCHANGED vars
  BY <1>36 DEF vars
<1>37. QED
    BY <1>1, <1>2, <1>3, <1>4, <1>5, <1>6, <1>7, <1>8, <1>9, <1>10, <1>11, <1>12, <1>13,
     <1>14, <1>15, <1>16, <1>17, <1>18, <1>19, <1>20, <1>21, <1>22, <1>23, <1>24, <1>25,
     <1>26, <1>27, <1>28, <1>29, <1>30, <1>31, <1>32, <1>33, <1>34, <1>35, <1>36 DEF
     Next, RunStep, DriveStep, FinalizeStep, FailStep, RequestStep

-----------------------------------------------------------------------------
(* IInv is inductive. *)
LEMMA Inductive == IInv /\ [Next]_vars => IInv'
<1> SUFFICES ASSUME IInv /\ [Next]_vars PROVE IInv'
  OBVIOUS
<1>1. TypeOK'
  <2>1. RowsOK' /\ TaskOK' /\ RequestsOK'
    BY RowsOKStep, TaskOKStep, RequestsOKStep
  <2>2. QED
    BY <2>1 DEF TypeOK, RowsOK, TaskOK, RequestsOK
<1>2. Known' /\ NotRunningAgain' /\ Announcing' /\ Earned'
  BY KnownStep, NotRunningAgainStep, AnnouncingStep, EarnedStep
<1>3. RunningHasTask' /\ FailedWebsetIsAnnounced' /\ IdleEventIsTrue'
  BY RunningHasTaskStep, FailedWebsetIsAnnouncedStep, IdleEventIsTrueStep
<1>4. QED
  BY <1>1, <1>2, <1>3 DEF IInv

LEMMA Invariance == Spec => []IInv
  BY Initially, Inductive, PTL DEF Spec

(* The state of the run, the rows and the requests stays typed. *)
THEOREM TypeCorrect == Spec => []TypeOK
<1>1. IInv => TypeOK
  BY DEF IInv
<1>2. QED
  BY <1>1, Invariance, PTL

(* Without store faults a running webset always has a live run task.       *)
THEOREM LiveTask == Spec => []RunningHasTask
<1>1. IInv => RunningHasTask
  BY DEF IInv
<1>2. QED
  BY <1>1, Invariance, PTL

(* A webset is stored as failed only after a webset.failed event.          *)
THEOREM FailureIsAnnouncedFirst == Spec => []FailedWebsetIsAnnounced
<1>1. IInv => FailedWebsetIsAnnounced
  BY DEF IInv
<1>2. QED
  BY <1>1, Invariance, PTL

(* A webset.idle event names a generation that did settle, on a webset     *)
(* that has left "running".                                                *)
THEOREM IdleEventsAreTrue == Spec => []IdleEventIsTrue
<1>1. IInv => IdleEventIsTrue
  BY DEF IInv
<1>2. QED
  BY <1>1, Invariance, PTL

(* The flip to idle leaves nothing unsettled and no search of the run      *)
(* unfinished, although its check and its write are not one transaction.   *)
THEOREM IdleFlipIsEarned == Spec => IdleIsEarned
<1>1. ASSUME IInv, [Next]_vars
      PROVE  [webset = "running" /\ webset' = "idle"
                => ~unsettled /\ driven \cap Running = {}]_vars
  <2> SUFFICES ASSUME Next, webset = "running", webset' = "idle"
               PROVE  ~unsettled /\ driven \cap Running = {}
    BY <1>1 DEF vars
  <2>1. CASE WriteIdle
    BY <1>1, <2>1 DEF IInv, Earned, WriteIdle
  <2>2. CASE RunStep /\ ~WriteIdle
    BY <2>2 DEF RunStep, DriveStep, FinalizeStep, FailStep, rows, Load, PickSearch,
       SearchesDone, TryVariant, Recall, PassEnd, SettleItems, Reread, SettleSearch,
       WriteSearch, Finalize, DriveNewcomers, SetIdle, RereadIdle, RetryIdle, Recheck,
       ListIdle, EmitIdle, Fail, FailSettle, FailWrite, EmitFailed, FailItems,
       FailStatus, WriteFailed
  <2>3. CASE StoreFault \/ CrashAndResume
    BY <2>3 DEF StoreFault, CrashAndResume, rows
  <2>4. ASSUME NEW c \in Callers, AddSearch(c) \/ CancelWebset(c) \/ RequestStep(c)
        PROVE  FALSE
    BY <2>4 DEF RequestStep, AddSearch, CancelWebset, InsertSearch, ScheduleRun,
       CancelFlip, CancelList, CancelSettle, rows
  <2>5. QED
    BY <2>1, <2>2, <2>3, <2>4 DEF Next
<1>2. QED
  BY <1>1, Invariance, PTL DEF Spec, IdleIsEarned
=============================================================================
