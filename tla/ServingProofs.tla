--------------------------- MODULE ServingProofs ---------------------------
(***************************************************************************)
(* Proofs about what a digisearch server runs beside its requests.         *)
(*                                                                         *)
(* WebsetDriver, for any finite set of sessions and any sets of websets,   *)
(* requests and tasks.  The argument: the count is never below the number  *)
(* of sessions inside (a cancelled exit can leave it above), a supervisor  *)
(* is alive only as the current one or the one the lock's holder waits     *)
(* for, and tasks belong to a group that is alive.                         *)
(*                                                                         *)
(* MonitorWatch, for any pages, any number of turns and any length of the  *)
(* memory.  What a turn holds as known, from its dedup until its run is    *)
(* stored, was tried already or is on its way in another turn; so is,      *)
(* then, what the run it stores adds to the memory.                        *)
(***************************************************************************)
EXTENDS WebsetDriver, MonitorWatch, PlaceLemmas

-----------------------------------------------------------------------------
(***************************************************************************)
(* The driver window.                                                      *)
(***************************************************************************)
Inside == {s \in Sessions : session[s] \in {"in", "exiting"}}

CountInv == Cardinality(Inside) <= active

Entered(s) == session[s] \notin {"new", "queued"}

(* What the lock's holder does, and what there is when it is free. *)
LockInv ==
  /\ \A s \in Sessions : session[s] \in {"starting", "draining"} <=> lock = s
  /\ active > 0 => current # None
  /\ lock = None /\ active = 0 => current = None
  /\ current # None => Entered(current)
  /\ \A s \in Sessions :
       /\ session[s] = "starting" =>
            /\ active = 0 /\ current = s /\ awaited = s
            /\ order[s] = "run" \/ super[s] \in {"draining", "off"}
       /\ session[s] = "draining" =>
            active = 0 /\ current = None /\ awaited \in Sessions /\ Entered(awaited)

(* Who is alive, and what is behind the seam. *)
AliveInv ==
  /\ \A g \in Sessions :
       /\ super[g] # "off" => g = current \/ (lock # None /\ g = awaited)
       /\ ~Entered(g) => super[g] = "off" /\ order[g] = "run"
       /\ super[g] \in {"query", "resume", "serving"} <=> seam = g
  /\ active > 0 => super[current] = "serving" /\ order[current] = "run"

(* Tasks live in a group that is alive, and are cancelled with it. *)
TaskInv ==
  /\ \A k \in Live :
       /\ task[k].group \in Sessions
       /\ super[task[k].group] \notin {"off", "created"}
       /\ task[k].stage = "cancelled" => super[task[k].group] = "draining"
  /\ \A w \in Websets : entry[w] # None => entry[w] \in Live
  /\ \A c \in Callers : caller[c].at \in {"guard", "create"} =>
       /\ caller[c].group \in Sessions
       /\ Entered(caller[c].group) /\ super[caller[c].group] # "created"

DInv == DriverTypeOK /\ CountInv /\ LockInv /\ AliveInv /\ TaskInv

(* A session inside is counted; if it is all there is, no other is inside. *)
LEMMA InsideCounts ==
  ASSUME DInv, NEW s \in Inside
  PROVE  active >= 1 /\ Cardinality(Inside \ {s}) <= active - 1
<1>1. IsFiniteSet(Inside)
  BY FS_Subset, DriverAssumption DEF Inside
<1>2. Cardinality(Inside) \in Nat /\ Cardinality(Inside \ {s}) = Cardinality(Inside) - 1
  BY <1>1, FS_CardinalityType, FS_RemoveElement
<1>3. Cardinality(Inside \ {s}) \in Nat
  BY <1>1, FS_Subset, FS_CardinalityType
<1> QED
  BY <1>2, <1>3, SMT DEF DInv, DriverTypeOK, CountInv

LEMMA TypeStep == DInv /\ [DriverNext]_driver => DriverTypeOK'
<1> SUFFICES ASSUME DInv, [DriverNext]_driver PROVE DriverTypeOK'
  OBVIOUS
<1> USE DriverAssumption DEF DInv, DriverTypeOK, window, install, runs, At, Callers
<1>1. ASSUME NEW s \in Sessions, Arrive(s) PROVE DriverTypeOK'
  BY <1>1, SMT DEF Arrive, Free, Enter, NoWindow, Queue, Session
<1>2. ASSUME NEW s \in Sessions, Leave(s) PROVE DriverTypeOK'
  <2>1. active >= 1
    BY <1>2, InsideCounts DEF Leave, Inside
  <2> QED
    BY <1>2, <2>1, SMT DEF Leave, Free, Exit, Queue, Session
<1>3. ASSUME NEW s \in Sessions, Granted(s) PROVE DriverTypeOK'
  <2>1. CASE session[s] = "queued"
    <3>1. Enter(s) /\ UNCHANGED <<seam, found, runs, caller, missed>>
      BY <1>3, <2>1 DEF Granted
    <3> QED
      BY <3>1, SMT DEF Enter, NoWindow, Session
  <2>2. CASE session[s] = "exiting"
    <3>1. active >= 1
      BY <2>2, InsideCounts DEF Inside
    <3> QED
      <4>1. Exit(s) /\ UNCHANGED <<seam, found, runs, caller, missed>>
        BY <1>3, <2>2 DEF Granted
      <4> QED
        BY <3>1, <4>1, SMT DEF Exit, Session
  <2> QED
    BY <1>3, <2>1, <2>2 DEF Granted
<1>4. ASSUME NEW s \in Sessions, Started(s) PROVE DriverTypeOK'
  BY <1>4, SMT DEF Started, Session
<1>5. ASSUME NEW s \in Sessions, StartFails(s) PROVE DriverTypeOK'
  BY <1>5, SMT DEF StartFails, Session
<1>6. ASSUME NEW s \in Sessions, Drained(s) PROVE DriverTypeOK'
  BY <1>6, SMT DEF Drained, Session
<1>7. ASSUME NEW s \in Sessions, CancelEntry(s) PROVE DriverTypeOK'
  BY <1>7, SMTT(20) DEF CancelEntry, Session
<1>8. ASSUME NEW s \in Sessions, CancelExit(s) PROVE DriverTypeOK'
  BY <1>8, SMT DEF CancelExit, Session
<1>9. ASSUME NEW g \in Sessions, Install(g) PROVE DriverTypeOK'
  BY <1>9, SMT DEF Install, Supervisor
<1>10. ASSUME NEW g \in Sessions, Query(g) PROVE DriverTypeOK'
  BY <1>10, SMT DEF Query, Supervisor
<1>11. ASSUME NEW g \in Sessions, Resume(g) PROVE DriverTypeOK'
  <2>1. CASE found = {} \/ UNCHANGED <<task, entry>>
    BY <1>11, <2>1, SMT DEF Resume, Supervisor
  <2>2. CASE \E w \in found, k \in Slots : NewTask(k, w, g) /\ UNCHANGED super
    <3>1. PICK w \in found, k \in Slots : NewTask(k, w, g) /\ UNCHANGED super
      BY <2>2
    <3>2. task' \in [Slots -> [webset : Websets \cup {None}, group : Sessions \cup {None},
                              stage : {"free", "driving", "closing", "cancelled"}]]
      BY <3>1, SMT DEF NewTask
    <3> QED
      BY <1>11, <3>1, <3>2, SMT DEF Resume, NewTask
  <2> QED
    BY <1>11, <2>1, <2>2 DEF Resume
<1>12. ASSUME NEW g \in Sessions, Unwind(g) PROVE DriverTypeOK'
  BY <1>12, SMT DEF Unwind, TearDown, Supervisor, Cancelled
<1>13. ASSUME NEW g \in Sessions, QueryRaises(g) PROVE DriverTypeOK'
  BY <1>13, SMT DEF QueryRaises, TearDown, Supervisor, Cancelled
<1>14. ASSUME NEW g \in Sessions, Finish(g) PROVE DriverTypeOK'
  BY <1>14, SMT DEF Finish, Supervisor
<1>15. ASSUME NEW k \in Slots, Settle(k) PROVE DriverTypeOK'
  <2>1. row' \in [Websets -> BOOLEAN]
    BY <1>15, Zenon DEF Settle
  <2>2. task' \in [Slots -> [webset : Websets \cup {None}, group : Sessions \cup {None},
                            stage : {"free", "driving", "closing", "cancelled"}]]
    BY <1>15, SMT DEF Settle
  <2> QED
    BY <1>15, <2>1, <2>2, SMT DEF Settle
<1>16. ASSUME NEW k \in Slots, TaskEnds(k) PROVE DriverTypeOK'
  BY <1>16, SMT DEF TaskEnds, NoTask
<1>17. ASSUME NEW c \in Requests, NEW w \in Websets, BeginRequest(c, w) PROVE DriverTypeOK'
  BY <1>17, SMT DEF BeginRequest, Callers
<1>18. ASSUME NEW g \in Sessions, NEW w \in Websets, BeginTick(g, w) PROVE DriverTypeOK'
  BY <1>18, SMT DEF BeginTick, Callers
<1>19. ASSUME NEW c \in Callers, Insert(c) PROVE DriverTypeOK'
  <2>1. row' \in [Websets -> BOOLEAN]
    BY <1>19, Zenon DEF Insert
  <2>2. caller' \in [Callers -> [at : At, webset : Websets \cup {None},
                               group : Sessions \cup {None}, window : Sessions \cup {None}]]
    BY <1>19, SMT DEF Insert, Stand
  <2> QED
    BY <1>19, <2>1, <2>2 DEF Insert
<1>20. ASSUME NEW c \in Callers, ReadSeam(c) PROVE DriverTypeOK'
  BY <1>20, SMT DEF ReadSeam, Done, Idle
<1>21. ASSUME NEW c \in Callers, Guard(c) PROVE DriverTypeOK'
  BY <1>21, SMT DEF Guard, Done, Stand, Idle
<1>22. ASSUME NEW c \in Callers, Create(c) PROVE DriverTypeOK'
  BY <1>22, SMTT(20) DEF Create, Done, Idle, NewTask, NoTask
<1>23. CASE UNCHANGED driver
  BY <1>23, SMT DEF driver
<1> QED
  BY <1>1, <1>2, <1>3, <1>4, <1>5, <1>6, <1>7, <1>8, <1>9, <1>10, <1>11, <1>12, <1>13, <1>14, <1>15, <1>16, <1>17, <1>18, <1>19, <1>20, <1>21, <1>22, <1>23
     DEF DriverNext, SessionStep, SupervisorStep, TaskStep, CallerStep

LEMMA LockStep == DInv /\ [DriverNext]_driver => LockInv'
<1> SUFFICES ASSUME DInv, [DriverNext]_driver PROVE LockInv'
  OBVIOUS
<1> USE DriverAssumption DEF DInv, DriverTypeOK, LockInv, AliveInv, Entered, window, install, runs
<1>1. ASSUME NEW s \in Sessions, Arrive(s) PROVE LockInv'
  BY <1>1, SMT DEF Arrive, Free, Enter, NoWindow, Queue, Session
<1>2. ASSUME NEW s \in Sessions, Leave(s) PROVE LockInv'
  BY <1>2, SMT DEF Leave, Free, Exit, Queue, Session
<1>3. ASSUME NEW s \in Sessions, Granted(s) PROVE LockInv'
  BY <1>3, SMT DEF Granted, Enter, NoWindow, Exit, Session
<1>4. ASSUME NEW s \in Sessions, Started(s) PROVE LockInv'
  BY <1>4, SMT DEF Started, Session
<1>5. ASSUME NEW s \in Sessions, StartFails(s) PROVE LockInv'
  BY <1>5, SMT DEF StartFails, Session
<1>6. ASSUME NEW s \in Sessions, Drained(s) PROVE LockInv'
  BY <1>6, SMT DEF Drained, Session
<1>7. ASSUME NEW s \in Sessions, CancelEntry(s) PROVE LockInv'
  BY <1>7, SMT DEF CancelEntry, Session
<1>8. ASSUME NEW s \in Sessions, CancelExit(s) PROVE LockInv'
  BY <1>8, SMT DEF CancelExit, Session
<1>9. ASSUME NEW g \in Sessions, Install(g) PROVE LockInv'
  BY <1>9, SMT DEF Install, Supervisor
<1>10. ASSUME NEW g \in Sessions, Query(g) PROVE LockInv'
  BY <1>10, SMT DEF Query, Supervisor
<1>11. ASSUME NEW g \in Sessions, Resume(g) PROVE LockInv'
  BY <1>11, SMT DEF Resume, Supervisor, NewTask, NoTask
<1>12. ASSUME NEW g \in Sessions, Unwind(g) PROVE LockInv'
  BY <1>12, SMT DEF Unwind, TearDown, Supervisor, Cancelled
<1>13. ASSUME NEW g \in Sessions, QueryRaises(g) PROVE LockInv'
  BY <1>13, SMT DEF QueryRaises, TearDown, Supervisor, Cancelled
<1>14. ASSUME NEW g \in Sessions, Finish(g) PROVE LockInv'
  BY <1>14, SMT DEF Finish, Supervisor
<1>15. ASSUME NEW k \in Slots, Settle(k) PROVE LockInv'
  BY <1>15, SMT DEF Settle
<1>16. ASSUME NEW k \in Slots, TaskEnds(k) PROVE LockInv'
  BY <1>16, SMT DEF TaskEnds, NoTask
<1>17. ASSUME NEW c \in Requests, NEW w \in Websets, BeginRequest(c, w) PROVE LockInv'
  BY <1>17, SMT DEF BeginRequest, Idle, Callers
<1>18. ASSUME NEW g \in Sessions, NEW w \in Websets, BeginTick(g, w) PROVE LockInv'
  BY <1>18, SMT DEF BeginTick, Idle, Callers
<1>19. ASSUME NEW c \in Callers, Insert(c) PROVE LockInv'
  BY <1>19, SMT DEF Insert, Stand
<1>20. ASSUME NEW c \in Callers, ReadSeam(c) PROVE LockInv'
  BY <1>20, SMT DEF ReadSeam, Done, Idle
<1>21. ASSUME NEW c \in Callers, Guard(c) PROVE LockInv'
  BY <1>21, SMT DEF Guard, Done, Stand, Idle
<1>22. ASSUME NEW c \in Callers, Create(c) PROVE LockInv'
  BY <1>22, SMT DEF Create, Done, Idle, NewTask, NoTask
<1>23. CASE UNCHANGED driver
  BY <1>23, SMT DEF driver
<1> QED
  BY <1>1, <1>2, <1>3, <1>4, <1>5, <1>6, <1>7, <1>8, <1>9, <1>10, <1>11, <1>12, <1>13, <1>14, <1>15, <1>16, <1>17, <1>18, <1>19, <1>20, <1>21, <1>22, <1>23
     DEF DriverNext, SessionStep, SupervisorStep, TaskStep, CallerStep

LEMMA AliveStep == DInv /\ [DriverNext]_driver => AliveInv'
<1> SUFFICES ASSUME DInv, [DriverNext]_driver PROVE AliveInv'
  OBVIOUS
<1> USE DriverAssumption DEF DInv, DriverTypeOK, LockInv, AliveInv, Entered, window, install, runs
<1>1. ASSUME NEW s \in Sessions, Arrive(s) PROVE AliveInv'
  BY <1>1, SMT DEF Arrive, Free, Enter, NoWindow, Queue, Session
<1>2. ASSUME NEW s \in Sessions, Leave(s) PROVE AliveInv'
  BY <1>2, SMT DEF Leave, Free, Exit, Queue, Session
<1>3. ASSUME NEW s \in Sessions, Granted(s) PROVE AliveInv'
  BY <1>3, SMT DEF Granted, Enter, NoWindow, Exit, Session
<1>4. ASSUME NEW s \in Sessions, Started(s) PROVE AliveInv'
  BY <1>4, SMT DEF Started, Session
<1>5. ASSUME NEW s \in Sessions, StartFails(s) PROVE AliveInv'
  BY <1>5, SMT DEF StartFails, Session
<1>6. ASSUME NEW s \in Sessions, Drained(s) PROVE AliveInv'
  BY <1>6, SMT DEF Drained, Session
<1>7. ASSUME NEW s \in Sessions, CancelEntry(s) PROVE AliveInv'
  BY <1>7, SMT DEF CancelEntry, Session
<1>8. ASSUME NEW s \in Sessions, CancelExit(s) PROVE AliveInv'
  BY <1>8, SMT DEF CancelExit, Session
<1>9. ASSUME NEW g \in Sessions, Install(g) PROVE AliveInv'
  BY <1>9, SMT DEF Install, Supervisor
<1>10. ASSUME NEW g \in Sessions, Query(g) PROVE AliveInv'
  BY <1>10, SMT DEF Query, Supervisor
<1>11. ASSUME NEW g \in Sessions, Resume(g) PROVE AliveInv'
  BY <1>11, SMT DEF Resume, Supervisor, NewTask, NoTask
<1>12. ASSUME NEW g \in Sessions, Unwind(g) PROVE AliveInv'
  BY <1>12, SMT DEF Unwind, TearDown, Supervisor, Cancelled
<1>13. ASSUME NEW g \in Sessions, QueryRaises(g) PROVE AliveInv'
  BY <1>13, SMT DEF QueryRaises, TearDown, Supervisor, Cancelled
<1>14. ASSUME NEW g \in Sessions, Finish(g) PROVE AliveInv'
  BY <1>14, SMT DEF Finish, Supervisor
<1>15. ASSUME NEW k \in Slots, Settle(k) PROVE AliveInv'
  BY <1>15, SMT DEF Settle
<1>16. ASSUME NEW k \in Slots, TaskEnds(k) PROVE AliveInv'
  BY <1>16, SMT DEF TaskEnds, NoTask
<1>17. ASSUME NEW c \in Requests, NEW w \in Websets, BeginRequest(c, w) PROVE AliveInv'
  BY <1>17, SMT DEF BeginRequest, Idle, Callers
<1>18. ASSUME NEW g \in Sessions, NEW w \in Websets, BeginTick(g, w) PROVE AliveInv'
  BY <1>18, SMT DEF BeginTick, Idle, Callers
<1>19. ASSUME NEW c \in Callers, Insert(c) PROVE AliveInv'
  BY <1>19, SMT DEF Insert, Stand
<1>20. ASSUME NEW c \in Callers, ReadSeam(c) PROVE AliveInv'
  BY <1>20, SMT DEF ReadSeam, Done, Idle
<1>21. ASSUME NEW c \in Callers, Guard(c) PROVE AliveInv'
  BY <1>21, SMT DEF Guard, Done, Stand, Idle
<1>22. ASSUME NEW c \in Callers, Create(c) PROVE AliveInv'
  BY <1>22, SMT DEF Create, Done, Idle, NewTask, NoTask
<1>23. CASE UNCHANGED driver
  BY <1>23, SMT DEF driver
<1> QED
  BY <1>1, <1>2, <1>3, <1>4, <1>5, <1>6, <1>7, <1>8, <1>9, <1>10, <1>11, <1>12, <1>13, <1>14, <1>15, <1>16, <1>17, <1>18, <1>19, <1>20, <1>21, <1>22, <1>23
     DEF DriverNext, SessionStep, SupervisorStep, TaskStep, CallerStep

LEMMA TasksStep == DInv /\ [DriverNext]_driver => TaskInv'
<1> SUFFICES ASSUME DInv, [DriverNext]_driver PROVE TaskInv'
  OBVIOUS
<1> USE DriverAssumption DEF DInv, DriverTypeOK, LockInv, AliveInv, TaskInv, Entered, Live, NoTask, window, install, runs
<1>1. ASSUME NEW s \in Sessions, Arrive(s) PROVE TaskInv'
  BY <1>1, SMT DEF Arrive, Free, Enter, NoWindow, Queue, Session
<1>2. ASSUME NEW s \in Sessions, Leave(s) PROVE TaskInv'
  BY <1>2, SMT DEF Leave, Free, Exit, Queue, Session
<1>3. ASSUME NEW s \in Sessions, Granted(s) PROVE TaskInv'
  BY <1>3, SMT DEF Granted, Enter, NoWindow, Exit, Session
<1>4. ASSUME NEW s \in Sessions, Started(s) PROVE TaskInv'
  BY <1>4, SMT DEF Started, Session
<1>5. ASSUME NEW s \in Sessions, StartFails(s) PROVE TaskInv'
  BY <1>5, SMT DEF StartFails, Session
<1>6. ASSUME NEW s \in Sessions, Drained(s) PROVE TaskInv'
  BY <1>6, SMT DEF Drained, Session
<1>7. ASSUME NEW s \in Sessions, CancelEntry(s) PROVE TaskInv'
  BY <1>7, SMT DEF CancelEntry, Session
<1>8. ASSUME NEW s \in Sessions, CancelExit(s) PROVE TaskInv'
  BY <1>8, SMT DEF CancelExit, Session
<1>9. ASSUME NEW g \in Sessions, Install(g) PROVE TaskInv'
  BY <1>9, SMT DEF Install, Supervisor
<1>10. ASSUME NEW g \in Sessions, Query(g) PROVE TaskInv'
  BY <1>10, SMT DEF Query, Supervisor
<1>11. ASSUME NEW g \in Sessions, Resume(g) PROVE TaskInv'
  BY <1>11, SMT DEF Resume, Supervisor, NewTask, NoTask
<1>12. ASSUME NEW g \in Sessions, Unwind(g) PROVE TaskInv'
  BY <1>12, SMT DEF Unwind, TearDown, Supervisor, Cancelled
<1>13. ASSUME NEW g \in Sessions, QueryRaises(g) PROVE TaskInv'
  BY <1>13, SMT DEF QueryRaises, TearDown, Supervisor, Cancelled
<1>14. ASSUME NEW g \in Sessions, Finish(g) PROVE TaskInv'
  BY <1>14, SMT DEF Finish, Supervisor
<1>15. ASSUME NEW k \in Slots, Settle(k) PROVE TaskInv'
  BY <1>15, SMT DEF Settle
<1>16. ASSUME NEW k \in Slots, TaskEnds(k) PROVE TaskInv'
  BY <1>16, SMT DEF TaskEnds, NoTask
<1>17. ASSUME NEW c \in Requests, NEW w \in Websets, BeginRequest(c, w) PROVE TaskInv'
  BY <1>17, SMT DEF BeginRequest, Idle, Callers
<1>18. ASSUME NEW g \in Sessions, NEW w \in Websets, BeginTick(g, w) PROVE TaskInv'
  BY <1>18, SMT DEF BeginTick, Idle, Callers
<1>19. ASSUME NEW c \in Callers, Insert(c) PROVE TaskInv'
  BY <1>19, SMT DEF Insert, Stand
<1>20. ASSUME NEW c \in Callers, ReadSeam(c) PROVE TaskInv'
  BY <1>20, SMT DEF ReadSeam, Done, Idle
<1>21. ASSUME NEW c \in Callers, Guard(c) PROVE TaskInv'
  <2>1. \A d \in Callers : caller'[d].at \in {"guard", "create"} =>
          caller[d].at \in {"guard", "create"} /\ caller'[d].group = caller[d].group
    BY <1>21, SMT DEF Guard, Done, Stand, Idle
  <2> QED
    BY <1>21, <2>1, SMT DEF Guard
<1>22. ASSUME NEW c \in Callers, Create(c) PROVE TaskInv'
  BY <1>22, SMT DEF Create, Done, Idle, NewTask, NoTask
<1>23. CASE UNCHANGED driver
  BY <1>23, SMT DEF driver
<1> QED
  BY <1>1, <1>2, <1>3, <1>4, <1>5, <1>6, <1>7, <1>8, <1>9, <1>10, <1>11, <1>12, <1>13, <1>14, <1>15, <1>16, <1>17, <1>18, <1>19, <1>20, <1>21, <1>22, <1>23
     DEF DriverNext, SessionStep, SupervisorStep, TaskStep, CallerStep

LEMMA CountStep == DInv /\ [DriverNext]_driver => CountInv'
<1> SUFFICES ASSUME DInv, [DriverNext]_driver PROVE CountInv'
  OBVIOUS
<1> USE DEF DInv, CountInv, DriverTypeOK
<1>1. IsFiniteSet(Inside) /\ Cardinality(Inside) \in Nat
  BY FS_Subset, FS_CardinalityType, DriverAssumption DEF Inside
<1>2. ASSUME NEW s \in Sessions, Inside' = Inside \cup {s}, active' = active + 1
      PROVE  CountInv'
  <2>1. Cardinality(Inside \cup {s}) \in {Cardinality(Inside), Cardinality(Inside) + 1}
    BY <1>1, FS_AddElement
  <2> QED
    BY <1>1, <1>2, <2>1
<1>3. ASSUME NEW s \in Inside, Inside' = Inside \ {s}, active' = active - 1
      PROVE  CountInv'
  BY <1>3, InsideCounts
<1>4. ASSUME Inside' \subseteq Inside, active' = active
      PROVE  CountInv'
  <2>1. Cardinality(Inside') <= Cardinality(Inside) /\ Cardinality(Inside') \in Nat
    BY <1>1, <1>4, FS_Subset, FS_CardinalityType
  <2> QED
    BY <1>1, <1>4, <2>1, SMT
<1>5. ASSUME NEW s \in Sessions, session[s] \in {"new", "queued"}, Enter(s) PROVE CountInv'
  <2>1. CASE NoWindow
    BY <1>4, <1>5, <2>1, SMT DEF Enter, Session, Inside
  <2>2. CASE ~NoWindow
    <3>1. Inside' = Inside \cup {s}
      BY <1>5, <2>2, SMT DEF Enter, Session, Inside
    <3> QED
      BY <1>2, <1>5, <2>2, <3>1 DEF Enter
  <2> QED
    BY <2>1, <2>2
<1>6. ASSUME NEW s \in Inside, Exit(s) PROVE CountInv'
  <2>1. Inside' = Inside \ {s}
    BY <1>6, SMT DEF Exit, Session, Inside
  <2> QED
    BY <1>3, <1>6, <2>1 DEF Exit
<1>7. ASSUME NEW s \in Sessions, Arrive(s) PROVE CountInv'
  <2>1. CASE Enter(s)
    BY <1>5, <1>7, <2>1 DEF Arrive
  <2>2. CASE Queue(s, "queued")
    BY <1>4, <1>7, <2>2, SMT DEF Arrive, Queue, Session, Inside
  <2> QED
    BY <1>7, <2>1, <2>2 DEF Arrive
<1>8. ASSUME NEW s \in Sessions, Leave(s) PROVE CountInv'
  <2>1. CASE Exit(s)
    BY <1>6, <1>8, <2>1 DEF Leave, Inside
  <2>2. CASE Queue(s, "exiting")
    BY <1>4, <1>8, <2>2, SMT DEF Leave, Queue, Session, Inside
  <2> QED
    BY <1>8, <2>1, <2>2 DEF Leave
<1>9. ASSUME NEW s \in Sessions, Granted(s) PROVE CountInv'
  BY <1>5, <1>6, <1>9 DEF Granted, Inside
<1>10. ASSUME NEW s \in Sessions, Started(s) PROVE CountInv'
  <2>1. Inside' = Inside \cup {s}
    BY <1>10, SMT DEF Started, Session, Inside
  <2> QED
    BY <1>2, <1>10, <2>1 DEF Started
<1>11. ASSUME NEW s \in Sessions,
              StartFails(s) \/ Drained(s) \/ CancelEntry(s) \/ CancelExit(s)
       PROVE  CountInv'
  BY <1>4, <1>11, SMT DEF StartFails, Drained, CancelEntry, CancelExit, Session, Inside
<1>12. ASSUME UNCHANGED <<session, active>> PROVE CountInv'
  BY <1>4, <1>12 DEF Inside
<1>13. ASSUME NEW g \in Sessions, SupervisorStep(g) \/ QueryRaises(g) PROVE CountInv'
  BY <1>12, <1>13
     DEF SupervisorStep, Install, Query, Resume, Unwind, QueryRaises, Finish, window
<1>14. ASSUME NEW k \in Slots, TaskStep(k) PROVE CountInv'
  BY <1>12, <1>14 DEF TaskStep, Settle, TaskEnds, window
<1>15. ASSUME NEW c \in Callers, CallerStep(c) PROVE CountInv'
  BY <1>12, <1>15 DEF CallerStep, Insert, ReadSeam, Guard, Create, window
<1>16. ASSUME NEW w \in Websets,
              \/ \E c \in Requests : BeginRequest(c, w)
              \/ \E g \in Sessions : BeginTick(g, w)
       PROVE  CountInv'
  BY <1>12, <1>16 DEF BeginRequest, BeginTick, window
<1>17. CASE UNCHANGED driver
  BY <1>12, <1>17 DEF driver, window
<1> QED
  BY <1>7, <1>8, <1>9, <1>10, <1>11, <1>13, <1>14, <1>15, <1>16, <1>17 DEF DriverNext, SessionStep

LEMMA InitDInv == DriverInit => DInv
<1> SUFFICES ASSUME DriverInit PROVE DInv
  OBVIOUS
<1> USE DriverAssumption DEF DriverInit
<1>1. DriverTypeOK
  BY SMT DEF DriverTypeOK, Idle, NoTask, At
<1>2. CountInv
  <2>1. Inside = {}
    BY DEF Inside
  <2> QED
    BY <2>1, FS_EmptySet, SMT DEF CountInv
<1>3. LockInv /\ AliveInv /\ TaskInv
  BY SMT DEF LockInv, AliveInv, TaskInv, Entered, Live, Idle
<1> QED
  BY <1>1, <1>2, <1>3 DEF DInv

(* The count covers the sessions inside, a supervisor is alive only for    *)
(* them or under the lock, and tasks only under a supervisor.              *)
THEOREM WindowInvariant == DriverSpec => []DInv
<1>1. DInv /\ [DriverNext]_driver => DInv'
  BY TypeStep, CountStep, LockStep, AliveStep, TasksStep DEF DInv
<1> QED
  BY InitDInv, <1>1, PTL DEF DriverSpec

(* A session that is served has its driver, whoever enters, leaves or is   *)
(* cancelled beside it.                                                    *)
THEOREM ServedSessionsHaveDriver == DriverSpec => []SessionsHaveDriver
<1>1. DInv => SessionsHaveDriver
  <2> SUFFICES ASSUME DInv, NEW s \in In
               PROVE  /\ current # None /\ seam = current
                      /\ super[current] = "serving" /\ order[current] = "run"
                      /\ \A w \in Websets : entry[w] # None => task[entry[w]].stage # "cancelled"
    BY Zenon DEF SessionsHaveDriver
  <2> USE DriverAssumption DEF DInv, DriverTypeOK, LockInv, AliveInv, TaskInv, Live, In
  <2>1. active >= 1
    BY InsideCounts DEF Inside
  <2>2. /\ current \in Sessions /\ seam = current
        /\ super[current] = "serving" /\ order[current] = "run" /\ lock = None
    BY <2>1, SMT
  <2>3. \A g \in Sessions : super[g] # "off" => g = current
    BY <2>2, SMT
  <2> QED
    BY <2>2, <2>3, SMT
<1> QED
  BY WindowInvariant, <1>1, PTL

(* When the count is back at zero and the lock free, nothing is left: no   *)
(* seam, no supervisor and no run task.                                    *)
THEOREM LastReferenceCleansUp == DriverSpec => []ClosedWindowIsEmpty
<1>1. DInv => ClosedWindowIsEmpty
  <2> SUFFICES ASSUME DInv, active = 0, lock = None
               PROVE  seam = None /\ Live = {} /\ \A g \in Sessions : super[g] = "off"
    BY DEF ClosedWindowIsEmpty
  <2> USE DriverAssumption DEF DInv, DriverTypeOK, LockInv, AliveInv, TaskInv
  <2>1. \A g \in Sessions : super[g] = "off"
    BY SMT
  <2> QED
    BY <2>1, SMT
<1> QED
  BY WindowInvariant, <1>1, PTL
-----------------------------------------------------------------------------
(***************************************************************************)
(* The turns of a watch.                                                   *)
(***************************************************************************)
Versions == [Urls -> Nat]
Entries == [turn : Turns, stored : BOOLEAN, results : Versions]
Phases == {"idle", "recall", "dedup", "secret", "store", "storeOk", "deliver"}

MonitorTypeOK ==
  /\ web \in Versions
  /\ log \in Seq(Entries)
  /\ turn \in [Turns -> [at : Phases, found : Versions, new : SUBSET Urls]]

Settled(u, v) ==
  \/ <<u, v>> \in attempted \cup lost
  \/ \E t \in Turns : turn[t].at = "deliver" /\ <<u, v>> \in News(t)

(* What the turn found and does not hold new; a turn on its way to "store" *)
(* delivers nothing, as it found nothing new or lost its find.             *)
TurnIsSettled(t) ==
  /\ turn[t].at \in {"secret", "storeOk"} =>
       \A u \in Urls \ turn[t].new : turn[t].found[u] # 0 => Settled(u, turn[t].found[u])
  /\ turn[t].at = "store" =>
       \A u \in Urls : turn[t].found[u] # 0 => Settled(u, turn[t].found[u])

LogIsSettled ==
  \A i \in Positions : \A u \in Urls :
    log[i].results[u] # 0 => Settled(u, log[i].results[u])

MInv == MonitorTypeOK /\ (\A t \in Turns : TurnIsSettled(t)) /\ LogIsSettled
-----------------------------------------------------------------------------
(* The two ways a list of runs loses one: whatever is left was there.      *)
LEMMA ReachedEntries ==
  ASSUME NEW entries \in Seq(Entries)
  PROVE  /\ Reached(entries) \in Seq(Entries)
         /\ \A j \in 1..Len(Reached(entries)) : \E k \in 1..Len(entries) :
              Reached(entries)[j] = entries[k]
<1> DEFINE stored == {i \in DOMAIN entries : entries[i].stored}
<1>1. stored \in SUBSET (1..Len(entries)) /\ stored \in SUBSET Nat
  BY SMT
<1>2. CASE Cardinality(stored) > SeenRuns
  <2>1. stored # {}
    <3> HIDE DEF stored
    <3>1. Cardinality(stored) # 0
      BY <1>2, WatchAssumption, SMT
    <3> QED BY <3>1, FS_EmptySet, Zenon
  <2>2. Min(stored) \in 1..Len(entries)
    <3> HIDE DEF stored
    <3> QED BY <1>1, <2>1, MinExists, Zenon
  <2>3. Reached(entries) = RemoveAt(entries, Min(stored))
    BY <1>2 DEF Reached
  <2> HIDE DEF stored
  <2>4. /\ Reached(entries) \in Seq(Entries) /\ Len(Reached(entries)) = Len(entries) - 1
        /\ \A j \in 1..Len(entries) - 1 :
             Reached(entries)[j] = entries[IF j < Min(stored) THEN j ELSE j + 1]
    <3> DEFINE n == Min(stored)
    <3>1. n \in 1..Len(entries) /\ Reached(entries) = RemoveAt(entries, n)
      BY <2>2, <2>3
    <3> HIDE DEF n
    <3>2. /\ Reached(entries) \in Seq(Entries) /\ Len(Reached(entries)) = Len(entries) - 1
          /\ \A j \in 1..Len(entries) - 1 : Reached(entries)[j] = entries[IF j < n THEN j ELSE j + 1]
      BY <3>1, RemoveAtEntries
    <3> QED BY <3>2 DEF n
  <2> QED
    BY <2>2, <2>4, SMT
<1>3. CASE ~(Cardinality(stored) > SeenRuns)
  <2>1. Reached(entries) = entries
    BY <1>3 DEF Reached
  <2> QED BY <2>1, SMT
<1> QED
  BY <1>2, <1>3

LEMMA StoredEntries ==
  ASSUME log \in Seq(Entries), NEW t \in Turns, NEW find \in Versions
  PROVE  /\ Stored(t, find) \in Seq(Entries)
         /\ \A j \in 1..Len(Stored(t, find)) :
              \/ Stored(t, find)[j].results = find
              \/ \E k \in Positions : Stored(t, find)[j].results = log[k].results
<1> DEFINE entries == [i \in Positions |->
                      IF i \in Own(t) THEN [turn |-> t, stored |-> TRUE, results |-> find]
                                       ELSE log[i]]
<1>1. Len(log) \in Nat /\ \A i \in Positions : log[i] \in Entries
  BY SMT DEF Positions
<1>2. ASSUME NEW i \in Positions
      PROVE  entries[i] \in Entries /\ entries[i].results \in {find, log[i].results}
  <2>1. CASE i \in Own(t)
    BY <2>1, SMT DEF Entries
  <2>2. CASE i \notin Own(t)
    BY <1>1, <2>2, SMT
  <2> QED BY <2>1, <2>2
<1>3. entries \in Seq(Entries) /\ Len(entries) = Len(log)
  <2>1. \A i \in 1..Len(log) : entries[i] \in Entries
    BY <1>2 DEF Positions
  <2>2. entries = [i \in 1..Len(log) |-> entries[i]]
    BY DEF Positions
  <2> HIDE DEF entries
  <2> QED BY <1>1, <2>1, <2>2, SMT
<1>4. Stored(t, find) = Reached(entries)
  BY DEF Stored
<1> HIDE DEF entries
<1>5. /\ Reached(entries) \in Seq(Entries)
      /\ \A j \in 1..Len(Reached(entries)) : \E k \in 1..Len(entries) : Reached(entries)[j] = entries[k]
  BY <1>3, ReachedEntries
<1>6. ASSUME NEW j \in 1..Len(Reached(entries))
      PROVE  \/ Reached(entries)[j].results = find
             \/ \E k \in Positions : Reached(entries)[j].results = log[k].results
  <2>1. PICK k \in Positions : Reached(entries)[j] = entries[k]
    BY <1>3, <1>5 DEF Positions
  <2> QED BY <1>2, <2>1
<1> QED
  BY <1>4, <1>5, <1>6

LEMMA DiedEntries ==
  ASSUME log \in Seq(Entries), NEW t \in Turns, Die(t)
  PROVE  /\ log' \in Seq(Entries)
         /\ \A j \in 1..Len(log') : \E k \in Positions : log'[j] = log[k]
<1>1. CASE Own(t) = {}
  BY <1>1, SMT DEF Die, Positions
<1>2. CASE Own(t) # {}
  <2> DEFINE n == Min(Own(t))
  <2>1. Own(t) \in SUBSET (1..Len(log)) /\ Own(t) \in SUBSET Nat
    BY SMT DEF Own, Positions
  <2>2. n \in 1..Len(log)
    BY <1>2, <2>1, MinExists, Zenon
  <2>3. log' = RemoveAt(log, n)
    BY <1>2 DEF Die
  <2> HIDE DEF n
  <2>4. /\ log' \in Seq(Entries) /\ Len(log') = Len(log) - 1
        /\ \A j \in 1..Len(log) - 1 : log'[j] = log[IF j < n THEN j ELSE j + 1]
    BY <2>2, <2>3, RemoveAtEntries
  <2> QED
    BY <2>2, <2>4, SMT DEF Positions
<1> QED
  BY <1>1, <1>2

LEMMA InitMInv == MonitorInit => MInv
<1> SUFFICES ASSUME MonitorInit PROVE MInv
  OBVIOUS
<1>1. Nothing \in Versions
  BY SMT DEF Nothing, Versions
<1>2. MonitorTypeOK
  BY <1>1, SMT DEF MonitorInit, MonitorTypeOK, Resting, Phases
<1>3. \A t \in Turns : TurnIsSettled(t)
  BY SMT DEF MonitorInit, TurnIsSettled, Resting
<1>4. LogIsSettled
  BY SMT DEF MonitorInit, LogIsSettled, Positions
<1> QED
  BY <1>2, <1>3, <1>4 DEF MInv

(* What is settled stays so: a turn leaves its delivery by trying it, or   *)
(* by dying, which the history records.                                    *)
LEMMA SettledStays ==
  ASSUME MonitorTypeOK, [MonitorNext]_watch, NEW u, NEW v, Settled(u, v)
  PROVE  Settled(u, v)'
<1> USE DEF MonitorTypeOK
<1>1. ASSUME NEW t \in Turns, Start(t) \/ Recall(t) \/ RecallFails(t) \/ Dedup(t)
                                \/ CheckSecret(t) \/ Store(t)
      PROVE  Settled(u, v)'
  <2>1. /\ attempted' = attempted /\ lost' = lost
        /\ \A s \in Turns : turn[s].at = "deliver" =>
             turn'[s].at = "deliver" /\ turn'[s].found = turn[s].found /\ turn'[s].new = turn[s].new
    BY <1>1, SMT DEF Start, Recall, RecallFails, Dedup, CheckSecret, Store
  <2> QED
    BY <2>1, SMT DEF Settled, News
<1>2. ASSUME NEW t \in Turns, Deliver(t) \/ Die(t)
      PROVE  Settled(u, v)'
  <2>1. /\ attempted \cup lost \subseteq attempted' \cup lost'
        /\ turn[t].at = "deliver" => News(t) \subseteq attempted' \cup lost'
        /\ \A s \in Turns \ {t} : turn'[s] = turn[s]
    BY <1>2, SMT DEF Deliver, Die
  <2> QED
    BY <2>1, SMT DEF Settled, News
<1>3. ASSUME UNCHANGED <<turn, attempted, lost>> PROVE Settled(u, v)'
  BY <1>3, SMT DEF Settled, News
<1>4. CASE MonitorNext
  BY <1>1, <1>2, <1>3, <1>4 DEF MonitorNext, TurnStep, Publish, SetSecret
<1> QED
  BY <1>3, <1>4 DEF watch

LEMMA WatchTypeStep == MonitorTypeOK /\ [MonitorNext]_watch => MonitorTypeOK'
<1> SUFFICES ASSUME MonitorTypeOK, [MonitorNext]_watch PROVE MonitorTypeOK'
  OBVIOUS
<1> USE DEF MonitorTypeOK
<1>1. Nothing \in Versions
  BY SMT DEF Nothing, Versions
<1>2. ASSUME NEW t \in Turns, Start(t) PROVE MonitorTypeOK'
  <2>1. Place(t) \in Entries
    BY <1>1, SMT DEF Place, Entries
  <2>2. log' \in Seq(Entries)
    BY <1>2, <2>1, SMT DEF Start
  <2>3. turn' \in [Turns -> [at : Phases, found : Versions, new : SUBSET Urls]]
    BY <1>2, SMT DEF Start, Phases
  <2> QED BY <1>2, <2>2, <2>3 DEF Start
<1>3. ASSUME NEW t \in Turns, Recall(t) PROVE MonitorTypeOK'
  <2>1. PICK returned \in SUBSET Urls :
          LET given == [u \in Urls |-> IF u \in returned THEN web[u] ELSE 0]
          IN  turn' = [turn EXCEPT ![t] = [at |-> "dedup", found |-> given, new |-> {}]]
    BY <1>3 DEF Recall
  <2>2. [u \in Urls |-> IF u \in returned THEN web[u] ELSE 0] \in Versions
    BY SMT DEF Versions
  <2> QED BY <1>3, <2>1, <2>2, SMT DEF Recall, Phases
<1>4. ASSUME NEW t \in Turns, RecallFails(t) PROVE MonitorTypeOK'
  BY <1>1, <1>4, StoredEntries, SMT DEF RecallFails, Resting, Phases
<1>5. ASSUME NEW t \in Turns, Dedup(t) PROVE MonitorTypeOK'
  BY <1>5, SMT DEF Dedup, Phases
<1>6. ASSUME NEW t \in Turns, CheckSecret(t) PROVE MonitorTypeOK'
  BY <1>1, <1>6, SMT DEF CheckSecret, Phases
<1>7. ASSUME NEW t \in Turns, Store(t) PROVE MonitorTypeOK'
  <2>1. log' \in Seq(Entries)
    BY <1>7, StoredEntries, SMT DEF Store
  <2> QED BY <1>1, <1>7, <2>1, SMT DEF Store, Resting, Phases
<1>8. ASSUME NEW t \in Turns, Deliver(t) PROVE MonitorTypeOK'
  BY <1>1, <1>8, SMT DEF Deliver, Resting, Phases
<1>9. ASSUME NEW t \in Turns, Die(t) PROVE MonitorTypeOK'
  <2>1. log' \in Seq(Entries)
    BY <1>9, DiedEntries
  <2> QED BY <1>1, <1>9, <2>1, SMT DEF Die, Resting, Phases
<1>10. ASSUME NEW u \in Urls, Publish(u) PROVE MonitorTypeOK'
  BY <1>10, SMT DEF Publish, Versions
<1>11. CASE SetSecret
  BY <1>11 DEF SetSecret
<1>12. CASE UNCHANGED watch
  BY <1>12 DEF watch
<1> QED
  BY <1>2, <1>3, <1>4, <1>5, <1>6, <1>7, <1>8, <1>9, <1>10, <1>11, <1>12
     DEF MonitorNext, TurnStep

(* What the memory answers is the result of some run in the log.           *)
LEMMA SeenIsSettled ==
  ASSUME MonitorTypeOK, LogIsSettled, NEW u \in Urls, Seen(u) # 0
  PROVE  Settled(u, Seen(u))
<1> DEFINE with == {i \in Positions : log[i].results[u] # 0}
<1>1. with # {} /\ Seen(u) = log[Max(with)].results[u]
  BY DEF Seen
<1>2. Len(log) \in Nat /\ with \in SUBSET (1..Len(log))
  BY DEF MonitorTypeOK, Positions
<1>3. Max(with) \in with
  <2> HIDE DEF with
  <2> QED BY <1>1, <1>2, MaxExists, Zenon
<1> QED
  BY <1>1, <1>3 DEF LogIsSettled

LEMMA TurnsStep ==
  ASSUME MInv, [MonitorNext]_watch, NEW t \in Turns
  PROVE  TurnIsSettled(t)'
<1> USE DEF MInv
<1>1. \A u, v : Settled(u, v) => Settled(u, v)'
  BY SettledStays
<1>2. ASSUME turn'[t] = turn[t] PROVE TurnIsSettled(t)'
  BY <1>1, <1>2, SMT DEF TurnIsSettled
<1>3. ASSUME turn'[t].at \notin {"secret", "storeOk", "store"} PROVE TurnIsSettled(t)'
  BY <1>3, SMT DEF TurnIsSettled
<1>4. ASSUME NEW s \in Turns, Start(s) \/ Recall(s) \/ RecallFails(s) \/ Deliver(s) \/ Die(s)
      PROVE  TurnIsSettled(t)'
  <2>1. turn'[t] = turn[t] \/ turn'[t].at \in {"idle", "recall", "dedup"}
    BY <1>4, SMT DEF Start, Recall, RecallFails, Deliver, Die, Resting, MonitorTypeOK
  <2> QED BY <1>2, <1>3, <2>1
<1>5. ASSUME NEW s \in Turns, Store(s) PROVE TurnIsSettled(t)'
  <2>1. turn'[t] = turn[t] \/ turn'[t].at \in {"idle", "deliver"}
    BY <1>5, SMT DEF Store, Resting, MonitorTypeOK
  <2> QED BY <1>2, <1>3, <2>1
<1>6. ASSUME NEW s \in Turns, CheckSecret(s) PROVE TurnIsSettled(t)'
  <2>1. CASE s # t
    <3>1. turn'[t] = turn[t]
      BY <1>6, <2>1, SMT DEF CheckSecret, MonitorTypeOK
    <3> QED BY <1>2, <3>1
  <2>2. CASE s = t /\ secret
    BY <1>1, <1>6, <2>2, SMT DEF CheckSecret, TurnIsSettled, MonitorTypeOK
  <2>3. CASE s = t /\ ~secret
    BY <1>6, <2>3, SMT DEF CheckSecret, TurnIsSettled, MonitorTypeOK, Nothing
  <2> QED BY <2>1, <2>2, <2>3
<1>7. ASSUME NEW s \in Turns, Dedup(s) PROVE TurnIsSettled(t)'
  <2>1. CASE s # t
    <3>1. turn'[t] = turn[t]
      BY <1>7, <2>1, SMT DEF Dedup, MonitorTypeOK
    <3> QED BY <1>2, <3>1
  <2>2. CASE s = t
    <3>1. /\ turn'[t].found = turn[t].found
          /\ turn'[t].new =
               {u \in Urls : turn[t].found[u] # 0 /\ turn[t].found[u] # Seen(u)}
          /\ turn'[t].at = "store" => turn'[t].new = {}
      BY <1>7, <2>2, SMT DEF Dedup, MonitorTypeOK
    <3>2. \A u \in Urls : turn[t].found[u] # 0 /\ u \notin turn'[t].new =>
                            turn[t].found[u] = Seen(u)
      BY <3>1, SMT
    <3>3. \A u \in Urls : Seen(u) # 0 => Settled(u, Seen(u))
      BY SeenIsSettled
    <3>4. \A u \in Urls : turn'[t].found[u] # 0 /\ u \notin turn'[t].new =>
                            Settled(u, turn[t].found[u])'
      BY <1>1, <3>1, <3>2, <3>3
    <3> QED BY <3>1, <3>4, SMT DEF TurnIsSettled
  <2> QED BY <2>1, <2>2
<1>8. ASSUME UNCHANGED turn PROVE TurnIsSettled(t)'
  BY <1>2, <1>8
<1>9. CASE MonitorNext
  BY <1>4, <1>5, <1>6, <1>7, <1>8, <1>9 DEF MonitorNext, TurnStep, Publish, SetSecret
<1> QED
  BY <1>8, <1>9 DEF watch

(* The invariant, with the types of the watch.                             *)
LEMMA MInvStep == MInv /\ [MonitorNext]_watch => MInv'
<1> SUFFICES ASSUME MInv, [MonitorNext]_watch PROVE MInv'
  OBVIOUS
<1> USE DEF MInv
<1>1. MonitorTypeOK' /\ \A t \in Turns : TurnIsSettled(t)'
  BY WatchTypeStep, TurnsStep
<1>2. \A u, v : Settled(u, v) => Settled(u, v)'
  BY SettledStays
<1>3. ASSUME \A j \in Positions' : \E k \in Positions : log'[j].results = log[k].results
      PROVE  LogIsSettled'
  BY <1>2, <1>3, SMT DEF LogIsSettled
<1>4. ASSUME UNCHANGED log PROVE LogIsSettled'
  BY <1>3, <1>4, SMT DEF Positions
<1>5. ASSUME NEW t \in Turns, Start(t) PROVE LogIsSettled'
  <2>1. /\ Len(log) \in Nat /\ Len(log') = Len(log) + 1
        /\ \A j \in Positions : log'[j] = log[j]
        /\ log'[Len(log) + 1] = Place(t)
    BY <1>5, SMT DEF Start, Positions, MonitorTypeOK
  <2>2. \A u \in Urls : log'[Len(log) + 1].results[u] = 0
    BY <2>1, SMT DEF Place, Nothing
  <2>3. \A j \in Positions' : j \in Positions \/ j = Len(log) + 1
    BY <2>1, SMT DEF Positions
  <2> QED
    BY <1>2, <2>1, <2>2, <2>3, SMT DEF LogIsSettled
<1>6. ASSUME NEW t \in Turns, NEW find \in Versions, log' = Stored(t, find),
             \A u \in Urls : find[u] # 0 => Settled(u, find[u])'
      PROVE  LogIsSettled'
  <2>1. \A j \in Positions' : \/ log'[j].results = find
                              \/ \E k \in Positions : log'[j].results = log[k].results
    BY <1>6, StoredEntries DEF Positions, MonitorTypeOK
  <2> QED
    BY <1>2, <1>6, <2>1, SMT DEF LogIsSettled
<1>7. ASSUME NEW t \in Turns, RecallFails(t) PROVE LogIsSettled'
  <2>1. Nothing \in Versions /\ \A u \in Urls : Nothing[u] = 0
    BY SMT DEF Nothing, Versions
  <2> QED
    BY <1>6, <1>7, <2>1 DEF RecallFails
<1>8. ASSUME NEW t \in Turns, Store(t) PROVE LogIsSettled'
  <2>1. PICK find \in Versions : find = turn[t].found
    BY SMT DEF MonitorTypeOK
  <2>2. ASSUME NEW u \in Urls, find[u] # 0
        PROVE  Settled(u, find[u])'
    <3>1. CASE u \in turn[t].new /\ turn[t].at = "storeOk"
      <4>1. /\ turn'[t].at = "deliver" /\ u \in turn'[t].new
            /\ turn'[t].found = find
        BY <1>8, <2>1, <3>1, SMT DEF Store, MonitorTypeOK
      <4> QED BY <4>1, SMT DEF Settled, News
    <3>2. CASE turn[t].at = "store" \/ u \notin turn[t].new
      <4>1. Settled(u, find[u])
        BY <1>8, <2>1, <2>2, <3>2, SMT DEF TurnIsSettled, Store
      <4> QED BY <1>2, <4>1
    <3> QED BY <1>8, <3>1, <3>2 DEF Store
  <2> QED
    BY <1>6, <1>8, <2>1, <2>2, Zenon DEF Store
<1>9. ASSUME NEW t \in Turns, Die(t) PROVE LogIsSettled'
  <2>1. \A j \in Positions' : \E k \in Positions : log'[j] = log[k]
    BY <1>9, DiedEntries DEF Positions, MonitorTypeOK
  <2> QED
    BY <1>3, <2>1
<1>10. ASSUME NEW t \in Turns, Recall(t) \/ Dedup(t) \/ CheckSecret(t) \/ Deliver(t)
       PROVE  LogIsSettled'
  BY <1>4, <1>10 DEF Recall, Dedup, CheckSecret, Deliver
<1>11. ASSUME MonitorNext PROVE LogIsSettled'
  <2>1. ASSUME \/ \E u \in Urls : Publish(u)
               \/ SetSecret
        PROVE  LogIsSettled'
    BY <1>4, <2>1 DEF Publish, SetSecret
  <2>2. ASSUME NEW t \in Turns, Start(t) \/ TurnStep(t) \/ Die(t)
        PROVE  LogIsSettled'
    BY <1>5, <1>7, <1>8, <1>9, <1>10, <2>2 DEF TurnStep
  <2> QED
    BY <1>11, <2>1, <2>2 DEF MonitorNext
<1> QED
  BY <1>1, <1>4, <1>11 DEF watch

(* The invariant, with the types of the watch.                             *)
THEOREM WatchInvariant == MonitorSpec => []MInv
BY InitMInv, MInvStep, PTL DEF MonitorSpec

(* "So the dedup memory cannot absorb undelivered content": for any pages, *)
(* turns and length of the memory, what a stored run keeps from being      *)
(* reported has been tried, is on its way, or a turn died with it.         *)
THEOREM NothingAbsorbedUndelivered == MonitorSpec => []AbsorbedIsDelivered
<1>1. MInv => AbsorbedIsDelivered
  BY DEF MInv, LogIsSettled, Settled, AbsorbedIsDelivered
<1> QED
  BY WatchInvariant, <1>1, PTL
=============================================================================
