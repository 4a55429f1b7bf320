------------------------ MODULE DigiquantDayProofs -------------------------
(***************************************************************************)
(* Proofs about digiquant's cron work, for any number of jobs, messages,   *)
(* workers, passes and mishaps.                                            *)
(*                                                                         *)
(* NotifyClaims: the claim's row is what keeps a second pass away; a       *)
(* message in a pass's hand is claimed, in no other hand, and not yet      *)
(* accepted.                                                               *)
(*                                                                         *)
(* OverlayJobs: the invariant says what the conditional update buys; a job *)
(* is in the hands of one worker at a time, which nobody takes from it,    *)
(* and the graph has not been invoked for a job before a worker comes to   *)
(* run it.                                                                 *)
(***************************************************************************)
EXTENDS OverlayJobs, NotifyClaims, TLAPS

-----------------------------------------------------------------------------
(***************************************************************************)
(* The claims of notifications.                                            *)
(***************************************************************************)
(* A pass holds one message, between its claim and its record or release. *)
OneInHand ==
  /\ NotifyTypeOK
  /\ \A p \in Passes :
       /\ \A d, e \in msg[p] : d = e
       /\ step[p] \in {"off", "claim"} => msg[p] = {}

(* It is the only one that holds it, and it has claimed it. *)
SoleHand ==
  /\ \A p, q \in Passes, e \in Messages : e \in msg[p] /\ e \in msg[q] => p = q
  /\ \A p \in Passes : msg[p] \subseteq claim

(* How far a message has come. *)
Count ==
  /\ \A e \in Messages :
       /\ sent[e] \in {0, 1} /\ log[e] \in {0, 1}
       /\ e \notin claim => sent[e] = 0
       /\ sent[e] = 0 => log[e] = 0
  /\ \A p \in Passes, e \in Messages : e \in msg[p] =>
       /\ step[p] \in {"send", "release"} => sent[e] = 0
       /\ step[p] = "record" => sent[e] = 1 /\ log[e] = 0

NInv == OneInHand /\ SoleHand /\ Count

LEMMA InitNInv == NotifyInit => NInv
BY SMT DEF NotifyInit, NInv, OneInHand, NotifyTypeOK, SoleHand, Count

LEMMA NInvStep == NInv /\ [NotifyNext]_notify => NInv'
<1> SUFFICES ASSUME NInv, [NotifyNext]_notify PROVE NInv'
  OBVIOUS
<1> USE DEF NInv, OneInHand, NotifyTypeOK, SoleHand, Count, At, Took, NextMessage
<1>1. ASSUME NEW p \in Passes, StartPass(p) PROVE NInv'
  BY <1>1, SMT DEF StartPass
<1>2. ASSUME NEW p \in Passes, TryClaim(p) PROVE NInv'
  BY <1>2, SMT DEF TryClaim
<1>3. ASSUME NEW p \in Passes, EndPass(p) PROVE NInv'
  BY <1>3, SMT DEF EndPass
<1>4. ASSUME NEW p \in Passes, ClaimFails(p) PROVE NInv'
  BY <1>4, SMT DEF ClaimFails
<1>5. ASSUME NEW p \in Passes, Send(p) PROVE NInv'
  <2>1. CASE At(p, "record") /\ Accepted(p) /\ UNCHANGED <<unclear, msg>>
    BY <1>5, <2>1, SMT DEF Send, Accepted
  <2>2. CASE At(p, "release") /\ UNCHANGED <<sent, unclear, msg>>
    BY <1>5, <2>2, SMT DEF Send
  <2>3. CASE NextMessage(p) /\ unclear' = unclear \cup msg[p] /\ (Accepted(p) \/ UNCHANGED sent)
    BY <1>5, <2>3, SMT DEF Send, Accepted
  <2> QED
    BY <1>5, <2>1, <2>2, <2>3, Zenon DEF Send
<1>6. ASSUME NEW p \in Passes, RecordSend(p) PROVE NInv'
  BY <1>6, SMT DEF RecordSend, Logged
<1>7. ASSUME NEW p \in Passes, ReleaseSlot(p) PROVE NInv'
  BY <1>7, SMT DEF ReleaseSlot
<1>8. ASSUME NEW p \in Passes, PassDies(p) PROVE NInv'
  BY <1>8, SMT DEF PassDies
<1>9. CASE UNCHANGED notify
  BY <1>9, SMT DEF notify
<1> QED
  BY <1>1, <1>2, <1>3, <1>4, <1>5, <1>6, <1>7, <1>8, <1>9 DEF NotifyNext, PassStep

(* A claimed message is in one hand at a time. *)
THEOREM OneHand == NotifySpec => []NInv
BY InitNInv, NInvStep, PTL DEF NotifySpec

(* The mail service accepts a message at most once a day, whatever passes  *)
(* overlap, die or meet errors.                                            *)
THEOREM NoDoubleSend == NotifySpec => []SentOnce
<1>1. NInv => SentOnce
  <2> SUFFICES ASSUME NInv, NEW e \in Messages PROVE sent[e] <= 1
    BY DEF SentOnce
  <2>1. sent[e] = 0 \/ sent[e] = 1
    BY Zenon DEF NInv, Count
  <2> QED
    BY <2>1, SMT
<1> QED
  BY OneHand, <1>1, PTL

(* Every row of the log stands for an accepted send. *)
THEOREM LogOfSends == NotifySpec => []LogIsTrue
<1>1. NInv => LogIsTrue
  <2> SUFFICES ASSUME NInv, NEW e \in Messages PROVE log[e] <= sent[e]
    BY DEF LogIsTrue
  <2>1. /\ sent[e] = 0 \/ sent[e] = 1
        /\ log[e] = 0 \/ log[e] = 1
        /\ sent[e] = 0 => log[e] = 0
    BY Zenon DEF NInv, Count
  <2> QED
    BY <2>1, SMT
<1> QED
  BY OneHand, <1>1, PTL

(* While no request fails a slot is used for a message that was accepted,  *)
(* that a pass has in hand, or whose send ended in a transport error.      *)
THEOREM SlotsAreUsed == NotifySpec => []SlotIsNotBurnt
<1>1. NotifyInit => SlotIsNotBurnt
  BY Zenon DEF NotifyInit, SlotIsNotBurnt
<1>2. NInv /\ SlotIsNotBurnt /\ [NotifyNext]_notify => SlotIsNotBurnt'
  <2> SUFFICES ASSUME NInv, SlotIsNotBurnt, [NotifyNext]_notify, notifyFaults' = 0,
                      NEW e \in claim'
               PROVE  sent'[e] = 1 \/ (\E p \in Passes : e \in msg'[p]) \/ e \in unclear'
    BY Zenon DEF SlotIsNotBurnt, InHand
  <2> DEFINE Used == sent'[e] = 1 \/ (\E p \in Passes : e \in msg'[p]) \/ e \in unclear'
  <2>0. notifyFaults = 0 /\ e \in claim =>
          e \in Messages /\ (sent[e] = 1 \/ (\E p \in Passes : e \in msg[p]) \/ e \in unclear)
    BY Zenon DEF SlotIsNotBurnt, InHand, NInv, OneInHand, NotifyTypeOK
  <2> USE DEF NInv, OneInHand, NotifyTypeOK, Count, At, Took, NextMessage
  <2>1. CASE UNCHANGED notify
    BY <2>0, <2>1, SMT DEF notify
  <2>2. ASSUME NEW p \in Passes, StartPass(p) \/ EndPass(p) PROVE Used
    BY <2>0, <2>2, SMT DEF StartPass, EndPass
  <2>3. ASSUME NEW p \in Passes, TryClaim(p) PROVE Used
    BY <2>0, <2>3, SMT DEF TryClaim
  <2>4. ASSUME NEW p \in Passes, Send(p) PROVE Used
    <3>1. CASE Accepted(p)
      BY <2>0, <2>4, <3>1, SMT DEF Send, Accepted
    <3>2. CASE UNCHANGED sent
      BY <2>0, <2>4, <3>2, SMT DEF Send
    <3> QED
      BY <2>4, <3>1, <3>2, Zenon DEF Send
  <2>5. ASSUME NEW p \in Passes, RecordSend(p) PROVE Used
    BY <2>0, <2>5, SMT DEF RecordSend
  <2>6. ASSUME NEW p \in Passes, ReleaseSlot(p) PROVE Used
    BY <2>0, <2>6, SMT DEF ReleaseSlot
  <2>7. ASSUME NEW p \in Passes, ClaimFails(p) \/ PassDies(p) PROVE FALSE
    BY <2>7, SMT DEF ClaimFails, PassDies
  <2> QED
    BY <2>1, <2>2, <2>3, <2>4, <2>5, <2>6, <2>7 DEF NotifyNext, PassStep
<1> QED
  BY OneHand, <1>1, <1>2, PTL DEF NotifySpec
-----------------------------------------------------------------------------
(***************************************************************************)
(* The claims of overlay jobs.                                             *)
(***************************************************************************)
USE DEF Settled, Executing

(* A worker has one job in hand, and an outcome when it stores one. *)
Shape ==
  /\ OverlayTypeOK
  /\ \A w \in Workers :
       /\ \A k, l \in cur[w] : k = l
       /\ at[w] = "settle" => result[w] \in Settled

(* A claimed job runs until its own worker settles it. *)
Running == {"run", "graph", "pinMissing", "settle"}
Owned ==
  \A w \in Workers, k \in Jobs :
    /\ k \in mine[w] => job[k] = "running"
    /\ k \in cur[w] /\ at[w] \in Running => job[k] = "running"
    /\ k \in cur[w] /\ at[w] = "readBack" => job[k] \in Settled
    /\ k \in cur[w] /\ at[w] = "fail" => job[k] \notin {"absent", "pending"}

(* No two workers hold a job, and none holds it twice. *)
Sole ==
  /\ \A v, w \in Workers, k \in Jobs : k \in Held(v) /\ k \in Held(w) => v = w
  /\ \A w \in Workers, k \in Jobs : k \in mine[w] /\ k \in cur[w] => at[w] \notin Executing

(* A job the graph has not been invoked for yet. *)
Unrun ==
  \A k \in Jobs :
    /\ runs[k] \in {0, 1}
    /\ job[k] \in {"absent", "pending"} => runs[k] = 0
    /\ \A w \in Workers : k \in mine[w] \/ (k \in cur[w] /\ at[w] = "run") => runs[k] = 0

IInv == Shape /\ Owned /\ Sole /\ Unrun

LEMMA InitIInv == OverlayInit => IInv
BY SMT DEF OverlayInit, IInv, Shape, OverlayTypeOK, Owned, Sole, Unrun, Held

LEMMA ShapeStep == IInv /\ [OverlayNext]_overlay => Shape'
<1> SUFFICES ASSUME IInv, [OverlayNext]_overlay PROVE Shape'
  OBVIOUS
<1> USE DEF IInv, Shape, OverlayTypeOK, Goto, Inserted, Claimed, Claimable, Updated, history, worker
<1>1. ASSUME NEW w \in Workers, StartCron(w) PROVE Shape'
  BY <1>1, SMT DEF StartCron
<1>2. ASSUME NEW w \in Workers, Look(w) PROVE Shape'
  BY <1>2, SMT DEF Look
<1>3. ASSUME NEW w \in Workers, InsertSkipped(w) PROVE Shape'
  BY <1>3, SMT DEF InsertSkipped
<1>4. ASSUME NEW w \in Workers, InsertPending(w) PROVE Shape'
  BY <1>4, SMT DEF InsertPending
<1>5. ASSUME NEW w \in Workers, Claim(w) PROVE Shape'
  BY <1>5, SMT DEF Claim
<1>6. ASSUME NEW w \in Workers, Dispatched(w) PROVE Shape'
  BY <1>6, SMT DEF Dispatched
<1>7. ASSUME NEW w \in Workers, Reread(w) PROVE Shape'
  BY <1>7, SMT DEF Reread
<1>8. ASSUME NEW w \in Workers, RunOverlay(w) PROVE Shape'
  BY <1>8, SMT DEF RunOverlay
<1>9. ASSUME NEW w \in Workers, GraphEnds(w) \/ ReadBack(w) PROVE Shape'
  BY <1>9, SMT DEF GraphEnds, ReadBack
<1>10. ASSUME NEW w \in Workers, FinishJob(w) PROVE Shape'
  BY <1>10, SMT DEF FinishJob
<1>11. ASSUME NEW w \in Workers, FailRunningJob(w) PROVE Shape'
  BY <1>11, SMT DEF FailRunningJob
<1>12. ASSUME NEW w \in Workers, RequestFails(w) PROVE Shape'
  BY <1>12, SMT DEF RequestFails, Effect, Die
<1>13. CASE UNCHANGED overlay
  BY <1>13, SMT DEF overlay
<1> QED
  BY <1>1, <1>2, <1>3, <1>4, <1>5, <1>6, <1>7, <1>8, <1>9, <1>10, <1>11, <1>12, <1>13
     DEF OverlayNext, OverlayStep

LEMMA ClaimsStep == IInv /\ [OverlayNext]_overlay => (Owned /\ Sole /\ Unrun)'
<1> SUFFICES ASSUME IInv, [OverlayNext]_overlay PROVE (Owned /\ Sole /\ Unrun)'
  OBVIOUS
<1> USE DEF IInv, Shape, OverlayTypeOK, Owned, Sole, Unrun, Held, Running, Goto,
            Inserted, Claimed, Claimable, Updated, history, worker
<1>1. ASSUME NEW w \in Workers, StartCron(w) PROVE (Owned /\ Sole /\ Unrun)'
  BY <1>1, SMT DEF StartCron
<1>2. ASSUME NEW w \in Workers, Look(w) PROVE (Owned /\ Sole /\ Unrun)'
  BY <1>2, SMT DEF Look
<1>3. ASSUME NEW w \in Workers, InsertSkipped(w) PROVE (Owned /\ Sole /\ Unrun)'
  BY <1>3, SMT DEF InsertSkipped
<1>4. ASSUME NEW w \in Workers, InsertPending(w) PROVE (Owned /\ Sole /\ Unrun)'
  BY <1>4, SMT DEF InsertPending
<1>5. ASSUME NEW w \in Workers, Claim(w) PROVE (Owned /\ Sole /\ Unrun)'
  BY <1>5, SMT DEF Claim
<1>6. ASSUME NEW w \in Workers, Dispatched(w) PROVE (Owned /\ Sole /\ Unrun)'
  BY <1>6, SMT DEF Dispatched
<1>7. ASSUME NEW w \in Workers, Reread(w) PROVE (Owned /\ Sole /\ Unrun)'
  BY <1>7, SMT DEF Reread
<1>8. ASSUME NEW w \in Workers, RunOverlay(w) PROVE (Owned /\ Sole /\ Unrun)'
  BY <1>8, SMT DEF RunOverlay
<1>9. ASSUME NEW w \in Workers, GraphEnds(w) \/ ReadBack(w) PROVE (Owned /\ Sole /\ Unrun)'
  <2>1. CASE GraphEnds(w)
    BY <2>1, SMT DEF GraphEnds
  <2>2. CASE ReadBack(w)
    BY <2>2, SMT DEF ReadBack
  <2> QED BY <1>9, <2>1, <2>2
<1>10. ASSUME NEW w \in Workers, FinishJob(w) PROVE (Owned /\ Sole /\ Unrun)'
  BY <1>10, SMT DEF FinishJob
<1>11. ASSUME NEW w \in Workers, FailRunningJob(w) PROVE (Owned /\ Sole /\ Unrun)'
  BY <1>11, SMT DEF FailRunningJob
<1>12. ASSUME NEW w \in Workers, RequestFails(w) PROVE (Owned /\ Sole /\ Unrun)'
  <2>1. /\ at[w] # "idle" /\ UNCHANGED <<mode, runs, left>>
        /\ Effect(w)
        /\ \/ /\ at[w] \in {"pinMissing", "settle", "readBack"} /\ Goto(w, "fail")
              /\ UNCHANGED <<todo, mine, cur>>
           \/ Die(w)
    BY <1>12, Zenon DEF RequestFails
  <2>2. \A k \in Jobs :
          \/ job'[k] = job[k]
          \/ job[k] = "absent" /\ job'[k] \in {"skipped", "pending"}
          \/ job[k] = "pending" /\ job'[k] = "running"
          \/ /\ k \in cur[w] /\ at[w] \in {"settle", "pinMissing", "fail"}
             /\ job'[k] \in Settled
    BY <2>1, SMT DEF Effect
  <2>3. Owned'
    <3>1. SUFFICES ASSUME NEW v \in Workers, NEW k \in Jobs
          PROVE  /\ k \in mine'[v] => job'[k] = "running"
                 /\ k \in cur'[v] /\ at'[v] \in Running => job'[k] = "running"
                 /\ k \in cur'[v] /\ at'[v] = "readBack" => job'[k] \in Settled
                 /\ k \in cur'[v] /\ at'[v] = "fail" => job'[k] \notin {"absent", "pending"}
      BY Zenon DEF Owned
    <3>2. CASE Die(w)
      <4>1. CASE v = w
        BY <3>2, <4>1, SMT DEF Die
      <4>2. CASE v # w
        BY <2>2, <3>2, <4>2, SMT DEF Die
      <4> QED
        BY <4>1, <4>2
    <3>3. CASE /\ at[w] \in {"pinMissing", "settle", "readBack"} /\ Goto(w, "fail")
               /\ UNCHANGED <<todo, mine, cur>>
      <4>1. CASE v = w
        BY <2>2, <3>3, <4>1, SMT
      <4>2. CASE v # w
        BY <2>2, <3>3, <4>2, SMT
      <4> QED
        BY <4>1, <4>2
    <3> QED
      BY <2>1, <3>2, <3>3
  <2>4. Sole'
    <3>1. CASE Die(w)
      BY <3>1, SMT DEF Die
    <3>2. CASE /\ at[w] \in {"pinMissing", "settle", "readBack"} /\ Goto(w, "fail")
               /\ UNCHANGED <<todo, mine, cur>>
      BY <3>2, SMT
    <3> QED
      BY <2>1, <3>1, <3>2
  <2>5. Unrun'
    BY <2>1, <2>2, SMT DEF Die
  <2> QED
    BY <2>3, <2>4, <2>5
<1>13. CASE UNCHANGED overlay
  BY <1>13, SMT DEF overlay
<1> QED
  BY <1>1, <1>2, <1>3, <1>4, <1>5, <1>6, <1>7, <1>8, <1>9, <1>10, <1>11, <1>12, <1>13
     DEF OverlayNext, OverlayStep

(* A job is in one worker's hands at a time. *)
THEOREM SoleHolder == OverlaySpec => []IInv
<1>1. IInv /\ [OverlayNext]_overlay => IInv'
  BY ShapeStep, ClaimsStep DEF IInv
<1> QED
  BY InitIInv, <1>1, PTL DEF OverlaySpec

(* The graph is invoked at most once per workspace and day, for any number *)
(* of workers, restarts, deaths and failed requests.                       *)
THEOREM GraphOnce == OverlaySpec => []GraphRunsOnce
<1>1. IInv => GraphRunsOnce
  <2> SUFFICES ASSUME IInv, NEW k \in Jobs PROVE runs[k] <= 1
    BY DEF GraphRunsOnce
  <2>1. runs[k] = 0 \/ runs[k] = 1
    BY Zenon DEF IInv, Unrun
  <2> QED
    BY <2>1, SMT
<1> QED
  BY SoleHolder, <1>1, PTL

(* What a step can do to a row. *)
LEMMA RowStep ==
  ASSUME IInv, [OverlayNext]_overlay, NEW k \in Jobs, job'[k] # job[k]
  PROVE  \/ job[k] = "absent" /\ job'[k] \in {"skipped", "pending"}
         \/ job[k] = "pending" /\ job'[k] = "running"
         \/ \E w \in Workers :
              /\ k \in cur[w] /\ job'[k] \in Settled
              /\ \/ at[w] \in {"settle", "pinMissing"} /\ job[k] = "running"
                 \/ at[w] = "fail" /\ job'[k] = "failed"
<1> USE DEF IInv, Shape, OverlayTypeOK, Owned, Running
<1>1. PICK w \in Workers : OverlayStep(w) \/ RequestFails(w)
  BY SMT DEF OverlayNext, overlay, StartCron
<1>2. Effect(w)
  <2>1. CASE RequestFails(w)
    BY <2>1 DEF RequestFails
  <2>2. CASE OverlayStep(w)
    <3>1. CASE InsertSkipped(w) \/ InsertPending(w) \/ Claim(w)
      BY <3>1, Zenon DEF InsertSkipped, InsertPending, Claim, Effect
    <3>2. CASE FinishJob(w) \/ FailRunningJob(w)
      BY <3>2, Zenon DEF FinishJob, FailRunningJob, Effect
    <3>3. CASE Look(w) \/ Dispatched(w) \/ Reread(w) \/ RunOverlay(w) \/ GraphEnds(w) \/ ReadBack(w)
      BY <3>3, Zenon DEF Look, Dispatched, Reread, RunOverlay, GraphEnds, ReadBack, Effect
    <3> QED
      BY <2>2, <3>1, <3>2, <3>3, Zenon DEF OverlayStep
  <2> QED
    BY <1>1, <2>1, <2>2
<1> QED
  BY <1>2, SMT DEF Effect, Inserted, Claimed, Claimable, Updated

(* A settled row is final but for the worker that executes the job. *)
THEOREM SettledIsFinal == OverlaySpec => SettledStays
<1>1. IInv /\ [OverlayNext]_overlay =>
        [\A k \in Jobs : job[k] \in Settled /\ job'[k] # job[k] =>
           job'[k] = "failed" /\ \E w \in Workers : k \in Held(w)]_overlay
  <2> SUFFICES ASSUME IInv, [OverlayNext]_overlay,
                      NEW k \in Jobs, job[k] \in Settled, job'[k] # job[k]
               PROVE  job'[k] = "failed" /\ \E w \in Workers : k \in Held(w)
    BY Zenon
  <2>1. PICK w \in Workers : k \in cur[w] /\ at[w] = "fail" /\ job'[k] = "failed"
    BY RowStep, SMT
  <2> QED
    BY <2>1 DEF Held
<1> QED
  BY SoleHolder, <1>1, PTL DEF OverlaySpec, SettledStays

(* A row that is left running is never picked up again. *)
THEOREM OrphansStay == OverlaySpec => OrphanStays
<1>1. IInv /\ [OverlayNext]_overlay =>
        [\A k \in Jobs : job[k] = "running" /\ (\A w \in Workers : k \notin Held(w))
           => job'[k] = "running"]_overlay
  <2> SUFFICES ASSUME IInv, [OverlayNext]_overlay, NEW k \in Jobs, job[k] = "running",
                      \A w \in Workers : k \notin Held(w), job'[k] # job[k]
               PROVE  FALSE
    BY Zenon
  <2>1. PICK w \in Workers : k \in cur[w] /\ at[w] \in Executing
    BY RowStep, SMT
  <2> QED
    BY <2>1 DEF Held
<1> QED
  BY SoleHolder, <1>1, PTL DEF OverlaySpec, OrphanStays

(* While nothing fails every running row is in a worker's hands or was     *)
(* left by a worker without --execute.                                     *)
THEOREM RunningRowsAreHeld == OverlaySpec => []RunningIsHeld
<1>1. OverlayInit => RunningIsHeld
  BY SMT DEF OverlayInit, RunningIsHeld
<1>2. IInv /\ RunningIsHeld /\ [OverlayNext]_overlay => RunningIsHeld'
  <2> SUFFICES ASSUME IInv, RunningIsHeld, [OverlayNext]_overlay, mishaps' = 0,
                      NEW k \in Jobs, job'[k] = "running"
               PROVE  k \in left' \/ \E w \in Workers : k \in Held(w)'
    BY Zenon DEF RunningIsHeld
  <2> USE DEF IInv, Shape, OverlayTypeOK, Owned, Running, Held, Goto, history, worker, RunningIsHeld
  <2>1. CASE UNCHANGED overlay
    BY <2>1, SMT DEF overlay
  <2>2. ASSUME NEW w \in Workers, RequestFails(w) PROVE FALSE
    BY <2>2, SMT DEF RequestFails
  <2>3. ASSUME NEW w \in Workers, Claim(w) PROVE k \in left' \/ \E v \in Workers : k \in Held(v)'
    BY <2>3, SMT DEF Claim, Claimed, Claimable
  <2>4. ASSUME NEW w \in Workers, Dispatched(w) PROVE k \in left' \/ \E v \in Workers : k \in Held(v)'
    BY <2>4, SMT DEF Dispatched
  <2>5. ASSUME NEW w \in Workers, Reread(w) PROVE k \in left' \/ \E v \in Workers : k \in Held(v)'
    BY <2>5, SMT DEF Reread
  <2>6. ASSUME NEW w \in Workers, RunOverlay(w) \/ GraphEnds(w) \/ ReadBack(w)
        PROVE  k \in left' \/ \E v \in Workers : k \in Held(v)'
    BY <2>6, SMT DEF RunOverlay, GraphEnds, ReadBack
  <2>7. ASSUME NEW w \in Workers, FinishJob(w) \/ FailRunningJob(w)
        PROVE  k \in left' \/ \E v \in Workers : k \in Held(v)'
    BY <2>7, SMT DEF FinishJob, FailRunningJob, Updated
  <2>8. ASSUME NEW w \in Workers, StartCron(w) \/ Look(w) \/ InsertSkipped(w) \/ InsertPending(w)
        PROVE  k \in left' \/ \E v \in Workers : k \in Held(v)'
    BY <2>8, SMT DEF StartCron, Look, InsertSkipped, InsertPending, Inserted
  <2> QED
    BY <2>1, <2>2, <2>3, <2>4, <2>5, <2>6, <2>7, <2>8 DEF OverlayNext, OverlayStep
<1> QED
  BY SoleHolder, <1>1, <1>2, PTL DEF OverlaySpec
=============================================================================
