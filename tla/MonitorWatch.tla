---------------------------- MODULE MonitorWatch ----------------------------
(***************************************************************************)
(* One digisearch watch with a webhook or e-mail delivery: turns of        *)
(* run_watch, by the schedule and by hand, in threads and processes that   *)
(* share the monitor store.  A turn recalls, compares what it found with   *)
(* the memory of the latest stored runs, stores its own run and only then  *)
(* delivers what was new.                                                  *)
(*                                                                         *)
(* The web is a version per URL, 0 standing for "not there"; a recall      *)
(* returns some of what is there, as its ranking has it.  Duplicate titles *)
(* under other URLs, the research mode and changes to the watch are left   *)
(* out.  The hand-off to a webset, the last thing a turn does, is a        *)
(* caller's AddSearch in WebsetRun.                                        *)
(***************************************************************************)
EXTENDS Naturals, Sequences, FiniteSets, SequencesExt

CONSTANTS
  Urls,
  Turns,       \* threads that run turns of the watch
  SeenRuns,    \* _DEFAULT_SEEN_RUNS (10)
  MaxVersion   \* bound: versions of a page

ASSUME WatchAssumption == SeenRuns \in Nat \ {0} /\ MaxVersion \in Nat

VARIABLES
  web,        \* web[u]: the version of the page at u
  secret,     \* the watch has a delivery secret
  log,        \* runs by started_at, oldest first: stored ones, as far back as
              \* the memory reaches, and the places of turns under way
  turn,       \* turn[t]: where the turn is, what it found, what it holds new
  attempted,  \* history: <<url, version>> for which delivery was attempted
  lost        \* history: those a turn died with after it had stored its run

watch == <<web, secret, log, turn, attempted, lost>>

Nothing == [u \in Urls |-> 0]
Resting == [at |-> "idle", found |-> Nothing, new |-> {}]
Place(t) == [turn |-> t, stored |-> FALSE, results |-> Nothing]

Positions == 1..Len(log)

MonitorInit ==
  /\ web = Nothing /\ secret = FALSE
  /\ log = <<>>
  /\ turn = [t \in Turns |-> Resting]
  /\ attempted = {} /\ lost = {}
-----------------------------------------------------------------------------
Publish(u) ==
  /\ web[u] < MaxVersion
  /\ web' = [web EXCEPT ![u] = web[u] + 1]
  /\ UNCHANGED <<secret, log, turn, attempted, lost>>

SetSecret ==
  /\ ~secret /\ secret' = TRUE
  /\ UNCHANGED <<web, log, turn, attempted, lost>>

(* The place in the order of runs is taken when the turn starts. *)
Start(t) ==
  /\ turn[t].at = "idle"
  /\ turn' = [turn EXCEPT ![t].at = "recall"]
  /\ log' = Append(log, Place(t))
  /\ UNCHANGED <<web, secret, attempted, lost>>

Recall(t) ==
  /\ turn[t].at = "recall"
  /\ \E returned \in SUBSET Urls :
       LET found == [u \in Urls |-> IF u \in returned THEN web[u] ELSE 0]
       IN  turn' = [turn EXCEPT ![t] = [at |-> "dedup", found |-> found, new |-> {}]]
  /\ UNCHANGED <<web, secret, log, attempted, lost>>

(* seen_fingerprints: the newest stored run that has the URL decides. *)
Seen(u) ==
  LET with == {i \in Positions : log[i].results[u] # 0} IN
  IF with = {} THEN 0
  ELSE log[Max(with)].results[u]

(* dedup_results: an unknown URL is new, a known one when it has changed.  *)
Dedup(t) ==
  /\ turn[t].at = "dedup"
  /\ LET found == turn[t].found
         new == {u \in Urls : found[u] # 0 /\ found[u] # Seen(u)}
     IN turn' = [turn EXCEPT ![t] = [at |-> IF new = {} THEN "store" ELSE "secret",
                                     found |-> found, new |-> new]]
  /\ UNCHANGED <<web, secret, log, attempted, lost>>

(* Mutant of CheckSecret: the failed run keeps what was found. *)
CheckSecretKeeping(t) ==
  /\ turn[t].at = "secret"
  /\ turn' = [turn EXCEPT ![t].at = IF secret THEN "storeOk" ELSE "store"]
  /\ UNCHANGED <<web, secret, log, attempted, lost>>

(* Without a secret the run fails, and is stored as if nothing was found.  *)
CheckSecret(t) ==
  /\ turn[t].at = "secret"
  /\ turn' = IF secret THEN [turn EXCEPT ![t].at = "storeOk"]
             ELSE [turn EXCEPT ![t] = [at |-> "store", found |-> Nothing, new |-> @.new]]
  /\ UNCHANGED <<web, secret, log, attempted, lost>>

(* What the memory reaches, the newest SeenRuns stored runs, now that one  *)
(* more has been stored: the oldest falls out of reach when they are full. *)
Reached(runs) ==
  LET stored == {i \in DOMAIN runs : runs[i].stored}
  IN  IF Cardinality(stored) > SeenRuns THEN RemoveAt(runs, Min(stored)) ELSE runs

(* The place of a turn under way; it has one until its run is stored. *)
Own(t) == {i \in Positions : log[i].turn = t /\ ~log[i].stored}

Stored(t, found) ==
  Reached([i \in Positions |->
             IF i \in Own(t) THEN [turn |-> t, stored |-> TRUE, results |-> found]
                              ELSE log[i]])

(* A recall that raises stores an empty failed run. *)
RecallFails(t) ==
  /\ turn[t].at = "recall"
  /\ log' = Stored(t, Nothing)
  /\ turn' = [turn EXCEPT ![t] = Resting]
  /\ UNCHANGED <<web, secret, attempted, lost>>

(* append_run.  Only an ok run goes on to deliver. *)
Store(t) ==
  /\ turn[t].at \in {"store", "storeOk"}
  /\ log' = Stored(t, turn[t].found)
  /\ turn' = IF turn[t].at = "storeOk" THEN [turn EXCEPT ![t].at = "deliver"]
             ELSE [turn EXCEPT ![t] = Resting]
  /\ UNCHANGED <<web, secret, attempted, lost>>

News(t) == {<<u, turn[t].found[u]>> : u \in turn[t].new}

(* Each target is tried; a failure is a receipt of this turn and no more.  *)
Deliver(t) ==
  /\ turn[t].at = "deliver"
  /\ attempted' = attempted \cup News(t)
  /\ turn' = [turn EXCEPT ![t] = Resting]
  /\ UNCHANGED <<web, secret, log, lost>>

(* The turn's process dies. *)
Die(t) ==
  /\ turn[t].at # "idle"
  /\ lost' = IF turn[t].at = "deliver" THEN lost \cup News(t) ELSE lost
  /\ log' = IF Own(t) = {} THEN log ELSE RemoveAt(log, Min(Own(t)))
  /\ turn' = [turn EXCEPT ![t] = Resting]
  /\ UNCHANGED <<web, secret, attempted>>
-----------------------------------------------------------------------------
TurnStep(t) ==
  \/ Recall(t) \/ RecallFails(t) \/ Dedup(t) \/ CheckSecret(t) \/ Store(t) \/ Deliver(t)

MonitorNext ==
  \/ \E t \in Turns : Start(t) \/ TurnStep(t) \/ Die(t)
  \/ \E u \in Urls : Publish(u)
  \/ SetSecret

MonitorSpec == MonitorInit /\ [][MonitorNext]_watch
-----------------------------------------------------------------------------
(* runner.py: "so the dedup memory cannot absorb undelivered content".     *)
(* What the memory holds, and so keeps from being reported, has been tried *)
(* or a turn is on its way to try it; only a turn that died between its    *)
(* append and its delivery has cost the receiver something.                *)
AbsorbedIsDelivered ==
  \A i \in Positions : \A u \in Urls :
    LET v == log[i].results[u] IN
    v # 0 => \/ <<u, v>> \in attempted \cup lost
             \/ \E t \in Turns : turn[t].at = "deliver" /\ <<u, v>> \in News(t)
=============================================================================
