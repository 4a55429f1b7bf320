---------------------------- MODULE RateLimiter ----------------------------
(***************************************************************************)
(* digigraph's sliding-window limiter: one deque of request times per      *)
(* bucket, in a dictionary kept in order of last use, so that a sweep may  *)
(* stop at the first bucket still in use.  check() runs to its end in the  *)
(* one event loop, so it is a single step.                                 *)
(*                                                                         *)
(* Times are kept as ages; what is older than the window is as good as     *)
(* Window + 1.                                                             *)
(***************************************************************************)
EXTENDS Naturals, Sequences, SequencesExt

CONSTANTS
  Buckets,        \* addresses, or /64 networks
  MaxRequests,    \* max_requests
  Window,         \* window
  SweepInterval   \* _SWEEP_INTERVAL

ASSUME LimiterAssumption ==
  /\ MaxRequests \in Nat \ {0} /\ Window \in Nat /\ SweepInterval \in Nat \ {0}

VARIABLES
  windows,   \* _windows: buckets with the ages of their requests, oldest first
  checks,    \* _checks_since_sweep
  granted    \* history: ages of the requests let through, for each bucket

limiter == <<windows, checks, granted>>

LimiterInit == windows = <<>> /\ checks = 0 /\ granted = [b \in Buckets |-> <<>>]

(* The deque without the expired times at its front. *)
InWindow(ages) ==
  LET recent == {i \in DOMAIN ages : ages[i] <= Window}
  IN  IF recent = {} THEN <<>> ELSE SubSeq(ages, Min(recent), Len(ages))

Known(b) == \E i \in DOMAIN windows : windows[i].bucket = b
PlaceOf(b) == CHOOSE i \in DOMAIN windows : windows[i].bucket = b
Ages(b) == IF Known(b) THEN windows[PlaceOf(b)].ages ELSE <<>>
Others(b) == IF Known(b) THEN RemoveAt(windows, PlaceOf(b)) ELSE windows
Over(b) == Len(InWindow(Ages(b))) >= MaxRequests
-----------------------------------------------------------------------------
(* Mutant of Kept: a rejected bucket moves to the end as well. *)
KeptLast(b) == Append(Others(b), [bucket |-> b, ages |-> InWindow(Ages(b))])

(* 429: the expired times go, the bucket keeps its place. *)
Kept(b) == [windows EXCEPT ![PlaceOf(b)] = [bucket |-> b, ages |-> InWindow(Ages(b))]]

(* Let through: the time is appended and the bucket moves to the end. *)
Moved(b) == Append(Others(b), [bucket |-> b, ages |-> Append(InWindow(Ages(b)), 0)])

IsIdle(w) == w.ages = <<>> \/ Last(w.ages) > Window

(* Mutant of EvictIdleBuckets: a bucket is judged by its first request. *)
EvictOldBuckets(ws) == SelectSeq(ws, LAMBDA w : w.ages # <<>> /\ Head(w.ages) <= Window)

(* _evict_idle_buckets: from the front up to the first bucket in use. *)
EvictIdleBuckets(ws) ==
  LET busy == {i \in DOMAIN ws : ~IsIdle(ws[i])}
  IN  IF busy = {} THEN <<>>
      ELSE SubSeq(ws, Min(busy), Len(ws))

(* check: every call counts towards the sweep, let through or not *)
Due == checks + 1 >= SweepInterval
Swept(ws) == IF Due THEN EvictIdleBuckets(ws) ELSE ws
Count == checks' = IF Due THEN 0 ELSE checks + 1

Grant(b) ==
  /\ ~Over(b)
  /\ windows' = Swept(Moved(b)) /\ Count
  /\ granted' = [granted EXCEPT ![b] = Append(@, 0)]

Deny(b) ==
  /\ Over(b)
  /\ windows' = Swept(Kept(b)) /\ Count
  /\ UNCHANGED granted

Aged(ages) == [i \in DOMAIN ages |-> IF ages[i] > Window THEN ages[i] ELSE ages[i] + 1]

TimePasses ==
  /\ windows' = [i \in DOMAIN windows |->
                   [bucket |-> windows[i].bucket, ages |-> Aged(windows[i].ages)]]
  /\ granted' = [b \in Buckets |-> InWindow(Aged(granted[b]))]
  /\ UNCHANGED checks

LimiterNext == (\E b \in Buckets : Grant(b) \/ Deny(b)) \/ TimePasses

LimiterSpec == LimiterInit /\ [][LimiterNext]_limiter
-----------------------------------------------------------------------------
(* No window of time sees more than max_requests of one bucket let         *)
(* through, although a sweep forgets whole buckets.                        *)
QuotaHolds == \A b \in Buckets : Len(granted[b]) <= MaxRequests

(* "front-to-back order is exactly ascending by time of last accepted      *)
(* request": a sweep leaves no idle bucket behind the one it stops at.     *)
SweepIsComplete ==
  [][checks' = 0 /\ checks # checks' => \A i \in DOMAIN windows' : ~IsIdle(windows'[i])]_limiter
=============================================================================
