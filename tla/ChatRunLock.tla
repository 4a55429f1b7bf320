---------------------------- MODULE ChatRunLock ----------------------------
(***************************************************************************)
(* digichat's guard of POST /api/chat: one run per session, and each run   *)
(* id at most once, in two maps of one process whose entries expire and    *)
(* whose number is bounded.  A run holds its session's entry until its     *)
(* response ends; the map does not know who put an entry in.               *)
(*                                                                         *)
(* Time is the lifetime left of each entry.  Expired entries are dropped   *)
(* at once: every get and set evicts them first.  The order of a map, by   *)
(* which it evicts, is kept as the keys that are older than each key.      *)
(***************************************************************************)
EXTENDS Naturals, FiniteSets

CONSTANTS
  Sessions,    \* keys of the lock: tenant, session and conversation
  RunIds,      \* values of X-Digi-Run-Id
  Handlers,    \* requests being served
  ActiveTtl,   \* ACTIVE_TTL_MS
  RunIdTtl,    \* RUN_ID_TTL_MS
  MaxKeys      \* MAX_KEYS, of either map

NoId == "no run id"
ASSUME ChatAssumption ==
  /\ ActiveTtl \in Nat \ {0} /\ RunIdTtl \in Nat \ {0} /\ MaxKeys \in Nat \ {0}
  /\ NoId \notin RunIds

VARIABLES
  active,   \* activeBySession: its keys, with what is left of each and the older ones
  seen,     \* runIdsBySession, likewise
  run,      \* what each handler is serving, and how far it is
  lost      \* history: keys of either map whose entry went before its run ended

chat == <<active, seen, run, lost>>

Free == [at |-> "free", session |-> "none", id |-> NoId]

Empty == [k \in {} |-> [left |-> 0, older |-> {}]]

ChatInit == active = Empty /\ seen = Empty /\ run = [h \in Handlers |-> Free] /\ lost = {}
-----------------------------------------------------------------------------
(* BoundedTTLMap: get, set, delete, and the passage of time. *)
Keys(map) == DOMAIN map
Has(map, key) == key \in Keys(map)
Without(map, gone) == [k \in Keys(map) \ gone |-> [map[k] EXCEPT !.older = @ \ gone]]
Deleted(map, key) == Without(map, {key})
Full(map, key) == ~Has(map, key) /\ Cardinality(Keys(map)) >= MaxKeys
Oldest(map) == CHOOSE k \in Keys(map) : map[k].older = {}
Added(map, key, ttl) ==
  [k \in Keys(map) \cup {key} |->
     IF k = key THEN [left |-> ttl, older |-> Keys(map)] ELSE map[k]]
Put(map, key, ttl) ==
  IF Has(map, key) THEN [map EXCEPT ![key].left = ttl]
  ELSE Added(IF Full(map, key) THEN Deleted(map, Oldest(map)) ELSE map, key, ttl)
Expiring(map) == {k \in Keys(map) : map[k].left <= 1}
Older(map) ==
  LET kept == Without(map, Expiring(map))
  IN  [k \in Keys(kept) |-> [kept[k] EXCEPT !.left = @ - 1]]

Open(h) == run[h].at = "open"
Idle(h) == run[h].at \in {"free", "refused"}
IdKey(h) == <<run[h].session, run[h].id>>
Owned == {run[h].session : h \in {g \in Handlers : Open(g)}}
           \cup {IdKey(h) : h \in {g \in Handlers : Open(g)}}

(* Keys whose entry goes in this step although a run that had it goes on;  *)
(* they stay in lost until no open run has them.                           *)
Watch == lost' = (lost \cup (Keys(active) \ Keys(active')) \cup (Keys(seen) \ Keys(seen')))
                   \cap Owned'
-----------------------------------------------------------------------------
(* acquireChatRunLock refuses: 409 run_id_replay or run_in_progress. *)
Replayed(s, i) == i # NoId /\ Has(seen, <<s, i>>)
Busy(s) == Has(active, s)

(* Mutant of Refuse: asking again prolongs the entry of the session. *)
RefuseProlonging(h) ==
  /\ Idle(h)
  /\ \E s \in Sessions, i \in RunIds \cup {NoId} :
       /\ Replayed(s, i) \/ Busy(s)
       /\ active' = IF Busy(s) THEN Put(active, s, ActiveTtl) ELSE active
       /\ run' = [run EXCEPT ![h] = [Free EXCEPT !.at = "refused"]]
  /\ UNCHANGED <<seen, lost>>

Refuse(h) ==
  /\ Idle(h)
  /\ \E s \in Sessions, i \in RunIds \cup {NoId} : Replayed(s, i) \/ Busy(s)
  /\ run' = [run EXCEPT ![h] = [Free EXCEPT !.at = "refused"]]
  /\ UNCHANGED <<active, seen, lost>>

(* Mutant of Acquire: the run id is stored by the release only. *)
AcquireUnseen(h) ==
  /\ Idle(h)
  /\ \E s \in Sessions, i \in RunIds \cup {NoId} :
       /\ ~Replayed(s, i) /\ ~Busy(s)
       /\ active' = Put(active, s, ActiveTtl)
       /\ run' = [run EXCEPT ![h] = [at |-> "open", session |-> s, id |-> i]]
  /\ UNCHANGED seen /\ Watch

Acquire(h) ==
  /\ Idle(h)
  /\ \E s \in Sessions, i \in RunIds \cup {NoId} :
       /\ ~Replayed(s, i) /\ ~Busy(s)
       /\ active' = Put(active, s, ActiveTtl)
       /\ seen' = IF i = NoId THEN seen ELSE Put(seen, <<s, i>>, RunIdTtl)
       /\ run' = [run EXCEPT ![h] = [at |-> "open", session |-> s, id |-> i]]
  /\ Watch

(* release, for the end of the response or an early answer; the id stays   *)
(* behind as done.  Whoever's entry it is, the session's is deleted.       *)
Release(h, last) ==
  /\ Open(h)
  /\ active' = Deleted(active, run[h].session)
  /\ seen' = IF run[h].id = NoId THEN seen ELSE Put(seen, IdKey(h), RunIdTtl)
  /\ run' = [run EXCEPT ![h] = IF last THEN Free ELSE [@ EXCEPT !.at = "cancelled"]]
  /\ Watch

ResponseEnds(h) == Release(h, TRUE)

(* The client goes away while a read of the body is pending: cancel        *)
(* releases, and the read that ends then releases again, to no effect.     *)
StreamCancelled(h) == Release(h, FALSE)

(* Mutant of PullEnds: the release is not remembered as done. *)
PullEndsReleasing(h) ==
  /\ run[h].at = "cancelled"
  /\ active' = Deleted(active, run[h].session)
  /\ run' = [run EXCEPT ![h] = Free]
  /\ UNCHANGED <<seen, lost>>

PullEnds(h) ==
  /\ run[h].at = "cancelled"
  /\ run' = [run EXCEPT ![h] = Free]
  /\ UNCHANGED <<active, seen, lost>>

(* release({ forgetRunId: true }): no upstream token, the id may be reused *)
UpstreamAuthFails(h) ==
  /\ Open(h)
  /\ active' = Deleted(active, run[h].session)
  /\ seen' = Deleted(seen, IdKey(h))
  /\ run' = [run EXCEPT ![h] = Free]
  /\ Watch

(* The handler throws where nothing catches it: nobody releases. *)
HandlerThrows(h) ==
  /\ Open(h)
  /\ run' = [run EXCEPT ![h] = Free]
  /\ UNCHANGED <<active, seen>> /\ Watch

EntriesAge ==
  /\ Keys(active) \cup Keys(seen) # {}
  /\ active' = Older(active) /\ seen' = Older(seen)
  /\ UNCHANGED run /\ Watch

ChatStep(h) ==
  \/ Refuse(h) \/ Acquire(h) \/ ResponseEnds(h) \/ StreamCancelled(h) \/ PullEnds(h)
  \/ UpstreamAuthFails(h) \/ HandlerThrows(h)

ChatNext == (\E h \in Handlers : ChatStep(h)) \/ EntriesAge

ChatSpec == ChatInit /\ [][ChatNext]_chat
-----------------------------------------------------------------------------
(* "Acquire an exclusive run lock": two runs of a session are open at once *)
(* only when the entry of one of them has expired or been evicted.         *)
OneRunPerSession ==
  \A g, h \in Handlers :
    Open(g) /\ Open(h) /\ run[g].session = run[h].session /\ g # h => run[g].session \in lost

(* "Duplicate runId: do not start a second invoke": not even after the     *)
(* session's entry has gone, as long as the id's own entry stands.         *)
IdOpenOnce ==
  \A g, h \in Handlers :
    Open(g) /\ Open(h) /\ IdKey(g) = IdKey(h) /\ run[g].id # NoId /\ g # h => IdKey(g) \in lost

(* A run that never releases does not block its session for ever, however  *)
(* often the client asks again.                                            *)
SessionComesFree == \A s \in Sessions : Busy(s) ~> ~Busy(s)
=============================================================================
