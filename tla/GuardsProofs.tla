---------------------------- MODULE GuardsProofs ----------------------------
(***************************************************************************)
(* Proofs about the guards in front of requests.  ChatRunLock: for any     *)
(* sessions, run ids, handlers, lifetimes and size of the maps, whose      *)
(* bound is proved as well.                                                *)
(* CircuitBreaker: for any number of callers, any threshold and any        *)
(* recovery time; while its recovery time runs, every call that is still   *)
(* under way began before the breaker opened.  RateLimiter: for any        *)
(* buckets, quota, window and sweep interval.                              *)
(***************************************************************************)
EXTENDS ChatRunLock, CircuitBreaker, RateLimiter, PlaceLemmas

(***************************************************************************)
(* The run lock: a run that is open has its session's entry and its id's,  *)
(* or they are on record as lost.                                          *)
(***************************************************************************)
SessionAccounted == \A h \in Handlers : Open(h) => run[h].session \in Keys(active) \cup lost
IdAccounted ==
  \A h \in Handlers : Open(h) /\ run[h].id # NoId => IdKey(h) \in Keys(seen) \cup lost

RunTypeOK ==
  run \in [Handlers -> [at : {"free", "refused", "open", "cancelled"},
                        session : Sessions \cup {"none"}, id : RunIds \cup {NoId}]]

CInv == RunTypeOK /\ SessionAccounted /\ IdAccounted /\ OneRunPerSession /\ IdOpenOnce

(* What remains of a map: without the oldest or the expired entries, or    *)
(* with one more; no other key goes or comes.                              *)
LEMMA MapKeys ==
  ASSUME NEW map, NEW key, NEW ttl
  PROVE  /\ Keys(Deleted(map, key)) = Keys(map) \ {key}
         /\ Keys(Older(map)) = Keys(map) \ Expiring(map)
         /\ key \in Keys(Put(map, key, ttl))
         /\ Keys(Put(map, key, ttl)) \subseteq Keys(map) \cup {key}
BY DEF Keys, Deleted, Without, Older, Expiring, Put, Added, Has

LEMMA InitCInv == ChatInit => CInv
BY SMT DEF ChatInit, CInv, RunTypeOK, SessionAccounted, IdAccounted, OneRunPerSession,
           IdOpenOnce, Open, Free

(* Watch keeps the account: what an open run still had and has lost in     *)
(* this step, and what was lost and is still some open run's, is in lost.  *)
LEMMA WatchKeeps ==
  ASSUME Watch
  PROVE  /\ \A k \in Owned' : k \in Keys(active) \cup lost => k \in Keys(active') \cup lost'
         /\ \A k \in Owned' : k \in Keys(seen) \cup lost => k \in Keys(seen') \cup lost'
         /\ \A k \in Owned' : k \in lost => k \in lost'
BY DEF Watch

LEMMA OwnedOfOpen ==
  ASSUME NEW h \in Handlers, Open(h)
  PROVE  run[h].session \in Owned /\ IdKey(h) \in Owned
BY DEF Owned

(* The runs that stay open keep their account when nothing opens.          *)
LEMMA FewerOpen ==
  ASSUME CInv, RunTypeOK', Watch \/ UNCHANGED <<active, seen, lost>>,
         \A g \in Handlers : Open(g)' => Open(g) /\ run'[g] = run[g]
  PROVE  CInv'
<1>1. ASSUME NEW g \in Handlers, Open(g)'
      PROVE  /\ Open(g) /\ run'[g] = run[g] /\ IdKey(g)' = IdKey(g)
             /\ run[g].session \in Owned' /\ IdKey(g) \in Owned'
  <2>1. Open(g) /\ run'[g] = run[g] /\ IdKey(g)' = IdKey(g)
    BY <1>1 DEF IdKey
  <2> QED BY <1>1, <2>1 DEF Owned
<1>2. /\ \A k \in Owned' : k \in Keys(active) \cup lost => k \in Keys(active') \cup lost'
      /\ \A k \in Owned' : k \in Keys(seen) \cup lost => k \in Keys(seen') \cup lost'
      /\ \A k \in Owned' : k \in lost => k \in lost'
  <2>1. CASE Watch
    BY <2>1, WatchKeeps
  <2> QED BY <2>1
<1>3. SessionAccounted'
  <2>1. ASSUME NEW g \in Handlers, Open(g)' PROVE run'[g].session \in Keys(active') \cup lost'
    BY <1>1, <1>2, <2>1 DEF CInv, SessionAccounted
  <2> QED BY <2>1 DEF SessionAccounted, Keys
<1>4. IdAccounted'
  <2>1. ASSUME NEW g \in Handlers, Open(g)', run'[g].id # NoId
        PROVE  IdKey(g)' \in Keys(seen') \cup lost'
    BY <1>1, <1>2, <2>1 DEF CInv, IdAccounted
  <2> QED BY <2>1 DEF IdAccounted, Keys
<1>5. OneRunPerSession' /\ IdOpenOnce'
  BY <1>1, <1>2 DEF CInv, OneRunPerSession, IdOpenOnce
<1> QED
  BY <1>3, <1>4, <1>5 DEF CInv

LEMMA AcquireStep ==
  ASSUME CInv, NEW h \in Handlers, Acquire(h)
  PROVE  CInv'
<1> USE DEF CInv
<1>1. PICK s \in Sessions, i \in RunIds \cup {NoId} :
        /\ ~Replayed(s, i) /\ ~Busy(s)
        /\ active' = Put(active, s, ActiveTtl)
        /\ seen' = IF i = NoId THEN seen ELSE Put(seen, <<s, i>>, RunIdTtl)
        /\ run' = [run EXCEPT ![h] = [at |-> "open", session |-> s, id |-> i]]
  BY DEF Acquire
<1>2. Watch
  BY DEF Acquire
<1>3. /\ run'[h] = [at |-> "open", session |-> s, id |-> i]
      /\ \A g \in Handlers \ {h} : run'[g] = run[g]
      /\ RunTypeOK'
  BY <1>1, SMT DEF RunTypeOK
<1>4. /\ Open(h)' /\ run'[h].session = s /\ run'[h].id = i /\ IdKey(h)' = <<s, i>>
      /\ \A g \in Handlers \ {h} : (Open(g)' <=> Open(g)) /\ IdKey(g)' = IdKey(g)
  BY <1>3 DEF Open, IdKey
<1>5. /\ s \in Keys(active') /\ (i # NoId => <<s, i>> \in Keys(seen'))
      /\ s \notin Keys(active) /\ (i # NoId => <<s, i>> \notin Keys(seen))
  BY <1>1, MapKeys DEF Replayed, Busy, Has
<1>6. /\ \A k \in Owned' : k \in Keys(active) \cup lost => k \in Keys(active') \cup lost'
      /\ \A k \in Owned' : k \in Keys(seen) \cup lost => k \in Keys(seen') \cup lost'
      /\ \A k \in Owned' : k \in lost => k \in lost'
  BY <1>2, WatchKeeps
<1>7. \A g \in Handlers : Open(g)' => run'[g].session \in Owned' /\ IdKey(g)' \in Owned'
  BY DEF Owned
<1>8. ASSUME NEW g \in Handlers, Open(g)'
      PROVE  /\ run'[g].session \in Keys(active') \cup lost'
             /\ run'[g].id # NoId => IdKey(g)' \in Keys(seen') \cup lost'
  <2>1. CASE g = h
    BY <1>4, <1>5, <2>1
  <2>2. CASE g # h
    BY <1>3, <1>4, <1>6, <1>7, <1>8, <2>2 DEF SessionAccounted, IdAccounted
  <2> QED BY <2>1, <2>2
<1>9. ASSUME NEW g \in Handlers \ {h}, Open(g)
      PROVE  /\ run[g].session = s => s \in lost'
             /\ IdKey(g) = <<s, i>> /\ i # NoId => <<s, i>> \in lost'
  <2>1. run[g].session = s => s \in lost
    BY <1>5, <1>9 DEF SessionAccounted
  <2>2. IdKey(g) = <<s, i>> /\ i # NoId => <<s, i>> \in lost
    BY <1>5, <1>9, SMT DEF IdAccounted, IdKey
  <2> QED BY <1>3, <1>4, <1>6, <1>7, <1>9, <2>1, <2>2
<1>10. OneRunPerSession'
  <2> SUFFICES ASSUME NEW f \in Handlers, NEW g \in Handlers, Open(f)', Open(g)',
                      run'[f].session = run'[g].session, f # g
               PROVE  run'[f].session \in lost'
    BY DEF OneRunPerSession
  <2>1. CASE f = h \/ g = h
    BY <1>3, <1>4, <1>9, <2>1
  <2>2. CASE f # h /\ g # h
    BY <1>3, <1>4, <1>6, <1>7, <2>2 DEF OneRunPerSession
  <2> QED BY <2>1, <2>2
<1>11. IdOpenOnce'
  <2> SUFFICES ASSUME NEW f \in Handlers, NEW g \in Handlers, Open(f)', Open(g)',
                      IdKey(f)' = IdKey(g)', run'[f].id # NoId, f # g
               PROVE  IdKey(f)' \in lost'
    BY DEF IdOpenOnce
  <2>1. CASE f = h
    BY <1>3, <1>4, <1>9, <2>1
  <2>2. CASE g = h
    <3>1. i # NoId
      BY <1>4, <2>2, SMT DEF IdKey
    <3> QED BY <1>3, <1>4, <1>9, <2>2, <3>1
  <2>3. CASE f # h /\ g # h
    BY <1>3, <1>4, <1>6, <1>7, <2>3 DEF IdOpenOnce
  <2> QED BY <2>1, <2>2, <2>3
<1>12. SessionAccounted' /\ IdAccounted'
  BY <1>8 DEF SessionAccounted, IdAccounted, Keys
<1> QED
  BY <1>3, <1>10, <1>11, <1>12

LEMMA CInvStep == CInv /\ [ChatNext]_chat => CInv'
<1> SUFFICES ASSUME CInv, [ChatNext]_chat PROVE CInv'
  OBVIOUS
<1>1. ASSUME NEW h \in Handlers, Refuse(h) \/ PullEnds(h) PROVE CInv'
  <2>1. RunTypeOK' /\ \A g \in Handlers : Open(g)' => Open(g) /\ run'[g] = run[g]
    BY <1>1, SMT DEF Refuse, PullEnds, Idle, Free, CInv, RunTypeOK, Open
  <2> QED BY <1>1, <2>1, FewerOpen DEF Refuse, PullEnds
<1>2. ASSUME NEW h \in Handlers, NEW last \in BOOLEAN, Release(h, last) PROVE CInv'
  <2>1. RunTypeOK' /\ \A g \in Handlers : Open(g)' => Open(g) /\ run'[g] = run[g]
    BY <1>2, SMT DEF Release, Free, CInv, RunTypeOK, Open
  <2> QED BY <1>2, <2>1, FewerOpen DEF Release
<1>3. ASSUME NEW h \in Handlers, UpstreamAuthFails(h) \/ HandlerThrows(h) PROVE CInv'
  <2>1. RunTypeOK' /\ \A g \in Handlers : Open(g)' => Open(g) /\ run'[g] = run[g]
    BY <1>3, SMT DEF UpstreamAuthFails, HandlerThrows, Free, CInv, RunTypeOK, Open
  <2> QED BY <1>3, <2>1, FewerOpen DEF UpstreamAuthFails, HandlerThrows
<1>4. ASSUME EntriesAge \/ UNCHANGED chat PROVE CInv'
  <2>1. RunTypeOK' /\ \A g \in Handlers : Open(g)' => Open(g) /\ run'[g] = run[g]
    BY <1>4 DEF EntriesAge, chat, CInv, RunTypeOK, Open
  <2> QED BY <1>4, <2>1, FewerOpen DEF EntriesAge, chat
<1>5. ASSUME NEW h \in Handlers, ChatStep(h) PROVE CInv'
  BY <1>1, <1>2, <1>3, <1>5, AcquireStep DEF ChatStep, ResponseEnds, StreamCancelled
<1> QED
  BY <1>4, <1>5 DEF ChatNext

(* The invariant, with the types of the runs.                              *)
THEOREM LockInvariant == ChatSpec => []CInv
BY InitCInv, CInvStep, PTL DEF ChatSpec

(* "Acquire an exclusive run lock": for any lifetimes and size of the maps *)
(* two open runs of a session have lost its entry to expiry, to eviction   *)
(* or to the release of an earlier run.                                    *)
THEOREM SessionsRunAlone == ChatSpec => []OneRunPerSession
<1>1. CInv => OneRunPerSession
  BY DEF CInv
<1> QED
  BY LockInvariant, <1>1, PTL

(* "Duplicate runId: do not start a second invoke", as long as the entry   *)
(* of the id stands.                                                       *)
THEOREM RunIdsRunOnce == ChatSpec => []IdOpenOnce
<1>1. CInv => IdOpenOnce
  BY DEF CInv
<1> QED
  BY LockInvariant, <1>1, PTL

(***************************************************************************)
(* The maps of the run lock: the keys of one are ordered, each after those *)
(* that are older, and never more than MAX_KEYS.  One bound needs the      *)
(* other part: only because a full map has a key with none older does the  *)
(* eviction make room.                                                     *)
(***************************************************************************)
Entries(map) ==
  \A k \in Keys(map) : /\ map[k] = [left |-> map[k].left, older |-> map[k].older]
                       /\ map[k].older \subseteq Keys(map) \ {k}
InOrder(map) ==
  /\ \A k \in Keys(map) : \A l \in map[k].older : map[l].older \subseteq map[k].older
  /\ \A k, l \in Keys(map) : k # l => k \in map[l].older \/ l \in map[k].older
Bounded(map) == IsFiniteSet(Keys(map)) /\ Cardinality(Keys(map)) <= MaxKeys
MapOK(map) == Entries(map) /\ InOrder(map) /\ Bounded(map)

(* BoundedTTLMap's maxKeys, for either map.                                *)
MapsAreBounded == Bounded(active) /\ Bounded(seen)

LEMMA Fields ==
  ASSUME NEW entry, NEW left, NEW older, entry = [left |-> left, older |-> older]
  PROVE  entry = [left |-> entry.left, older |-> entry.older] /\ entry.older = older
OBVIOUS

(* A map that holds anything has an oldest entry, the one evictOldest      *)
(* drops, and no other.                                                    *)
LEMMA OldestExists ==
  ASSUME NEW map, Entries(map), InOrder(map), IsFiniteSet(Keys(map)), Keys(map) # {}
  PROVE  /\ Oldest(map) \in Keys(map) /\ map[Oldest(map)].older = {}
         /\ \A k \in Keys(map) : map[k].older = {} => k = Oldest(map)
<1> DEFINE size(k) == Cardinality(map[k].older)
           sizes == {size(k) : k \in Keys(map)}
<1>1. \A k \in Keys(map) : IsFiniteSet(map[k].older) /\ size(k) \in Nat
  <2> SUFFICES ASSUME NEW k \in Keys(map) PROVE IsFiniteSet(map[k].older) /\ size(k) \in Nat
    OBVIOUS
  <2>1. map[k].older \in SUBSET Keys(map)
    BY DEF Entries
  <2> QED BY <2>1, FS_Subset, FS_CardinalityType
<1>2. sizes \in SUBSET Nat /\ sizes # {}
  BY <1>1
<1>3. PICK k \in Keys(map) : \A l \in Keys(map) : size(k) <= size(l)
  <2>1. Min(sizes) \in sizes /\ \A n \in sizes : Min(sizes) <= n
    <3> HIDE DEF sizes
    <3> QED BY <1>2, MinExists
  <2>2. PICK k \in Keys(map) : Min(sizes) = size(k)
    BY <2>1
  <2>3. \A l \in Keys(map) : size(l) \in sizes
    OBVIOUS
  <2> HIDE DEF sizes, size
  <2> QED BY <2>1, <2>2, <2>3, Zenon
<1>4. map[k].older = {}
  <2> SUFFICES ASSUME NEW l \in map[k].older PROVE FALSE
    OBVIOUS
  <2>1. l \in Keys(map) /\ map[l].older \in SUBSET map[k].older /\ l \notin map[l].older
    BY DEF Entries, InOrder
  <2>2. size(l) <= size(k) /\ size(l) # size(k)
    BY <1>1, <2>1, FS_Subset, Zenon
  <2>3. size(k) <= size(l)
    BY <1>3, <2>1
  <2> HIDE DEF size
  <2> QED BY <1>1, <2>1, <2>2, <2>3, SMT
<1>5. Oldest(map) \in Keys(map) /\ map[Oldest(map)].older = {}
  BY <1>4, Zenon DEF Oldest
<1>6. ASSUME NEW l \in Keys(map), map[l].older = {} PROVE l = Oldest(map)
  BY <1>5, <1>6, Zenon DEF InOrder
<1> QED
  BY <1>5, <1>6

LEMMA WithoutKeeps ==
  ASSUME NEW map, NEW gone, MapOK(map)
  PROVE  MapOK(Without(map, gone))
<1> DEFINE rest == Without(map, gone)
<1>1. /\ Keys(rest) = Keys(map) \ gone
      /\ \A k \in Keys(rest) : /\ rest[k] = [left |-> rest[k].left, older |-> rest[k].older]
                              /\ rest[k].older = map[k].older \ gone
  <2>1. Keys(rest) = Keys(map) \ gone
    BY DEF Keys, Without
  <2>2. ASSUME NEW k \in Keys(rest)
        PROVE  /\ rest[k] = [left |-> rest[k].left, older |-> rest[k].older]
               /\ rest[k].older = map[k].older \ gone
    <3>1. rest[k] = [map[k] EXCEPT !.older = @ \ gone]
      BY <2>2 DEF Keys, Without
    <3>2. map[k] = [left |-> map[k].left, older |-> map[k].older]
      BY <2>1, <2>2 DEF MapOK, Entries
    <3>3. rest[k] = [left |-> map[k].left, older |-> map[k].older \ gone]
      BY <3>1, <3>2
    <3> HIDE DEF rest
    <3> QED BY <3>3, Fields, Zenon
  <2> QED BY <2>1, <2>2
<1>2. Bounded(rest)
  <2>1. Keys(rest) \in SUBSET Keys(map)
    BY <1>1
  <2>2. /\ IsFiniteSet(Keys(rest)) /\ Cardinality(Keys(rest)) <= Cardinality(Keys(map))
        /\ Cardinality(Keys(rest)) \in Nat /\ Cardinality(Keys(map)) \in Nat
    <3> HIDE DEF rest
    <3> QED BY <2>1, FS_Subset, FS_CardinalityType DEF MapOK, Bounded
  <2> HIDE DEF rest
  <2> QED BY <2>2, ChatAssumption, SMT DEF MapOK, Bounded
<1> HIDE DEF rest
<1>3. \A k \in Keys(rest) : k \in Keys(map) /\ rest[k].older = map[k].older \ gone
  BY <1>1
<1>4. Entries(rest)
  <2> SUFFICES ASSUME NEW k \in Keys(rest)
               PROVE  /\ rest[k] = [left |-> rest[k].left, older |-> rest[k].older]
                      /\ rest[k].older \subseteq Keys(rest) \ {k}
    BY DEF Entries
  <2>1. map[k].older \subseteq Keys(map) \ {k}
    BY <1>3 DEF MapOK, Entries
  <2> QED BY <1>1, <1>3, <2>1
<1>5. InOrder(rest)
  <2>1. ASSUME NEW k \in Keys(rest), NEW l \in rest[k].older
        PROVE  rest[l].older \subseteq rest[k].older
    <3>1. l \in Keys(rest) /\ l \in map[k].older
      BY <1>3, <1>4, <2>1 DEF Entries
    <3>2. map[l].older \subseteq map[k].older
      BY <1>3, <3>1 DEF MapOK, InOrder
    <3> QED BY <1>3, <3>1, <3>2
  <2>2. ASSUME NEW k \in Keys(rest), NEW l \in Keys(rest), k # l
        PROVE  k \in rest[l].older \/ l \in rest[k].older
    <3>1. k \in map[l].older \/ l \in map[k].older
      BY <1>3, <2>2 DEF MapOK, InOrder
    <3> QED BY <1>1, <1>3, <3>1
  <2> QED BY <2>1, <2>2 DEF InOrder
<1> QED
  BY <1>2, <1>4, <1>5 DEF MapOK, rest

LEMMA OlderKeeps ==
  ASSUME NEW map, MapOK(map)
  PROVE  MapOK(Older(map))
<1> DEFINE kept == Without(map, Expiring(map))
           aged == [k \in Keys(kept) |-> [kept[k] EXCEPT !.left = @ - 1]]
<1>1. Older(map) = aged
  BY DEF Older
<1>2. MapOK(kept)
  BY WithoutKeeps
<1> HIDE DEF kept
<1>3. /\ Keys(aged) = Keys(kept)
      /\ \A k \in Keys(kept) : /\ aged[k] = [left |-> aged[k].left, older |-> aged[k].older]
                              /\ aged[k].older = kept[k].older
  <2>1. Keys(aged) = Keys(kept)
    BY DEF Keys
  <2>2. ASSUME NEW k \in Keys(kept)
        PROVE  /\ aged[k] = [left |-> aged[k].left, older |-> aged[k].older]
               /\ aged[k].older = kept[k].older
    <3>1. kept[k] = [left |-> kept[k].left, older |-> kept[k].older]
      BY <1>2, <2>2 DEF MapOK, Entries
    <3>2. aged[k] = [kept[k] EXCEPT !.left = @ - 1]
      BY <2>2 DEF Keys
    <3>3. aged[k] = [left |-> kept[k].left - 1, older |-> kept[k].older]
      BY <3>1, <3>2
    <3> HIDE DEF aged
    <3> QED BY <3>3, Fields, Zenon
  <2> QED BY <2>1, <2>2
<1> HIDE DEF aged
<1>4. \A k \in Keys(aged) : aged[k].older = kept[k].older
  BY <1>3
<1>5. Entries(aged)
  BY <1>2, <1>3, <1>4 DEF MapOK, Entries
<1>6. InOrder(aged)
  <2>1. ASSUME NEW k \in Keys(aged), NEW l \in aged[k].older
        PROVE  aged[l].older \subseteq aged[k].older
    <3>1. l \in Keys(aged) /\ l \in kept[k].older
      BY <1>4, <1>5, <2>1 DEF Entries
    <3> QED BY <1>2, <1>3, <1>4, <3>1 DEF MapOK, InOrder
  <2>2. ASSUME NEW k \in Keys(aged), NEW l \in Keys(aged), k # l
        PROVE  k \in aged[l].older \/ l \in aged[k].older
    BY <1>2, <1>3, <1>4, <2>2 DEF MapOK, InOrder
  <2> QED BY <2>1, <2>2 DEF InOrder
<1>7. Bounded(aged)
  BY <1>2, <1>3 DEF MapOK, Bounded
<1> QED
  BY <1>1, <1>5, <1>6, <1>7 DEF MapOK

(* A new entry comes after all others; there must be room for it.          *)
LEMMA AddedKeeps ==
  ASSUME NEW map, NEW key, NEW ttl, MapOK(map), key \notin Keys(map),
         Cardinality(Keys(map)) < MaxKeys
  PROVE  MapOK(Added(map, key, ttl))
<1> DEFINE more == Added(map, key, ttl)
<1>1. /\ Keys(more) = Keys(map) \cup {key}
      /\ more[key] = [left |-> ttl, older |-> Keys(map)]
      /\ \A k \in Keys(map) : more[k] = map[k]
  BY DEF Keys, Added
<1> HIDE DEF more
<1>2. Bounded(more)
  <2>1. /\ IsFiniteSet(Keys(more)) /\ Cardinality(Keys(more)) = Cardinality(Keys(map)) + 1
        /\ Cardinality(Keys(map)) \in Nat
    BY <1>1, FS_AddElement, FS_CardinalityType DEF MapOK, Bounded
  <2> QED BY <2>1, ChatAssumption, SMT DEF Bounded
<1>3. Entries(more)
  <2> SUFFICES ASSUME NEW k \in Keys(more)
               PROVE  /\ more[k] = [left |-> more[k].left, older |-> more[k].older]
                      /\ more[k].older \subseteq Keys(more) \ {k}
    BY DEF Entries
  <2>1. CASE k = key
    BY <1>1, <2>1, Fields
  <2>2. CASE k # key
    BY <1>1, <2>2 DEF MapOK, Entries
  <2> QED BY <2>1, <2>2
<1>4. InOrder(more)
  <2>1. ASSUME NEW k \in Keys(more), NEW l \in more[k].older
        PROVE  more[l].older \subseteq more[k].older
    <3>1. l \in Keys(map) /\ map[l].older \subseteq Keys(map)
      <4>1. \A j \in Keys(map) : map[j].older \subseteq Keys(map)
        BY DEF MapOK, Entries
      <4>2. more[key].older = Keys(map)
        BY <1>1, Fields, Zenon
      <4>3. l \in Keys(map)
        BY <1>1, <2>1, <4>1, <4>2
      <4> QED BY <4>1, <4>3
    <3>2. CASE k = key
      BY <1>1, <3>1, <3>2, Fields
    <3>3. CASE k # key
      BY <1>1, <2>1, <3>1, <3>3 DEF MapOK, InOrder
    <3> QED BY <3>2, <3>3
  <2>2. ASSUME NEW k \in Keys(more), NEW l \in Keys(more), k # l
        PROVE  k \in more[l].older \/ l \in more[k].older
    BY <1>1, <2>2 DEF MapOK, InOrder
  <2> QED BY <2>1, <2>2 DEF InOrder
<1> QED
  BY <1>2, <1>3, <1>4 DEF MapOK, more

LEMMA PutKeeps ==
  ASSUME NEW map, NEW key, NEW ttl, MapOK(map)
  PROVE  MapOK(Put(map, key, ttl))
<1>1. CASE Has(map, key)
  <2> DEFINE same == [map EXCEPT ![key].left = ttl]
  <2>1. /\ Keys(same) = Keys(map)
        /\ \A k \in Keys(map) : /\ same[k] = [left |-> same[k].left, older |-> same[k].older]
                                /\ same[k].older = map[k].older
    <3>1. Keys(same) = Keys(map)
      BY DEF Keys
    <3>2. ASSUME NEW k \in Keys(map)
          PROVE  /\ same[k] = [left |-> same[k].left, older |-> same[k].older]
                 /\ same[k].older = map[k].older
      <4>1. map[k] = [left |-> map[k].left, older |-> map[k].older]
        BY <3>2 DEF MapOK, Entries
      <4>2. CASE k = key
        <5>1. same[k] = [map[k] EXCEPT !.left = ttl]
          BY <3>2, <4>2 DEF Keys
        <5> QED BY <4>1, <5>1
      <4>3. CASE k # key
        <5>1. same[k] = map[k]
          BY <3>2, <4>3 DEF Keys
        <5> QED BY <4>1, <5>1
      <4> QED BY <4>2, <4>3
    <3> QED BY <3>1, <3>2
  <2>2. Put(map, key, ttl) = same
    BY <1>1 DEF Put
  <2> HIDE DEF same
  <2>3. Entries(same) /\ Bounded(same)
    BY <2>1 DEF MapOK, Entries, Bounded
  <2>4. InOrder(same)
    <3>1. ASSUME NEW k \in Keys(same), NEW l \in same[k].older
          PROVE  same[l].older \subseteq same[k].older
      <4>1. l \in Keys(same) /\ l \in map[k].older
        BY <2>1, <2>3, <3>1 DEF Entries
      <4> QED BY <2>1, <4>1 DEF MapOK, InOrder
    <3>2. ASSUME NEW k \in Keys(same), NEW l \in Keys(same), k # l
          PROVE  k \in same[l].older \/ l \in same[k].older
      BY <2>1, <3>2 DEF MapOK, InOrder
    <3> QED BY <3>1, <3>2 DEF InOrder
  <2> QED BY <2>2, <2>3, <2>4 DEF MapOK
<1>2. CASE ~Has(map, key)
  <2> DEFINE room == IF Full(map, key) THEN Deleted(map, Oldest(map)) ELSE map
  <2>1. Put(map, key, ttl) = Added(room, key, ttl)
    BY <1>2 DEF Put
  <2>2. Cardinality(Keys(map)) \in Nat
    BY FS_CardinalityType DEF MapOK, Bounded
  <2>3. MapOK(room) /\ key \notin Keys(room) /\ Cardinality(Keys(room)) < MaxKeys
    <3>1. CASE Full(map, key)
      <4>1. Cardinality(Keys(map)) >= MaxKeys
        BY <3>1 DEF Full
      <4>2. Keys(map) # {}
        BY <2>2, <4>1, ChatAssumption, FS_EmptySet, SMT
      <4>3. Oldest(map) \in Keys(map)
        BY <4>2, OldestExists DEF MapOK, Bounded
      <4>4. MapOK(room) /\ Keys(room) = Keys(map) \ {Oldest(map)}
        BY <3>1, WithoutKeeps, MapKeys DEF Deleted
      <4>5. Cardinality(Keys(room)) = Cardinality(Keys(map)) - 1
        BY <4>3, <4>4, FS_RemoveElement DEF MapOK, Bounded
      <4> HIDE DEF room
      <4> QED BY <1>2, <2>2, <4>4, <4>5, ChatAssumption, SMT DEF MapOK, Bounded, Has
    <3>2. CASE ~Full(map, key)
      BY <1>2, <2>2, <3>2, ChatAssumption, SMT DEF Full, Has
    <3> QED BY <3>1, <3>2
  <2> HIDE DEF room
  <2> QED BY <2>1, <2>3, AddedKeeps
<1> QED
  BY <1>1, <1>2

LEMMA MapsStep == MapOK(active) /\ MapOK(seen) /\ [ChatNext]_chat => (MapOK(active) /\ MapOK(seen))'
<1> SUFFICES ASSUME MapOK(active), MapOK(seen), [ChatNext]_chat PROVE MapOK(active') /\ MapOK(seen')
  BY DEF MapOK, Entries, InOrder, Bounded, Keys
<1> USE WithoutKeeps, PutKeeps, OlderKeeps
<1>1. ASSUME NEW h \in Handlers, ChatStep(h) PROVE MapOK(active') /\ MapOK(seen')
  <2>1. CASE Refuse(h) \/ PullEnds(h) \/ HandlerThrows(h)
    BY <2>1 DEF Refuse, PullEnds, HandlerThrows
  <2>2. CASE Acquire(h)
    BY <2>2 DEF Acquire
  <2>3. ASSUME NEW last \in BOOLEAN, Release(h, last) PROVE MapOK(active') /\ MapOK(seen')
    BY <2>3 DEF Release, Deleted
  <2>4. CASE UpstreamAuthFails(h)
    BY <2>4 DEF UpstreamAuthFails, Deleted
  <2> QED BY <1>1, <2>1, <2>2, <2>3, <2>4 DEF ChatStep, ResponseEnds, StreamCancelled
<1>2. CASE EntriesAge
  BY <1>2 DEF EntriesAge
<1>3. CASE UNCHANGED chat
  BY <1>3 DEF chat
<1> QED
  BY <1>1, <1>2, <1>3 DEF ChatNext

(* BoundedTTLMap's maxKeys: whatever is put, ages or is deleted, neither   *)
(* map ever holds more than MAX_KEYS entries.                              *)
THEOREM MapsStayBounded == ChatSpec => []MapsAreBounded
<1>1. ChatInit => MapOK(active) /\ MapOK(seen)
  <2>1. MapOK(Empty)
    <3>1. Keys(Empty) = {}
      BY DEF Keys, Empty
    <3> QED BY <3>1, ChatAssumption, FS_EmptySet, SMT DEF MapOK, Entries, InOrder, Bounded
  <2> QED BY <2>1 DEF ChatInit
<1>2. MapOK(active) /\ MapOK(seen) => MapsAreBounded
  BY DEF MapOK, MapsAreBounded
<1> QED
  BY <1>1, <1>2, MapsStep, PTL DEF ChatSpec

-----------------------------------------------------------------------------
(***************************************************************************)
(* The circuit breaker.                                                    *)
(***************************************************************************)
OpenIsSealed == circuit = "OPEN" /\ wait > 0 => \A c \in Callers : Calling(c) => c \in stale

BInv == BreakerTypeOK /\ ClosedBelowThreshold /\ OpenIsSealed

LEMMA InitBInv == BreakerInit => BInv
BY ThresholdAssumption, RecoveryAssumption, SMT
   DEF BreakerInit, BInv, BreakerTypeOK, ClosedBelowThreshold, OpenIsSealed, Calling

LEMMA BInvStep == BInv /\ [BreakerNext]_breaker => BInv'
<1> SUFFICES ASSUME BInv, [BreakerNext]_breaker PROVE BInv'
  OBVIOUS
<1> USE ThresholdAssumption, RecoveryAssumption
    DEF BInv, BreakerTypeOK, ClosedBelowThreshold, OpenIsSealed, Calling, Comes
<1>1. ASSUME NEW c \in Callers, Reject(c) PROVE BInv'
  BY <1>1, SMT DEF Reject
<1>2. ASSUME NEW c \in Callers, Enter(c) PROVE BInv'
  BY <1>2, SMT DEF Enter
<1>3. ASSUME NEW c \in Callers, ExitFailed(c) PROVE BInv'
  <2>1. failures' \in 1 .. Threshold /\ (failures' >= Threshold \/ failures' < Threshold)
    BY <1>3, SMT DEF ExitFailed, Counted
  <2> QED
    BY <1>3, <2>1, SMT DEF ExitFailed
<1>4. ASSUME NEW c \in Callers, ExitDone(c) PROVE BInv'
  BY <1>4, SMT DEF ExitDone
<1>5. CASE RecoveryTick
  BY <1>5, SMT DEF RecoveryTick
<1>6. CASE UNCHANGED breaker
  BY <1>6, SMT DEF breaker
<1> QED
  BY <1>1, <1>2, <1>3, <1>4, <1>5, <1>6 DEF BreakerNext, BreakerStep

(* The invariant, with the breaker's type and the meaning of its count. *)
THEOREM BreakerInvariant == BreakerSpec => []BInv
BY InitBInv, BInvStep, PTL DEF BreakerSpec

(* A breaker that is not closed has counted a failure, and a closed one    *)
(* has room for one.                                                       *)
THEOREM CountTellsState == BreakerSpec => []ClosedBelowThreshold
<1>1. BInv => ClosedBelowThreshold
  BY DEF BInv
<1> QED
  BY BreakerInvariant, <1>1, PTL

(* Before its recovery time is over, only an answer to an old call ends    *)
(* the open state.                                                         *)
THEOREM EarlyCloseByOldCall == BreakerSpec => EarlyCloseIsStale
<1>1. BInv /\ [BreakerNext]_breaker =>
        [circuit = "OPEN" /\ wait > 0 /\ circuit' # "OPEN" =>
           \E c \in stale : Calling(c) /\ call'[c] = "done"]_breaker
  <2> SUFFICES ASSUME BInv, BreakerNext, circuit = "OPEN", wait > 0, circuit' # "OPEN"
               PROVE  \E c \in stale : Calling(c) /\ call'[c] = "done"
    BY Zenon
  <2> USE ThresholdAssumption DEF BInv, BreakerTypeOK, OpenIsSealed
  <2>1. PICK c \in Callers : BreakerStep(c)
    BY SMT DEF BreakerNext, RecoveryTick
  <2>2. ~Reject(c) /\ ~Enter(c)
    BY SMT DEF Reject, Enter
  <2>3. ~ExitFailed(c)
    BY SMT DEF ExitFailed
  <2>4. ExitDone(c)
    BY <2>1, <2>2, <2>3 DEF BreakerStep
  <2> QED
    BY <2>4, SMT DEF ExitDone, Comes, Calling
<1> QED
  BY BreakerInvariant, <1>1, PTL DEF BreakerSpec, EarlyCloseIsStale
-----------------------------------------------------------------------------
(***************************************************************************)
(* The rate limiter.  Each bucket has one place; its times are in order,   *)
(* as are the last times of the places; those still in the window are the  *)
(* ones let through.  The lemmas read InWindow as the slice that follows   *)
(* the last expired time.                                                  *)
(***************************************************************************)
Deques == Seq(Nat)
Sorted(ages) == \A i, j \in DOMAIN ages : i <= j => ages[j] <= ages[i]

(* n is where the times still in the window begin. *)
Splits(ages, n) ==
  /\ n \in 1..Len(ages) + 1
  /\ \A i \in 1..Len(ages) : (i < n => ages[i] > Window) /\ (i >= n => ages[i] <= Window)

LEMMA SplitExists ==
  ASSUME NEW ages \in Deques, Sorted(ages)
  PROVE  \E n \in 1..Len(ages) + 1 : Splits(ages, n)
<1> DEFINE recent == {i \in DOMAIN ages : ages[i] <= Window}
<1> USE LimiterAssumption
<1>1. recent \in SUBSET Nat /\ Len(ages) \in Nat
  BY SMT DEF Deques
<1>2. CASE recent = {}
  <2>1. Splits(ages, Len(ages) + 1)
    BY <1>1, <1>2, SMT DEF Splits, Deques
  <2> QED BY <1>1, <2>1, SMT
<1>3. CASE recent # {}
  <2>1. PICK n \in recent : \A j \in recent : n <= j
    <3> HIDE DEF recent
    <3> QED BY <1>1, <1>3, MinExists, Zenon
  <2>2. Splits(ages, n) /\ n \in 1..Len(ages) + 1
    BY <2>1, SMT DEF Splits, Sorted, Deques
  <2> QED BY <2>2
<1> QED BY <1>2, <1>3

LEMMA SplitSlices ==
  ASSUME NEW ages \in Deques, NEW n, Splits(ages, n)
  PROVE  /\ InWindow(ages) = SubSeq(ages, n, Len(ages))
         /\ InWindow(ages) \in Deques
         /\ Len(InWindow(ages)) = Len(ages) + 1 - n
         /\ \A i \in 1..Len(ages) + 1 - n : InWindow(ages)[i] = ages[n + i - 1]
<1> DEFINE recent == {i \in DOMAIN ages : ages[i] <= Window}
<1> USE LimiterAssumption
<1>1. recent \in SUBSET Nat /\ Len(ages) \in Nat /\ n \in 1..Len(ages) + 1
  BY SMT DEF Deques, Splits
<1>2. InWindow(ages) = SubSeq(ages, n, Len(ages))
  <2>1. CASE recent = {}
    <3>1. n = Len(ages) + 1
      BY <1>1, <2>1, SMT DEF Splits, Deques
    <3>2. InWindow(ages) = <<>> /\ SubSeq(ages, n, Len(ages)) = <<>>
      BY <1>1, <2>1, <3>1, SMT DEF InWindow, Deques
    <3> QED BY <3>2
  <2>2. CASE recent # {}
    <3>1. Min(recent) \in recent /\ \A j \in recent : Min(recent) <= j
      <4> HIDE DEF recent
      <4> QED BY <1>1, <2>2, MinExists, Zenon
    <3>2. n \in recent /\ \A j \in recent : n <= j
      BY <1>1, <2>2, SMT DEF Splits, Deques
    <3>3. Min(recent) = n
      <4> HIDE DEF recent
      <4>1. /\ Min(recent) \in Nat /\ n \in Nat
            /\ Min(recent) <= n /\ n <= Min(recent)
        BY <1>1, <3>1, <3>2, Zenon
      <4> QED BY <4>1, SMT
    <3> QED BY <2>2, <3>3 DEF InWindow
  <2> QED BY <2>1, <2>2
<1> QED
  BY <1>1, <1>2, SMT DEF Deques

LEMMA AllInWindow ==
  ASSUME NEW ages \in Deques, \A i \in DOMAIN ages : ages[i] <= Window
  PROVE  InWindow(ages) = ages
<1>1. Splits(ages, 1)
  BY SMT DEF Splits, Deques
<1>2. InWindow(ages) = SubSeq(ages, 1, Len(ages))
  BY <1>1, SplitSlices
<1> QED
  BY <1>2, SMT DEF Deques

(* What is left of a deque is a deque in order, all of it in the window,   *)
(* and ends as the deque did.                                              *)
LEMMA InWindowKeeps ==
  ASSUME NEW ages \in Deques, Sorted(ages)
  PROVE  /\ InWindow(ages) \in Deques /\ Sorted(InWindow(ages))
         /\ \A i \in DOMAIN InWindow(ages) : InWindow(ages)[i] <= Window
         /\ InWindow(ages) # <<>> => Last(InWindow(ages)) = Last(ages)
         /\ InWindow(ages) = <<>> <=> ages = <<>> \/ Last(ages) > Window
<1>1. PICK n \in 1..Len(ages) + 1 : Splits(ages, n)
  BY SplitExists
<1> DEFINE left == InWindow(ages)
<1>2. /\ left \in Deques /\ Len(left) = Len(ages) + 1 - n
      /\ \A i \in 1..Len(ages) + 1 - n : left[i] = ages[n + i - 1]
  BY <1>1, SplitSlices
<1> HIDE DEF left
<1>3. Len(ages) \in Nat /\ n \in Nat /\ DOMAIN left = 1..Len(ages) + 1 - n
  BY <1>2, SMT DEF Deques
<1>4. ASSUME NEW i \in DOMAIN left
      PROVE  /\ left[i] = ages[n + i - 1] /\ n + i - 1 \in 1..Len(ages)
             /\ left[i] <= Window
  BY <1>1, <1>2, <1>3, SMT DEF Splits
<1>5. Sorted(left)
  <2> SUFFICES ASSUME NEW i \in DOMAIN left, NEW j \in DOMAIN left, i <= j
               PROVE  left[j] <= left[i]
    BY DEF Sorted
  <2>1. n + i - 1 \in DOMAIN ages /\ n + j - 1 \in DOMAIN ages /\ n + i - 1 <= n + j - 1
    BY <1>3, <1>4, SMT DEF Deques
  <2>2. ages[n + j - 1] <= ages[n + i - 1]
    BY <2>1 DEF Sorted
  <2> QED BY <1>4, <2>2
<1>6. CASE n = Len(ages) + 1
  <2>1. left = <<>>
    BY <1>2, <1>3, <1>6, SMT DEF Deques
  <2>2. ages = <<>> \/ Last(ages) > Window
    BY <1>1, <1>3, <1>6, SMT DEF Splits, Last, Deques
  <2> QED BY <1>2, <1>4, <1>5, <2>1, <2>2 DEF left
<1>7. CASE n <= Len(ages)
  <2>1. /\ left # <<>> /\ ages # <<>> /\ Last(ages) <= Window /\ Last(left) = Last(ages)
        /\ Last(ages) \in Nat
    BY <1>1, <1>2, <1>3, <1>7, SMT DEF Splits, Last, Deques
  <2>2. ~(Last(ages) > Window)
    BY <2>1, LimiterAssumption, SMT
  <2> QED BY <1>2, <1>4, <1>5, <2>1, <2>2 DEF left
<1> QED
  BY <1>3, <1>6, <1>7, SMT

LEMMA AgedKeeps ==
  ASSUME NEW ages \in Deques
  PROVE  /\ Aged(ages) \in Deques /\ Len(Aged(ages)) = Len(ages)
         /\ \A i \in DOMAIN ages :
              Aged(ages)[i] = IF ages[i] > Window THEN ages[i] ELSE ages[i] + 1
         /\ Sorted(ages) => Sorted(Aged(ages))
<1> USE LimiterAssumption
<1>1. Len(ages) \in Nat /\ DOMAIN ages = 1..Len(ages)
  BY SMT DEF Deques
<1>2. /\ Aged(ages) \in Deques /\ Len(Aged(ages)) = Len(ages)
  BY <1>1, SMT DEF Aged, Deques
<1>3. \A i \in DOMAIN ages : Aged(ages)[i] = IF ages[i] > Window THEN ages[i] ELSE ages[i] + 1
  BY DEF Aged
<1>4. Sorted(ages) => Sorted(Aged(ages))
  <2> SUFFICES ASSUME Sorted(ages), NEW i \in 1..Len(ages), NEW j \in 1..Len(ages), i <= j
               PROVE  Aged(ages)[j] <= Aged(ages)[i]
    BY <1>1 DEF Sorted, Aged
  <2>1. ages[j] <= ages[i] /\ ages[j] \in Nat /\ ages[i] \in Nat
    BY <1>1, SMT DEF Sorted, Deques
  <2> QED BY <1>1, <1>3, <2>1, SMT
<1> QED
  BY <1>2, <1>3, <1>4

(* Dropping the expired times before time passes makes no difference.      *)
LEMMA AgedWindow ==
  ASSUME NEW ages \in Deques, Sorted(ages)
  PROVE  InWindow(Aged(InWindow(ages))) = InWindow(Aged(ages))
<1> DEFINE left == InWindow(ages)
<1>1. PICK n \in 1..Len(ages) + 1 : Splits(ages, n)
  BY SplitExists
<1>2. /\ left \in Deques /\ Len(left) = Len(ages) + 1 - n
      /\ \A i \in 1..Len(ages) + 1 - n : left[i] = ages[n + i - 1]
  BY <1>1, SplitSlices
<1> HIDE DEF left
<1> DEFINE old == Aged(ages)  new == Aged(left)
<1>3. /\ old \in Deques /\ Len(old) = Len(ages) /\ Sorted(old)
      /\ \A i \in 1..Len(ages) : old[i] = IF ages[i] > Window THEN ages[i] ELSE ages[i] + 1
  BY AgedKeeps, SMT DEF Deques
<1>4. /\ new \in Deques /\ Len(new) = Len(left)
      /\ \A i \in 1..Len(left) : new[i] = IF left[i] > Window THEN left[i] ELSE left[i] + 1
  <2>1. DOMAIN left = 1..Len(left)
    BY <1>2, SMT DEF Deques
  <2> QED BY <1>2, <2>1, AgedKeeps
<1> HIDE DEF old, new
<1>5. Len(ages) \in Nat /\ n \in Nat
  BY SMT DEF Deques
<1>6. ASSUME NEW i \in 1..Len(ages) + 1 - n
      PROVE  new[i] = old[n + i - 1] /\ n + i - 1 \in 1..Len(ages)
  <2>1. n + i - 1 \in 1..Len(ages) /\ i \in 1..Len(left)
    BY <1>2, <1>5, SMT
  <2> QED BY <1>2, <1>3, <1>4, <2>1, SMT
<1>7. PICK m \in 1..Len(old) + 1 : Splits(old, m)
  BY <1>3, SplitExists
<1>8. m >= n
  <2> SUFFICES ASSUME m < n PROVE FALSE
    BY <1>5, <1>7, <1>3, SMT
  <2>1. m \in 1..Len(ages) /\ ages[m] > Window
    BY <1>1, <1>3, <1>5, <1>7, SMT DEF Splits
  <2>2. old[m] > Window /\ old[m] <= Window /\ old[m] \in Nat
    BY <1>3, <1>7, <2>1, SMT DEF Splits, Deques
  <2> QED BY <2>2, LimiterAssumption, SMT
<1>9. Splits(new, m + 1 - n)
  <2>1. m + 1 - n \in 1..Len(new) + 1
    BY <1>2, <1>3, <1>4, <1>5, <1>7, <1>8, SMT
  <2>2. ASSUME NEW i \in 1..Len(new)
        PROVE  (i < m + 1 - n => new[i] > Window) /\ (i >= m + 1 - n => new[i] <= Window)
    <3>1. new[i] = old[n + i - 1] /\ n + i - 1 \in 1..Len(old)
      BY <1>2, <1>3, <1>4, <1>6
    <3>2. (n + i - 1 < m <=> i < m + 1 - n) /\ (n + i - 1 >= m <=> i >= m + 1 - n)
      BY <1>2, <1>4, <1>5, <1>7, <1>3, SMT
    <3> QED BY <1>7, <3>1, <3>2 DEF Splits
  <2> QED BY <2>1, <2>2 DEF Splits
<1>10. PICK a : /\ a = InWindow(new) /\ a \in Deques /\ Len(a) = Len(new) + 1 - (m + 1 - n)
                /\ \A i \in 1..Len(new) + 1 - (m + 1 - n) : a[i] = new[(m + 1 - n) + i - 1]
  <2> DEFINE k == m + 1 - n
  <2> HIDE DEF k
  <2>1. Splits(new, k)
    BY <1>9 DEF k
  <2>2. /\ InWindow(new) \in Deques /\ Len(InWindow(new)) = Len(new) + 1 - k
        /\ \A i \in 1..Len(new) + 1 - k : InWindow(new)[i] = new[k + i - 1]
    BY <1>4, <2>1, SplitSlices
  <2> QED BY <2>2 DEF k
<1>11. PICK b : /\ b = InWindow(old) /\ b \in Deques /\ Len(b) = Len(old) + 1 - m
                /\ \A i \in 1..Len(old) + 1 - m : b[i] = old[m + i - 1]
  <2>1. /\ InWindow(old) \in Deques /\ Len(InWindow(old)) = Len(old) + 1 - m
        /\ \A i \in 1..Len(old) + 1 - m : InWindow(old)[i] = old[m + i - 1]
    <3>1. old \in Deques /\ Splits(old, m)
      BY <1>3, <1>7
    <3> QED BY <3>1, SplitSlices, Zenon
  <2> QED BY <2>1
<1>12. Len(a) = Len(b)
  BY <1>2, <1>3, <1>4, <1>5, <1>7, <1>10, <1>11, SMT
<1>13. ASSUME NEW i \in 1..Len(b) PROVE a[i] = b[i]
  <2>1. m - n + i \in 1..Len(ages) + 1 - n /\ n + (m - n + i) - 1 = m + i - 1
        /\ (m + 1 - n) + i - 1 = m - n + i
    BY <1>3, <1>5, <1>7, <1>8, <1>11, SMT
  <2>2. new[m - n + i] = old[m + i - 1]
    BY <1>6, <2>1
  <2>3. i \in 1..Len(old) + 1 - m /\ i \in 1..Len(new) + 1 - (m + 1 - n)
    BY <1>10, <1>11, <1>12
  <2> QED BY <1>10, <1>11, <2>1, <2>2, <2>3
<1>14. a = b
  <2>1. a = [i \in 1..Len(a) |-> a[i]] /\ b = [i \in 1..Len(b) |-> b[i]]
    BY <1>10, <1>11, SMT DEF Deques
  <2> QED BY <1>12, <1>13, <2>1, Zenon
<1> QED
  BY <1>10, <1>11, <1>14 DEF old, new, left

LEMMA LastIsNat ==
  ASSUME NEW ages \in Deques, ages # <<>>
  PROVE  Last(ages) \in Nat
BY SMT DEF Deques, Last

Rows == [bucket : Buckets, ages : Deques]

Ordered(ws) ==
  /\ \A i \in DOMAIN ws : ws[i].ages # <<>> /\ Sorted(ws[i].ages)
  /\ \A i, j \in DOMAIN ws : i # j => ws[i].bucket # ws[j].bucket
  /\ \A i, j \in DOMAIN ws : i <= j => Last(ws[j].ages) <= Last(ws[i].ages)

(* What was let through and is still in the window is what the buckets     *)
(* hold of it; a bucket that is gone holds none of it.                     *)
Accounts(ws, let) ==
  /\ \A i \in DOMAIN ws : let[ws[i].bucket] = InWindow(ws[i].ages)
  /\ \A b \in Buckets : let[b] # <<>> => \E i \in DOMAIN ws : ws[i].bucket = b

LimiterTypeOK ==
  windows \in Seq(Rows) /\ granted \in [Buckets -> Deques] /\ checks \in Nat

LInv == LimiterTypeOK /\ Ordered(windows) /\ Accounts(windows, granted) /\ QuotaHolds

(* A sweep drops idle buckets only, and every one of them.                 *)
LEMMA EvictKeeps ==
  ASSUME NEW ws \in Seq(Rows), NEW let, Ordered(ws), Accounts(ws, let)
  PROVE  /\ EvictIdleBuckets(ws) \in Seq(Rows)
         /\ Ordered(EvictIdleBuckets(ws)) /\ Accounts(EvictIdleBuckets(ws), let)
         /\ \A i \in DOMAIN EvictIdleBuckets(ws) : ~IsIdle(EvictIdleBuckets(ws)[i])
<1> DEFINE busy == {i \in DOMAIN ws : ~IsIdle(ws[i])}
           swept == EvictIdleBuckets(ws)
<1>1. Len(ws) \in Nat /\ DOMAIN ws = 1..Len(ws) /\ \A i \in DOMAIN ws : ws[i] \in Rows
  BY SMT
<1>2. ASSUME NEW i \in DOMAIN ws, IsIdle(ws[i]) PROVE let[ws[i].bucket] = <<>>
  <2>1. ws[i].ages \in Deques /\ Sorted(ws[i].ages)
    BY <1>1 DEF Rows, Ordered
  <2>2. InWindow(ws[i].ages) = <<>>
    BY <1>2, <2>1, InWindowKeeps DEF IsIdle
  <2> QED BY <2>2 DEF Accounts
<1>3. CASE busy = {}
  <2>1. swept = <<>>
    BY <1>3 DEF EvictIdleBuckets
  <2>2. \A b \in Buckets : let[b] = <<>>
    BY <1>2, <1>3 DEF Accounts
  <2> HIDE DEF swept
  <2>3. swept \in Seq(Rows) /\ DOMAIN swept = {}
    BY <2>1, SMT
  <2>4. Ordered(swept) /\ Accounts(swept, let)
    BY <2>2, <2>3 DEF Ordered, Accounts
  <2> QED BY <2>3, <2>4 DEF swept
<1>4. CASE busy # {}
  <2> DEFINE n == Min(busy)
  <2>1. busy \in SUBSET Nat
    BY <1>1, SMT
  <2>2. n \in busy /\ \A j \in busy : n <= j
    <3> HIDE DEF busy
    <3> QED BY <1>4, <2>1, MinExists, Zenon
  <2>3. swept = SubSeq(ws, n, Len(ws))
    BY <1>4 DEF EvictIdleBuckets
  <2> HIDE DEF n, swept
  <2>4. n \in 1..Len(ws) /\ ~IsIdle(ws[n])
    BY <1>1, <2>2
  <2>5. /\ swept \in Seq(Rows) /\ DOMAIN swept = 1..Len(ws) + 1 - n
        /\ \A i \in 1..Len(ws) + 1 - n : swept[i] = ws[n + i - 1]
    BY <1>1, <2>3, <2>4, SMT
  <2>6. ASSUME NEW i \in DOMAIN swept
        PROVE  /\ n + i - 1 \in DOMAIN ws /\ n <= n + i - 1 /\ swept[i] = ws[n + i - 1]
    <3>1. i \in 1..Len(ws) + 1 - n
      BY <2>5
    <3>2. n + i - 1 \in 1..Len(ws) /\ n <= n + i - 1
      BY <1>1, <2>4, <3>1, SMT
    <3> QED BY <1>1, <2>5, <3>1, <3>2
  <2>7. ASSUME NEW i \in DOMAIN swept, NEW j \in DOMAIN swept
        PROVE  /\ i # j => n + i - 1 # n + j - 1
               /\ i <= j => n + i - 1 <= n + j - 1
    BY <1>1, <2>4, <2>5, SMT
  <2>8. Ordered(swept)
    <3>1. \A i \in DOMAIN swept : swept[i].ages # <<>> /\ Sorted(swept[i].ages)
      BY <2>6 DEF Ordered
    <3>2. \A i, j \in DOMAIN swept : i # j => swept[i].bucket # swept[j].bucket
      BY <2>6, <2>7 DEF Ordered
    <3>3. \A i, j \in DOMAIN swept : i <= j => Last(swept[j].ages) <= Last(swept[i].ages)
      BY <2>6, <2>7 DEF Ordered
    <3> QED BY <3>1, <3>2, <3>3 DEF Ordered
  <2>9. Accounts(swept, let)
    <3>1. \A i \in DOMAIN swept : let[swept[i].bucket] = InWindow(swept[i].ages)
      BY <2>6 DEF Accounts
    <3>2. ASSUME NEW b \in Buckets, let[b] # <<>>
          PROVE  \E i \in DOMAIN swept : swept[i].bucket = b
      <4>1. PICK k \in DOMAIN ws : ws[k].bucket = b
        BY <3>2 DEF Accounts
      <4>2. k \in busy
        BY <1>2, <3>2, <4>1
      <4>3. k + 1 - n \in DOMAIN swept /\ n + (k + 1 - n) - 1 = k
        BY <1>1, <2>2, <2>4, <2>5, <4>1, <4>2, SMT
      <4> QED BY <2>6, <4>1, <4>3
    <3> QED BY <3>1, <3>2 DEF Accounts
  <2>10. ASSUME NEW i \in DOMAIN swept PROVE ~IsIdle(swept[i])
    <3> DEFINE k == n + i - 1
    <3>1. k \in DOMAIN ws /\ n \in DOMAIN ws /\ n <= k /\ swept[i] = ws[k]
      BY <1>1, <2>4, <2>6
    <3> HIDE DEF k
    <3>2. Last(ws[k].ages) <= Last(ws[n].ages) /\ ws[k].ages # <<>> /\ ws[n].ages # <<>>
      BY <3>1 DEF Ordered
    <3>3. ~(Last(ws[n].ages) > Window)
      BY <2>4 DEF IsIdle
    <3>4. Last(ws[k].ages) \in Nat /\ Last(ws[n].ages) \in Nat
      BY <1>1, <3>1, <3>2, LastIsNat DEF Rows
    <3>5. ~(Last(ws[k].ages) > Window)
      BY <3>2, <3>3, <3>4, LimiterAssumption, SMT
    <3> QED BY <3>1, <3>2, <3>5 DEF IsIdle
  <2> QED BY <2>5, <2>8, <2>9, <2>10 DEF swept
<1> QED BY <1>3, <1>4

LEMMA SweptKeeps ==
  ASSUME NEW ws \in Seq(Rows), NEW let, Ordered(ws), Accounts(ws, let)
  PROVE  /\ Swept(ws) \in Seq(Rows) /\ Ordered(Swept(ws)) /\ Accounts(Swept(ws), let)
         /\ Due => \A i \in DOMAIN Swept(ws) : ~IsIdle(Swept(ws)[i])
BY EvictKeeps DEF Swept

(* Where a known bucket is, and what it holds.                             *)
LEMMA PlaceOfKnown ==
  ASSUME LInv, NEW b \in Buckets
  PROVE  /\ Known(b) => /\ PlaceOf(b) \in DOMAIN windows /\ windows[PlaceOf(b)].bucket = b
                        /\ Ages(b) = windows[PlaceOf(b)].ages
         /\ Ages(b) \in Deques /\ Sorted(Ages(b)) /\ granted[b] = InWindow(Ages(b))
<1> USE DEF LInv, LimiterTypeOK
<1>1. CASE Known(b)
  <2>1. PlaceOf(b) \in DOMAIN windows /\ windows[PlaceOf(b)].bucket = b
    BY <1>1, Zenon DEF Known, PlaceOf
  <2>2. Ages(b) = windows[PlaceOf(b)].ages
    BY <1>1 DEF Ages
  <2>3. windows[PlaceOf(b)] \in Rows
    BY <2>1, SMT
  <2> QED BY <2>1, <2>2, <2>3 DEF Rows, Ordered, Accounts
<1>2. CASE ~Known(b)
  <2>1. Ages(b) = <<>> /\ granted[b] = <<>>
    BY <1>2 DEF Ages, Known, Accounts
  <2>2. <<>> \in Deques /\ Sorted(<<>>) /\ \A i \in DOMAIN <<>> : <<>>[i] <= Window
    BY SMT DEF Deques, Sorted
  <2>3. InWindow(<<>>) = <<>>
    BY <2>2, AllInWindow
  <2> QED BY <1>2, <2>1, <2>2, <2>3
<1> QED BY <1>1, <1>2

(* The places of the others, in their order.                               *)
LEMMA OthersKeep ==
  ASSUME LInv, NEW b \in Buckets
  PROVE  /\ Others(b) \in Seq(Rows) /\ Ordered(Others(b))
         /\ \A i \in DOMAIN Others(b) : /\ Others(b)[i].bucket # b
                                       /\ granted[Others(b)[i].bucket] = InWindow(Others(b)[i].ages)
         /\ \A c \in Buckets \ {b} : granted[c] # <<>> =>
              \E i \in DOMAIN Others(b) : Others(b)[i].bucket = c
<1> USE DEF LInv, LimiterTypeOK
<1>1. Len(windows) \in Nat /\ DOMAIN windows = 1..Len(windows)
  BY SMT
<1>2. CASE ~Known(b)
  <2>1. Others(b) = windows
    BY <1>2 DEF Others
  <2> QED BY <1>2, <2>1 DEF Known, Accounts
<1>3. CASE Known(b)
  <2> DEFINE n == PlaceOf(b)  rest == Others(b)
  <2>1. n \in 1..Len(windows) /\ windows[n].bucket = b
    BY <1>1, <1>3, PlaceOfKnown
  <2>2. rest = RemoveAt(windows, n)
    BY <1>3 DEF Others
  <2> HIDE DEF n, rest
  <2>3. /\ rest \in Seq(Rows) /\ Len(rest) = Len(windows) - 1
        /\ \A j \in 1..Len(windows) - 1 : rest[j] = windows[IF j < n THEN j ELSE j + 1]
    BY <2>1, <2>2, RemoveAtEntries
  <2>4. DOMAIN rest = 1..Len(windows) - 1
    BY <2>3, SMT
  <2> DEFINE from(j) == IF j < n THEN j ELSE j + 1
  <2>5. ASSUME NEW j \in DOMAIN rest
        PROVE  from(j) \in DOMAIN windows /\ from(j) # n /\ rest[j] = windows[from(j)]
    <3>1. from(j) \in 1..Len(windows) /\ from(j) # n
      BY <1>1, <2>1, <2>4, SMT
    <3> QED BY <1>1, <2>3, <2>4, <3>1
  <2>6. ASSUME NEW i \in DOMAIN rest, NEW j \in DOMAIN rest
        PROVE  (i # j => from(i) # from(j)) /\ (i <= j => from(i) <= from(j))
    BY <1>1, <2>1, <2>4, SMT
  <2>7. ASSUME NEW k \in DOMAIN windows, k # n
        PROVE  \E j \in DOMAIN rest : rest[j] = windows[k]
    <3>1. CASE k < n
      <4>1. k \in DOMAIN rest /\ from(k) = k
        BY <1>1, <2>1, <2>4, <3>1, SMT
      <4> QED BY <2>5, <4>1
    <3>2. CASE ~(k < n)
      <4>1. k - 1 \in DOMAIN rest /\ from(k - 1) = k
        BY <1>1, <2>1, <2>4, <2>7, <3>2, SMT
      <4> QED BY <2>5, <4>1
    <3> QED BY <3>1, <3>2
  <2> HIDE DEF from
  <2>8. Ordered(rest)
    <3>1. \A i \in DOMAIN rest : rest[i].ages # <<>> /\ Sorted(rest[i].ages)
      BY <2>5 DEF Ordered
    <3>2. \A i, j \in DOMAIN rest : i # j => rest[i].bucket # rest[j].bucket
      BY <2>5, <2>6 DEF Ordered
    <3>3. \A i, j \in DOMAIN rest : i <= j => Last(rest[j].ages) <= Last(rest[i].ages)
      BY <2>5, <2>6 DEF Ordered
    <3> QED BY <3>1, <3>2, <3>3 DEF Ordered
  <2>9. \A i \in DOMAIN rest : rest[i].bucket # b /\ granted[rest[i].bucket] = InWindow(rest[i].ages)
    BY <1>1, <2>1, <2>5 DEF Ordered, Accounts
  <2>10. ASSUME NEW c \in Buckets \ {b}, granted[c] # <<>>
         PROVE  \E i \in DOMAIN rest : rest[i].bucket = c
    <3>1. PICK k \in DOMAIN windows : windows[k].bucket = c
      BY <2>10 DEF Accounts
    <3> QED BY <2>1, <2>7, <3>1
  <2> QED BY <2>3, <2>8, <2>9, <2>10 DEF rest
<1> QED BY <1>2, <1>3

LEMMA GrantKeeps ==
  ASSUME LInv, NEW b \in Buckets, Grant(b)
  PROVE  LInv' /\ (Due => \A i \in DOMAIN windows' : ~IsIdle(windows'[i]))
<1> USE DEF LInv, LimiterTypeOK
<1> DEFINE left == InWindow(Ages(b))  ages == Append(left, 0)
           row == [bucket |-> b, ages |-> ages]  rest == Others(b)  ws == Append(rest, row)
<1>1. /\ left \in Deques /\ Sorted(left) /\ granted[b] = left
      /\ \A i \in DOMAIN left : left[i] <= Window
  BY PlaceOfKnown, InWindowKeeps
<1>2. Len(left) < MaxRequests /\ Len(left) \in Nat
  <2>1. ~(Len(left) >= MaxRequests)
    BY DEF Grant, Over
  <2> HIDE DEF left
  <2> QED BY <1>1, <2>1, LimiterAssumption, SMT DEF Deques
<1> HIDE DEF left
<1>3. /\ ages \in Deques /\ ages # <<>> /\ Last(ages) = 0
      /\ DOMAIN ages = 1..Len(left) + 1 /\ DOMAIN left = 1..Len(left)
      /\ Len(ages) = Len(left) + 1
      /\ ages[Len(left) + 1] = 0 /\ \A i \in 1..Len(left) : ages[i] = left[i]
  BY <1>1, SMT DEF Deques, Last
<1> HIDE DEF ages
<1>4. Sorted(ages)
  <2> SUFFICES ASSUME NEW i \in DOMAIN ages, NEW j \in DOMAIN ages, i <= j
               PROVE  ages[j] <= ages[i]
    BY DEF Sorted
  <2>1. ages[i] \in Nat
    BY <1>3, SMT DEF Deques
  <2>2. CASE j = Len(left) + 1
    BY <1>3, <2>1, <2>2, SMT
  <2>3. CASE j # Len(left) + 1
    <3>1. i \in DOMAIN left /\ j \in DOMAIN left
      BY <1>2, <1>3, <2>3, SMT
    <3>2. left[j] <= left[i]
      BY <1>1, <3>1 DEF Sorted
    <3> QED BY <1>3, <3>1, <3>2
  <2> QED BY <2>2, <2>3
<1>5. InWindow(ages) = ages
  <2>1. ASSUME NEW i \in DOMAIN ages PROVE ages[i] <= Window
    <3>1. CASE i = Len(left) + 1
      BY <1>3, <3>1, LimiterAssumption, SMT
    <3>2. CASE i # Len(left) + 1
      <4>1. i \in DOMAIN left
        BY <1>2, <1>3, <3>2, SMT
      <4> QED BY <1>1, <1>3, <4>1
    <3> QED BY <3>1, <3>2
  <2> QED BY <1>3, <2>1, AllInWindow
<1>6. /\ granted' \in [Buckets -> Deques] /\ granted'[b] = ages
      /\ \A c \in Buckets \ {b} : granted'[c] = granted[c]
  BY <1>1, <1>3 DEF Grant, ages
<1>7. /\ rest \in Seq(Rows) /\ Ordered(rest)
      /\ \A i \in DOMAIN rest : rest[i].bucket # b /\ granted[rest[i].bucket] = InWindow(rest[i].ages)
      /\ \A c \in Buckets \ {b} : granted[c] # <<>> => \E i \in DOMAIN rest : rest[i].bucket = c
  BY OthersKeep
<1>8. row \in Rows /\ row.bucket = b /\ row.ages = ages
  BY <1>3 DEF Rows
<1> HIDE DEF rest, row
<1>9. /\ ws \in Seq(Rows) /\ DOMAIN ws = 1..Len(rest) + 1 /\ DOMAIN rest = 1..Len(rest)
      /\ ws[Len(rest) + 1] = row /\ \A i \in DOMAIN rest : ws[i] = rest[i]
      /\ Len(rest) \in Nat
  BY <1>7, <1>8, SMT
<1> HIDE DEF ws
<1>10. ASSUME NEW i \in DOMAIN ws
       PROVE  \/ i \in DOMAIN rest /\ ws[i] = rest[i]
              \/ i = Len(rest) + 1 /\ ws[i] = row
  <2>1. i \in DOMAIN rest \/ i = Len(rest) + 1
    BY <1>9, SMT
  <2> QED BY <1>9, <2>1
<1>11. Ordered(ws)
  <2>1. \A i \in DOMAIN ws : ws[i].ages # <<>> /\ Sorted(ws[i].ages)
    BY <1>3, <1>4, <1>7, <1>8, <1>10 DEF Ordered
  <2>2. \A i, j \in DOMAIN ws : i # j => ws[i].bucket # ws[j].bucket
    BY <1>7, <1>8, <1>10 DEF Ordered
  <2>3. ASSUME NEW i \in DOMAIN ws, NEW j \in DOMAIN ws, i <= j
        PROVE  Last(ws[j].ages) <= Last(ws[i].ages)
    <3>1. CASE ws[j] = row
      <4>1. ws[i].ages \in Deques /\ ws[i].ages # <<>>
        <5>1. ws[i] \in Rows
          BY <1>9, SMT
        <5> QED BY <2>1, <5>1 DEF Rows
      <4> QED BY <1>3, <1>8, <3>1, <4>1, LastIsNat, SMT
    <3>2. CASE j \in DOMAIN rest /\ ws[j] = rest[j]
      <4>1. i \in DOMAIN rest
        BY <1>9, <2>3, <3>2, SMT
      <4> QED BY <1>7, <1>9, <2>3, <3>2, <4>1 DEF Ordered
    <3> QED BY <1>10, <3>1, <3>2
  <2> QED BY <2>1, <2>2, <2>3 DEF Ordered
<1>12. Accounts(ws, granted')
  <2>1. ASSUME NEW i \in DOMAIN ws PROVE granted'[ws[i].bucket] = InWindow(ws[i].ages)
    <3>1. CASE ws[i] = row
      BY <1>5, <1>6, <1>8, <3>1
    <3>2. CASE i \in DOMAIN rest /\ ws[i] = rest[i]
      <4>1. rest[i].bucket \in Buckets \ {b}
        <5>1. rest[i] \in Rows
          BY <1>7, <3>2, SMT
        <5> QED BY <1>7, <3>2, <5>1 DEF Rows
      <4> QED BY <1>6, <1>7, <3>2, <4>1
    <3> QED BY <1>10, <3>1, <3>2
  <2>2. ASSUME NEW c \in Buckets, granted'[c] # <<>> PROVE \E i \in DOMAIN ws : ws[i].bucket = c
    <3>1. CASE c = b
      <4>1. Len(rest) + 1 \in DOMAIN ws
        BY <1>9, SMT
      <4> QED BY <1>8, <1>9, <3>1, <4>1
    <3>2. CASE c # b
      <4>1. PICK i \in DOMAIN rest : rest[i].bucket = c
        BY <1>6, <1>7, <2>2, <3>2
      <4>2. i \in DOMAIN ws
        BY <1>9, SMT
      <4> QED BY <1>9, <4>1, <4>2
    <3> QED BY <3>1, <3>2
  <2> QED BY <2>1, <2>2 DEF Accounts
<1>13. windows' = Swept(ws)
  BY DEF Grant, Moved, ws, rest, row, ages, left
<1>14. /\ windows' \in Seq(Rows) /\ Ordered(windows') /\ Accounts(windows', granted')
       /\ Due => \A i \in DOMAIN windows' : ~IsIdle(windows'[i])
  BY <1>9, <1>11, <1>12, <1>13, SweptKeeps
<1>15. checks' \in Nat
  BY LimiterAssumption, SMT DEF Grant, Count
<1>16. QuotaHolds'
  <2>1. ASSUME NEW c \in Buckets PROVE Len(granted'[c]) <= MaxRequests
    <3>1. CASE c = b
      BY <1>2, <1>3, <1>6, <3>1, LimiterAssumption, SMT
    <3>2. CASE c # b
      BY <1>6, <3>2 DEF QuotaHolds
    <3> QED BY <3>1, <3>2
  <2> QED BY <2>1 DEF QuotaHolds
<1> QED
  BY <1>6, <1>14, <1>15, <1>16 DEF Ordered, Accounts

(* A rejected request leaves its bucket as it was, without its expired     *)
(* times; some are left, as the bucket is over its quota.                  *)
LEMMA DenyKeeps ==
  ASSUME LInv, NEW b \in Buckets, Deny(b)
  PROVE  LInv' /\ (Due => \A i \in DOMAIN windows' : ~IsIdle(windows'[i]))
<1> USE DEF LInv, LimiterTypeOK
<1> DEFINE n == PlaceOf(b)  left == InWindow(Ages(b))  ws == Kept(b)
           row == [bucket |-> b, ages |-> left]
<1>1. /\ left \in Deques /\ Sorted(left) /\ Ages(b) \in Deques /\ Sorted(Ages(b))
      /\ granted[b] = left /\ \A i \in DOMAIN left : left[i] <= Window
      /\ left # <<>> => Last(left) = Last(Ages(b))
  BY PlaceOfKnown, InWindowKeeps
<1>2. left # <<>>
  <2>1. Len(left) >= MaxRequests
    BY DEF Deny, Over
  <2> HIDE DEF left
  <2> QED BY <2>1, LimiterAssumption, SMT
<1>3. Known(b)
  <2> SUFFICES ASSUME ~Known(b) PROVE FALSE
    OBVIOUS
  <2>1. Ages(b) = <<>>
    BY DEF Ages
  <2>2. left = <<>>
    BY <1>1, <2>1, InWindowKeeps
  <2> QED BY <1>2, <2>2
<1>4. n \in DOMAIN windows /\ windows[n].bucket = b /\ Ages(b) = windows[n].ages
  BY <1>3, PlaceOfKnown
<1>5. InWindow(left) = left
  <2> HIDE DEF left
  <2> QED BY <1>1, AllInWindow
<1>6. row \in Rows /\ row.bucket = b /\ row.ages = left
  BY <1>1 DEF Rows
<1>7. ws = [windows EXCEPT ![n] = row]
  BY DEF Kept
<1>8. windows' = Swept(ws) /\ granted' = granted
  BY DEF Deny
<1> HIDE DEF left, n, row, ws
<1>9. ws \in Seq(Rows) /\ DOMAIN ws = DOMAIN windows
  BY <1>4, <1>6, <1>7, SMT
<1>10. ASSUME NEW i \in DOMAIN ws
       PROVE  /\ ws[i].bucket = windows[i].bucket /\ Sorted(ws[i].ages) /\ ws[i].ages # <<>>
              /\ Last(ws[i].ages) = Last(windows[i].ages)
              /\ InWindow(ws[i].ages) = InWindow(windows[i].ages)
  <2>1. CASE i = n
    <3>1. ws[i] = row
      BY <1>4, <1>7, <2>1
    <3>2. InWindow(windows[i].ages) = left
      BY <1>1, <1>4, <2>1 DEF Accounts
    <3> QED BY <1>1, <1>2, <1>4, <1>5, <1>6, <2>1, <3>1, <3>2
  <2>2. CASE i # n
    <3>1. ws[i] = windows[i]
      BY <1>7, <1>9, <2>2
    <3> QED BY <1>9, <3>1 DEF Ordered
  <2> QED BY <2>1, <2>2
<1>11. Ordered(ws)
  BY <1>9, <1>10 DEF Ordered
<1>12. Accounts(ws, granted')
  BY <1>8, <1>9, <1>10 DEF Accounts
<1>13. /\ windows' \in Seq(Rows) /\ Ordered(windows') /\ Accounts(windows', granted')
       /\ Due => \A i \in DOMAIN windows' : ~IsIdle(windows'[i])
  BY <1>8, <1>9, <1>11, <1>12, SweptKeeps
<1>14. checks' \in Nat
  BY LimiterAssumption, SMT DEF Deny, Count
<1> QED
  BY <1>8, <1>13, <1>14 DEF Ordered, Accounts, QuotaHolds

LEMMA TimeKeeps ==
  ASSUME LInv, TimePasses
  PROVE  LInv'
<1> USE DEF LInv, LimiterTypeOK
<1>1. /\ Len(windows) \in Nat /\ DOMAIN windows = 1..Len(windows)
      /\ windows' = [i \in DOMAIN windows |->
                       [bucket |-> windows[i].bucket, ages |-> Aged(windows[i].ages)]]
  BY SMT DEF TimePasses
<1>2. ASSUME NEW i \in DOMAIN windows
      PROVE  /\ windows[i].bucket \in Buckets /\ windows[i].ages \in Deques
             /\ windows[i].ages # <<>> /\ Sorted(windows[i].ages)
  <2>1. windows[i] \in Rows
    BY SMT
  <2> QED BY <2>1 DEF Rows, Ordered
<1>3. ASSUME NEW i \in DOMAIN windows
      PROVE  /\ windows'[i].bucket = windows[i].bucket
             /\ windows'[i].ages = Aged(windows[i].ages)
             /\ windows'[i].ages \in Deques /\ windows'[i].ages # <<>> /\ Sorted(windows'[i].ages)
             /\ Last(windows'[i].ages) = IF Last(windows[i].ages) > Window THEN Last(windows[i].ages)
                                         ELSE Last(windows[i].ages) + 1
  <2> DEFINE old == windows[i].ages
  <2>1. windows'[i].bucket = windows[i].bucket /\ windows'[i].ages = Aged(old)
    BY <1>1
  <2>2. old \in Deques /\ old # <<>> /\ Sorted(old)
    BY <1>2
  <2> HIDE DEF old
  <2>3. /\ Aged(old) \in Deques /\ Len(Aged(old)) = Len(old) /\ Sorted(Aged(old))
        /\ \A k \in DOMAIN old : Aged(old)[k] = IF old[k] > Window THEN old[k] ELSE old[k] + 1
    BY <2>2, AgedKeeps
  <2>4. Len(old) \in DOMAIN old /\ Last(old) = old[Len(old)] /\ Last(Aged(old)) = Aged(old)[Len(old)]
    BY <2>2, <2>3, SMT DEF Last, Deques
  <2>5. Aged(old) # <<>>
    BY <2>2, <2>3, SMT DEF Deques
  <2> QED BY <2>1, <2>3, <2>4, <2>5 DEF old
<1>4. windows' \in Seq(Rows) /\ DOMAIN windows' = DOMAIN windows
  <2>1. \A i \in 1..Len(windows) : windows'[i] \in Rows
    BY <1>1, <1>2, <1>3 DEF Rows
  <2>2. windows' = [i \in 1..Len(windows) |-> windows'[i]]
    BY <1>1
  <2> QED BY <1>1, <2>1, <2>2, SMT
<1>5. Ordered(windows')
  <2>1. ASSUME NEW i \in DOMAIN windows, NEW j \in DOMAIN windows, i <= j
        PROVE  Last(windows'[j].ages) <= Last(windows'[i].ages)
    <3>1. Last(windows[j].ages) <= Last(windows[i].ages)
      BY <2>1 DEF Ordered
    <3>2. Last(windows[j].ages) \in Nat /\ Last(windows[i].ages) \in Nat
      BY <1>2, LastIsNat
    <3> QED BY <1>3, <3>1, <3>2, LimiterAssumption, SMT
  <2> QED BY <1>3, <1>4, <2>1 DEF Ordered
<1>6. granted' = [b \in Buckets |-> InWindow(Aged(granted[b]))]
  BY DEF TimePasses
<1>7. ASSUME NEW b \in Buckets
      PROVE  /\ granted'[b] = InWindow(Aged(Ages(b))) /\ granted'[b] \in Deques
             /\ Len(granted'[b]) <= MaxRequests
             /\ granted'[b] # <<>> => Known(b)
  <2>1. /\ Ages(b) \in Deques /\ Sorted(Ages(b)) /\ granted[b] = InWindow(Ages(b))
        /\ Aged(Ages(b)) \in Deques /\ Sorted(Aged(Ages(b)))
    BY PlaceOfKnown, AgedKeeps
  <2>2. granted'[b] = InWindow(Aged(Ages(b))) /\ granted'[b] \in Deques
    BY <1>6, <2>1, AgedWindow, InWindowKeeps
  <2>3. Len(granted'[b]) <= Len(granted[b])
    <3> DEFINE old == granted[b]  new == Aged(granted[b])
    <3>1. old \in Deques /\ Sorted(old) /\ granted'[b] = InWindow(new)
      BY <1>6, <2>1, InWindowKeeps
    <3> HIDE DEF old, new
    <3>2. new \in Deques /\ Sorted(new) /\ Len(new) = Len(old)
      BY <3>1, AgedKeeps DEF old, new
    <3>3. PICK n \in 1..Len(new) + 1 : Splits(new, n)
      BY <3>2, SplitExists
    <3>4. Len(InWindow(new)) = Len(new) + 1 - n
      BY <3>2, <3>3, SplitSlices
    <3>5. Len(InWindow(new)) <= Len(old)
      BY <3>2, <3>3, <3>4, SMT DEF Deques
    <3> QED BY <3>1, <3>5 DEF old
  <2>4. granted'[b] # <<>> => Known(b)
    <3> SUFFICES ASSUME ~Known(b) PROVE granted'[b] = <<>>
      OBVIOUS
    <3>1. Ages(b) = <<>>
      BY DEF Ages
    <3>2. Aged(<<>>) = <<>>
      BY SMT DEF Aged
    <3>3. InWindow(<<>>) = <<>>
      BY <2>1, <3>1, InWindowKeeps
    <3> QED BY <2>2, <3>1, <3>2, <3>3
  <2>5. Len(granted'[b]) \in Nat /\ Len(granted[b]) \in Nat /\ Len(granted[b]) <= MaxRequests
    BY <2>2, SMT DEF QuotaHolds, Deques
  <2> QED BY <2>2, <2>3, <2>4, <2>5, LimiterAssumption, SMT
<1>8. Accounts(windows', granted')
  <2>1. ASSUME NEW i \in DOMAIN windows
        PROVE  granted'[windows'[i].bucket] = InWindow(windows'[i].ages)
    <3> DEFINE b == windows[i].bucket
    <3>1. b \in Buckets /\ Known(b)
      BY <1>2 DEF Known
    <3>2. PlaceOf(b) \in DOMAIN windows /\ windows[PlaceOf(b)].bucket = b
          /\ Ages(b) = windows[PlaceOf(b)].ages
      BY <3>1, PlaceOfKnown
    <3>3. PlaceOf(b) = i
      BY <3>2 DEF Ordered
    <3> QED BY <1>3, <1>7, <3>1, <3>2, <3>3
  <2>2. ASSUME NEW b \in Buckets, granted'[b] # <<>> PROVE \E i \in DOMAIN windows' : windows'[i].bucket = b
    BY <1>3, <1>4, <1>7, <2>2 DEF Known
  <2> QED BY <1>4, <2>1, <2>2 DEF Accounts
<1>9. granted' \in [Buckets -> Deques] /\ QuotaHolds' /\ checks' \in Nat
  BY <1>6, <1>7 DEF TimePasses, QuotaHolds
<1> QED
  BY <1>4, <1>5, <1>8, <1>9 DEF Ordered, Accounts

LEMMA InitLInv == LimiterInit => LInv
<1> SUFFICES ASSUME LimiterInit PROVE LInv
  OBVIOUS
<1>1. windows \in Seq(Rows) /\ DOMAIN windows = {} /\ checks \in Nat
  BY SMT DEF LimiterInit
<1>2. granted \in [Buckets -> Deques] /\ \A b \in Buckets : granted[b] = <<>> /\ Len(granted[b]) = 0
  BY SMT DEF LimiterInit, Deques
<1>3. QuotaHolds
  BY <1>2, LimiterAssumption, SMT DEF QuotaHolds
<1> QED
  BY <1>1, <1>2, <1>3 DEF LInv, LimiterTypeOK, Ordered, Accounts

LEMMA LInvStep == LInv /\ [LimiterNext]_limiter => LInv'
<1> SUFFICES ASSUME LInv, [LimiterNext]_limiter PROVE LInv'
  OBVIOUS
<1>1. CASE UNCHANGED limiter
  BY <1>1 DEF limiter, LInv, LimiterTypeOK, Ordered, Accounts, QuotaHolds
<1> QED
  BY <1>1, GrantKeeps, DenyKeeps, TimeKeeps DEF LimiterNext

(* The invariant: one place for each bucket, deques and places in order,   *)
(* and the requests let through in the window are those the deques hold.   *)
THEOREM LimiterInvariant == LimiterSpec => []LInv
BY InitLInv, LInvStep, PTL DEF LimiterSpec

(* For any buckets, quota, window and sweep interval: no window of time    *)
(* sees more than max_requests of one bucket let through.                  *)
THEOREM QuotaIsKept == LimiterSpec => []QuotaHolds
<1>1. LInv => QuotaHolds
  BY DEF LInv
<1> QED
  BY LimiterInvariant, <1>1, PTL

(* "Front-to-back order is exactly ascending by time of last accepted      *)
(* request": the sweep, which stops at the first bucket in use, has        *)
(* dropped every idle one.                                                 *)
THEOREM SweepsAreComplete == LimiterSpec => SweepIsComplete
<1>1. LInv /\ [LimiterNext]_limiter =>
        [checks' = 0 /\ checks # checks' => \A i \in DOMAIN windows' : ~IsIdle(windows'[i])]_limiter
  <2> SUFFICES ASSUME LInv, LimiterNext, checks' = 0, checks # checks'
               PROVE  \A i \in DOMAIN windows' : ~IsIdle(windows'[i])
    BY Zenon
  <2>1. ~TimePasses
    BY DEF TimePasses
  <2>2. PICK b \in Buckets : Grant(b) \/ Deny(b)
    BY <2>1 DEF LimiterNext
  <2>3. Due
    BY <2>2, SMT DEF Grant, Deny, Count, LInv, LimiterTypeOK
  <2> QED
    BY <2>2, <2>3, GrantKeeps, DenyKeeps
<1> QED
  BY LimiterInvariant, <1>1, PTL DEF LimiterSpec, SweepIsComplete
=============================================================================
