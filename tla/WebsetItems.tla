---------------------------- MODULE WebsetItems ----------------------------
(***************************************************************************)
(* The items of one digisearch webset: the per-item pipeline of a run      *)
(* (fetch, verify, announce, enrich field by field, under a semaphore),    *)
(* the backfill that add_enrichment schedules beside it, the requests that *)
(* attach, detach, refresh and cancel, a crash and the startup resume.     *)
(*                                                                         *)
(* A run and a backfill load the items once and from then on write whole   *)
(* rows from their own copies (mem, copy): this is the point of the model. *)
(* Generations, terminal events and the races of the status rows are those *)
(* of WebsetRun; here settling searches, cancelling and flipping a status  *)
(* is one step each, and so is settling the enrichment definitions.        *)
(***************************************************************************)
EXTENDS Naturals, FiniteSets

CONSTANTS
  Items,            \* URLs that recall can return
  Initial, Late,    \* enrichments attached at creation, and later
  Removable,        \* bound: those of them that are detached
  Concurrency,      \* permits of the runner's semaphore (4)
  Target,           \* search.count: verified items after which recall stops
  Variants,         \* query variants of a search (4)
  FinalizeAttempts, \* _FINALIZE_ATTEMPTS (2)
  MaxSearches,      \* bound: generations
  MaxMishaps        \* bound: server crashes, and store calls of a task that raise

ASSUME BoundsAssumption ==
  /\ Initial \cap Late = {} /\ Removable \subseteq Initial \cup Late
  /\ Concurrency \in Nat \ {0} /\ Variants \in Nat \ {0}
  /\ MaxSearches \in Nat \ {0}

VARIABLES
  webset, search,  \* websets.status; searches.status by generation
  row,             \* items: verification and enrichments
  enrichment,      \* enrichments.status, "absent" or "removed"
  created,         \* item.created events: <<item, generation>>
  enriched,        \* items with an item.enriched event under any generation
  pc, queue, driven, phase, tries,  \* the run task, as in WebsetRun
  cur, variant, recalled, work,     \* _drive_search and its work map
  listed,          \* definitions _settle_enrichment_defs has still to update
  mem, known,      \* state.items and state.enrichment_defs of the run
  task, todo,      \* _process_candidate of each item and its missing fields
  bpc, copy, bdefs, btodo, bcur, gen, \* the backfill of each late enrichment
  crashes, faults, \* how much of the bounds is used
  overlapped       \* history: a task loaded while another was alive

statuses == <<webset, search>>
store == <<statuses, row, enrichment, created, enriched>>
pass == <<queue, driven, phase, tries, cur, variant, recalled, work, listed>>
locals == <<mem, known>>
batch == <<task, todo>>
backfill == <<bpc, copy, bdefs, btodo, bcur, gen>>
bounds == <<crashes, faults, overlapped>>
vars == <<store, pc, pass, locals, batch, backfill, bounds>>

Fields == Initial \cup Late
Searches == 1..MaxSearches
Value == {"none", "resolved", "unresolved"} \* "skipped" counts as unresolved
Verdict == {"verified", "rejected"}
NoItem == [ver |-> "absent", val |-> [f \in Fields |-> "none"]]
NoItems == [i \in Items |-> NoItem]

Attached == {f \in Fields : enrichment[f] \notin {"absent", "removed"}}
Running == {s \in Searches : search[s] = "running"}
Free == {s \in Searches : search[s] = "absent"}
First(s, S) == s \in S /\ \A t \in S : s <= t

Missing(item, defs) == {f \in defs : item.val[f] = "none"}
NeedsWork(item, defs) ==
  \/ item.ver = "pending"
  \/ item.ver = "verified" /\ Missing(item, defs) # {}
ItemEnriched(item, defs) ==
  /\ defs # {} /\ Missing(item, defs) = {}
  /\ \E f \in defs : item.val[f] = "resolved"

(* _settlement_blockers reads every attached definition, not the run's. *)
Blockers ==
  \/ Running # {}
  \/ \E i \in Items : NeedsWork(row[i], Attached)

Alive == pc # "off" \/ \E f \in Late : bpc[f] # "off"

Init ==
  /\ webset = "running"
  /\ search = [s \in Searches |-> IF s = 1 THEN "running" ELSE "absent"]
  /\ row = NoItems
  /\ enrichment = [f \in Fields |-> IF f \in Initial THEN "running" ELSE "absent"]
  /\ created = {} /\ enriched = {}
  /\ pc = "load"
  /\ queue = {} /\ driven = {} /\ phase = "first" /\ tries = 0
  /\ cur = 0 /\ variant = 0 /\ recalled = FALSE /\ work = {} /\ listed = {}
  /\ mem = NoItems /\ known = {}
  /\ task = [i \in Items |-> "none"] /\ todo = [i \in Items |-> {}]
  /\ bpc = [f \in Late |-> "off"] /\ copy = [f \in Late |-> NoItems]
  /\ bdefs = [f \in Late |-> {}] /\ btodo = [f \in Late |-> {}]
  /\ bcur = [f \in Late |-> {}] /\ gen = [f \in Late |-> 0]
  /\ crashes = 0 /\ faults = 0 /\ overlapped = FALSE
-----------------------------------------------------------------------------
(* The run task forgets everything and stands at l. *)
Fresh(l) ==
  /\ pc' = l
  /\ queue' = {} /\ driven' = {} /\ phase' = "first" /\ tries' = 0
  /\ cur' = 0 /\ variant' = 0 /\ recalled' = FALSE /\ work' = {} /\ listed' = {}
  /\ mem' = NoItems /\ known' = {}

Return == Fresh("off")

(* run's containment: on to _fail, with the items and definitions loaded. *)
Raising ==
  /\ pc' = "fail"
  /\ queue' = {} /\ driven' = {} /\ phase' = "first" /\ tries' = 0
  /\ cur' = 0 /\ variant' = 0 /\ recalled' = FALSE /\ work' = {} /\ listed' = {}

Raise == Raising /\ UNCHANGED locals

Goto(l) == pc' = l /\ UNCHANGED <<pass, locals>>

(* Between two searches the locals of _drive_search are dead. *)
NextSearch ==
  /\ pc' = "next" /\ cur' = 0 /\ variant' = 0 /\ recalled' = FALSE /\ work' = {}
  /\ UNCHANGED <<queue, driven, phase, tries, listed, locals>>

Load ==
  /\ pc = "load"
  /\ overlapped' = (overlapped \/ \E f \in Late : bpc[f] # "off")
  /\ \/ webset = "cancelled" /\ Return
     \/ /\ webset # "cancelled"
        /\ mem' = row /\ known' = Attached
        /\ queue' = Running /\ pc' = "next"
        /\ UNCHANGED <<driven, phase, tries, cur, variant, recalled, work, listed>>
  /\ UNCHANGED <<store, batch, backfill, crashes, faults>>

(* _drive or _drive_newcomers takes the next search; _queue_stored_work    *)
(* puts the stored items that need work first.                             *)
PickSearch ==
  /\ pc = "next" /\ queue # {}
  /\ \/ /\ phase = "first" /\ webset = "cancelled"
        /\ pc' = "finalize" /\ queue' = {}
        /\ UNCHANGED <<driven, cur, variant, recalled, work>>
     \/ /\ ~(phase = "first" /\ webset = "cancelled")
        /\ \E s \in queue :
             /\ First(s, queue)
             /\ cur' = s /\ queue' = queue \ {s} /\ driven' = driven \cup {s}
        /\ work' = {i \in Items : NeedsWork(mem[i], known)}
        /\ variant' = 0 /\ recalled' = FALSE /\ pc' = "variant"
  /\ UNCHANGED <<store, phase, tries, listed, locals, batch, backfill, bounds>>

SearchesDone ==
  /\ pc = "next" /\ queue = {}
  /\ \/ phase = "first" /\ Goto("finalize")
     \/ phase = "sticky" /\ Goto("flip")
     \/ phase = "retry" /\ Goto("defs")
  /\ UNCHANGED <<store, batch, backfill, bounds>>

VerifiedRows == {i \in Items : row[i].ver = "verified"}

Enough == variant = Variants \/ (variant > 0 /\ Cardinality(VerifiedRows) >= Target)

(* The variant loop ends early when cancelled; after its last round a      *)
(* search without any recall raises, and a cancelled one is left as it is. *)
LeaveVariants ==
  /\ pc = "variant"
  /\ \/ ~Enough /\ webset = "cancelled" /\ NextSearch
     \/ Enough /\ ~recalled /\ Raise
     \/ Enough /\ recalled /\ webset = "cancelled" /\ NextSearch
     \/ /\ Enough /\ recalled /\ webset # "cancelled"
        /\ pc' = "pending" /\ variant' = 0 /\ recalled' = FALSE /\ work' = {}
        /\ UNCHANGED <<queue, driven, phase, tries, cur, listed, locals>>
  /\ UNCHANGED <<store, batch, backfill, bounds>>

(* Mutant of Recall: a failed variant is tried again and again. *)
RecallAgain ==
  /\ pc = "variant" /\ webset # "cancelled" /\ ~Enough
  /\ pc' = "variant" /\ UNCHANGED <<variant, recalled, work, task>>
  /\ UNCHANGED <<store, queue, driven, phase, tries, cur, listed, locals, todo, backfill, bounds>>

(* search_web fails, or returns hits that are queued behind the stored     *)
(* work: new URLs, and known items that still need work.                   *)
Recall ==
  /\ pc = "variant" /\ webset # "cancelled" /\ ~Enough
  /\ variant' = variant + 1
  /\ \/ pc' = "variant" /\ UNCHANGED <<recalled, work, task>>
     \/ \E hits \in SUBSET Items :
          LET fresh == {i \in hits \ work : mem[i].ver = "absent" \/ NeedsWork(mem[i], known)}
              candidates == IF recalled THEN fresh ELSE work \cup fresh IN
          /\ recalled' = TRUE
          /\ work' = work \cup fresh
          /\ task' = [i \in Items |-> IF i \in candidates THEN "queued" ELSE "none"]
          /\ pc' = "batch"
  /\ UNCHANGED <<store, queue, driven, phase, tries, cur, listed, locals, todo, backfill, bounds>>

(* _run_batch's TaskGroup is left when its last task is done. *)
BatchDone ==
  /\ pc = "batch" /\ \A i \in Items : task[i] = "none"
  /\ Goto("variant")
  /\ UNCHANGED <<store, batch, backfill, bounds>>
-----------------------------------------------------------------------------
(* One item under the semaphore.  The permit taken by Acquire is held      *)
(* until the verdict is stored and announced; enriching takes a new one    *)
(* for every field.                                                        *)
Holding == {i \in Items : task[i] \in {"save", "fetch", "created", "extract"}}
Permit == Cardinality(Holding) < Concurrency

Step(i, l) == task' = [task EXCEPT ![i] = l]
Remember(i, item) == mem' = [mem EXCEPT ![i] = item]

(* save_item replaces the whole row by the caller's copy. *)
SaveItem(i, item) == row' = [row EXCEPT ![i] = item]

Frame == UNCHANGED <<pc, pass, known, backfill, bounds, statuses, enrichment>>

Acquire(i) ==
  /\ task[i] = "queued" /\ Permit
  /\ Step(i, IF webset = "cancelled" \/ mem[i].ver = "rejected" THEN "none"
             ELSE IF mem[i].ver = "absent" THEN "save" ELSE "fetch")
  /\ UNCHANGED <<row, created, enriched, mem, todo>> /\ Frame

SaveNew(i) ==
  /\ task[i] = "save"
  /\ LET item == [NoItem EXCEPT !.ver = "pending"] IN
     SaveItem(i, item) /\ Remember(i, item)
  /\ Step(i, "fetch")
  /\ UNCHANGED <<created, enriched, todo>> /\ Frame

(* Mutant of Judge: a verified item that still lacks fields is announced   *)
(* again on its way to them.                                               *)
JudgeAnnouncing(i) ==
  /\ task[i] = "fetch"
  /\ \/ /\ mem[i].ver = "pending"
        /\ \E v \in Verdict :
             LET item == [mem[i] EXCEPT !.ver = v] IN
             /\ SaveItem(i, item) /\ Remember(i, item)
             /\ Step(i, IF v = "verified" THEN "created" ELSE "none")
     \/ mem[i].ver = "verified" /\ Step(i, "created") /\ UNCHANGED <<row, mem>>
  /\ UNCHANGED <<created, enriched, todo>> /\ Frame

(* Mutant of Judge: the verdict is stored, the event forgotten. *)
JudgeSilently(i) ==
  /\ task[i] = "fetch"
  /\ \E v \in Verdict :
       LET item == [mem[i] EXCEPT !.ver = v] IN
       /\ SaveItem(i, item) /\ Remember(i, item)
       /\ Step(i, IF v = "verified" THEN "fields" ELSE "none")
       /\ todo' = [todo EXCEPT ![i] = Missing(item, known)]
  /\ UNCHANGED <<created, enriched>> /\ Frame

(* The page is fetched; a pending item is judged by _verify, a verified    *)
(* one goes straight on to its fields.                                     *)
Judge(i) ==
  /\ task[i] = "fetch"
  /\ \/ /\ mem[i].ver = "pending"
        /\ \E v \in Verdict :
             LET item == [mem[i] EXCEPT !.ver = v] IN
             /\ SaveItem(i, item) /\ Remember(i, item)
             /\ Step(i, IF v = "verified" THEN "created" ELSE "none")
        /\ UNCHANGED todo
     \/ /\ mem[i].ver = "verified"
        /\ Step(i, "fields") /\ todo' = [todo EXCEPT ![i] = Missing(mem[i], known)]
        /\ UNCHANGED <<row, mem>>
  /\ UNCHANGED <<created, enriched>> /\ Frame

EmitCreated(i) ==
  /\ task[i] = "created"
  /\ created' = created \cup {<<i, cur>>}
  /\ Step(i, "fields") /\ todo' = [todo EXCEPT ![i] = Missing(mem[i], known)]
  /\ UNCHANGED <<row, enriched, mem>> /\ Frame

(* _enrich, between two fields: stop when cancelled, or wait for a permit. *)
NextField(i) ==
  /\ task[i] = "fields" /\ todo[i] # {}
  /\ \/ webset = "cancelled" /\ Step(i, "none") /\ todo' = [todo EXCEPT ![i] = {}]
     \/ webset # "cancelled" /\ Permit /\ Step(i, "extract") /\ UNCHANGED todo
  /\ UNCHANGED <<row, created, enriched, mem>> /\ Frame

(* Mutant of SaveField: the row is written with the new field alone. *)
SaveFieldAlone(i) ==
  /\ task[i] = "extract"
  /\ \E f \in todo[i], v \in {"resolved", "unresolved"} :
       LET item == [NoItem EXCEPT !.ver = "verified", !.val[f] = v] IN
       /\ SaveItem(i, item) /\ Remember(i, item)
       /\ todo' = [todo EXCEPT ![i] = @ \ {f}]
  /\ Step(i, "fields")
  /\ UNCHANGED <<created, enriched>> /\ Frame

(* _extract always ends in a terminal field, which is saved at once. *)
SaveField(i) ==
  /\ task[i] = "extract"
  /\ \E f \in todo[i], v \in {"resolved", "unresolved"} :
       LET item == [mem[i] EXCEPT !.val[f] = v] IN
       /\ SaveItem(i, item) /\ Remember(i, item)
       /\ todo' = [todo EXCEPT ![i] = @ \ {f}]
  /\ Step(i, "fields")
  /\ UNCHANGED <<created, enriched>> /\ Frame

(* Mutant of EmitEnriched: announced although nothing was resolved. *)
EmitEnrichedAlways(i) ==
  /\ task[i] = "fields" /\ todo[i] = {}
  /\ enriched' = enriched \cup {i}
  /\ Step(i, "none")
  /\ UNCHANGED <<row, created, mem, todo>> /\ Frame

EmitEnriched(i) ==
  /\ task[i] = "fields" /\ todo[i] = {}
  /\ enriched' = IF ItemEnriched(mem[i], known) THEN enriched \cup {i} ELSE enriched
  /\ Step(i, "none")
  /\ UNCHANGED <<row, created, mem, todo>> /\ Frame

(* A store call of the item's task raises; _process_candidate logs it.     *)
(* The copy in memory was changed in place before the row was to follow.   *)
ItemFault(i) ==
  /\ crashes + faults < MaxMishaps
  /\ \/ task[i] \in {"save", "created"} /\ UNCHANGED mem
     \/ task[i] = "fields" /\ todo[i] = {} /\ UNCHANGED mem
     \/ /\ task[i] = "fetch" /\ mem[i].ver = "pending"
        /\ \E v \in Verdict : Remember(i, [mem[i] EXCEPT !.ver = v])
     \/ /\ task[i] = "extract"
        /\ \E f \in todo[i], v \in {"resolved", "unresolved"} :
             Remember(i, [mem[i] EXCEPT !.val[f] = v])
  /\ Step(i, "none") /\ todo' = [todo EXCEPT ![i] = {}]
  /\ faults' = faults + 1
  /\ UNCHANGED <<store, pc, pass, known, backfill, crashes, overlapped>>

ItemStep(i) ==
  \/ Acquire(i) \/ SaveNew(i) \/ Judge(i) \/ EmitCreated(i)
  \/ NextField(i) \/ SaveField(i) \/ EmitEnriched(i)
-----------------------------------------------------------------------------
(* Mutant of SettlePendingItems: verified items are swept up too. *)
SettleAllItems ==
  /\ pc \in {"pending", "failPending"}
  /\ \/ \E i \in Items :
          LET item == [mem[i] EXCEPT !.ver = "rejected"] IN
          /\ mem[i].ver \in {"pending", "verified"}
          /\ SaveItem(i, item) /\ Remember(i, item)
          /\ UNCHANGED <<pc, pass, known>>
     \/ /\ \A i \in Items : mem[i].ver \notin {"pending", "verified"}
        /\ Goto(IF pc = "pending" THEN "fields" ELSE "failFields")
        /\ UNCHANGED row
  /\ UNCHANGED <<statuses, enrichment, created, enriched, batch, backfill, bounds>>

(* Mutant of SettlePendingItems: it is forgotten. *)
SettleNothing ==
  /\ pc \in {"pending", "failPending"}
  /\ Goto(IF pc = "pending" THEN "fields" ELSE "failFields")
  /\ UNCHANGED <<store, batch, backfill, bounds>>

(* _settle_pending_items: what is still pending is rejected, row by row,   *)
(* at the end of a search and in _fail.                                    *)
SettlePendingItems ==
  /\ pc \in {"pending", "failPending"}
  /\ \/ \E i \in Items :
          LET item == [mem[i] EXCEPT !.ver = "rejected"] IN
          /\ mem[i].ver = "pending"
          /\ SaveItem(i, item) /\ Remember(i, item)
          /\ UNCHANGED <<pc, pass, known>>
     \/ /\ \A i \in Items : mem[i].ver # "pending"
        /\ Goto(IF pc = "pending" THEN "fields" ELSE "failFields")
        /\ UNCHANGED row
  /\ UNCHANGED <<statuses, enrichment, created, enriched, batch, backfill, bounds>>

(* The item with a terminal field for every definition the run knows. *)
Settled(item) ==
  [item EXCEPT !.val = [f \in Fields |-> IF f \in Missing(item, known) THEN "unresolved" ELSE @[f]]]

(* _settle_missing_fields, at the end of a search and, with another        *)
(* reason, when cancelled or failed.                                       *)
SettleMissingFields ==
  /\ pc \in {"fields", "skip", "failFields"}
  /\ \/ \E i \in Items :
          /\ mem[i].ver = "verified" /\ Missing(mem[i], known) # {}
          /\ SaveItem(i, Settled(mem[i])) /\ Remember(i, Settled(mem[i]))
          /\ UNCHANGED <<pc, pass, known>>
     \/ /\ \A i \in Items : mem[i].ver = "verified" => Missing(mem[i], known) = {}
        /\ \/ pc = "fields" /\ Goto("settle")
           \/ pc = "skip" /\ Return
           \/ pc = "failFields" /\ Goto("failDefs")
        /\ UNCHANGED row
  /\ UNCHANGED <<statuses, enrichment, created, enriched, batch, backfill, bounds>>

SettleSearch ==
  /\ pc = "settle"
  /\ search' = IF search[cur] = "running" THEN [search EXCEPT ![cur] = "idle"] ELSE search
  /\ NextSearch
  /\ UNCHANGED <<webset, row, enrichment, created, enriched, batch, backfill, bounds>>
-----------------------------------------------------------------------------
Finalize ==
  /\ pc = "finalize"
  /\ \/ webset = "cancelled" /\ Goto("skip")
     \/ webset = "failed" /\ Return
     \/ /\ webset \in {"running", "idle"}
        /\ pc' = "defs" /\ phase' = IF webset = "idle" THEN "sticky" ELSE "first"
        /\ UNCHANGED <<queue, driven, tries, cur, variant, recalled, work, listed, locals>>
  /\ UNCHANGED <<store, batch, backfill, bounds>>

(* _settle_enrichment_defs lists what has another status ... *)
ListDefs ==
  /\ pc \in {"defs", "failDefs"}
  /\ LET target == IF pc = "defs" THEN "idle" ELSE "failed" IN
     listed' = {f \in Attached : enrichment[f] # target}
  /\ pc' = IF pc = "defs" THEN "writeDefs" ELSE "failWriteDefs"
  /\ UNCHANGED <<queue, driven, phase, tries, cur, variant, recalled, work, locals>>
  /\ UNCHANGED <<store, batch, backfill, bounds>>

(* ... and updates one after the other; update_enrichment raises when the  *)
(* definition was removed meanwhile.                                       *)
WriteDef ==
  /\ pc \in {"writeDefs", "failWriteDefs"}
  /\ \E f \in listed :
       \/ /\ f \in Attached
          /\ enrichment' = [enrichment EXCEPT ![f] = IF pc = "writeDefs" THEN "idle" ELSE "failed"]
          /\ listed' = listed \ {f}
          /\ UNCHANGED <<pc, queue, driven, phase, tries, cur, variant, recalled, work, locals>>
       \/ /\ f \notin Attached
          /\ IF pc = "writeDefs" THEN Raise ELSE Return
          /\ UNCHANGED enrichment
  /\ UNCHANGED <<statuses, row, created, enriched, batch, backfill, bounds>>

(* On to the newcomers of an idle webset, the flip of a running one, or    *)
(* another attempt at a refused flip while there are any left.             *)
DefsSettled ==
  /\ pc = "writeDefs" /\ listed = {}
  /\ \/ phase = "sticky" /\ Goto("newcomers")
     \/ phase = "first" /\ Goto("flip")
     \/ phase = "retry" /\ tries < FinalizeAttempts /\ Goto("flip")
     \/ phase = "retry" /\ tries = FinalizeAttempts /\ Raise
  /\ UNCHANGED <<store, batch, backfill, bounds>>

(* _drive_newcomers; when a refused flip finds none, the cancelled re-check *)
(* and the failure.                                                        *)
DriveNewcomers ==
  /\ pc = "newcomers"
  /\ LET newcomers == IF webset = "cancelled" THEN {} ELSE Running \ driven IN
     \/ /\ newcomers # {}
        /\ pc' = "next" /\ queue' = newcomers
        /\ UNCHANGED <<driven, phase, tries, cur, variant, recalled, work, listed, locals>>
     \/ newcomers = {} /\ phase = "sticky" /\ Goto("flip")
     \/ newcomers = {} /\ phase = "retry" /\ webset = "cancelled" /\ Goto("skip")
     \/ newcomers = {} /\ phase = "retry" /\ webset # "cancelled" /\ Raise
  /\ UNCHANGED <<store, batch, backfill, bounds>>

(* set_webset_idle, and what _finalize makes of its answer. *)
SetIdle ==
  /\ pc = "flip"
  /\ \/ webset \in {"cancelled", "failed"} /\ Goto("skip") /\ UNCHANGED webset
     \/ webset = "idle" /\ Return /\ UNCHANGED webset
     \/ webset = "running" /\ ~Blockers /\ webset' = "idle" /\ Return
     \/ /\ webset = "running" /\ Blockers
        /\ pc' = "newcomers" /\ phase' = "retry" /\ tries' = tries + 1
        /\ UNCHANGED <<webset, queue, driven, cur, variant, recalled, work, listed, locals>>
  /\ UNCHANGED <<search, row, enrichment, created, enriched, batch, backfill, bounds>>

(* _fail settles the running searches; then items, fields, definitions and *)
(* the status of a webset that was running.                                *)
Fail ==
  /\ pc = "fail"
  /\ search' = [s \in Searches |-> IF s \in Running THEN "failed" ELSE search[s]]
  /\ Goto("failPending")
  /\ UNCHANGED <<webset, row, enrichment, created, enriched, batch, backfill, bounds>>

SetFailed ==
  /\ pc = "failWriteDefs" /\ listed = {}
  /\ webset' = IF webset = "running" THEN "failed" ELSE webset
  /\ Return
  /\ UNCHANGED <<search, row, enrichment, created, enriched, batch, backfill, bounds>>

(* A store call of the pass raises: _fail takes over, or is cut short.  A  *)
(* copy about to be saved keeps what the row did not get.                  *)
PassFault ==
  /\ crashes + faults < MaxMishaps
  /\ \/ pc \in {"variant", "settle", "finalize", "defs", "writeDefs", "newcomers", "flip"} /\ Raise
     \/ /\ pc = "pending" /\ Raising /\ UNCHANGED known
        /\ \E i \in Items : mem[i].ver = "pending" /\ Remember(i, [mem[i] EXCEPT !.ver = "rejected"])
     \/ /\ pc \in {"fields", "skip"} /\ Raising /\ UNCHANGED known
        /\ \E i \in Items : mem[i].ver = "verified" /\ Remember(i, Settled(mem[i]))
     \/ pc \in {"load", "fail", "failPending", "failFields", "failDefs", "failWriteDefs"} /\ Return
  /\ faults' = faults + 1
  /\ UNCHANGED <<store, batch, backfill, crashes, overlapped>>

RunStep ==
  \/ Load \/ PickSearch \/ SearchesDone \/ LeaveVariants \/ Recall \/ BatchDone
  \/ (\E i \in Items : ItemStep(i))
  \/ SettlePendingItems \/ SettleMissingFields \/ SettleSearch
  \/ Finalize \/ ListDefs \/ WriteDef \/ DefsSettled \/ DriveNewcomers \/ SetIdle
  \/ Fail \/ SetFailed
-----------------------------------------------------------------------------
(* backfill_enrichment, by the late enrichment: its own load, and copies   *)
(* of the items it is going to write.                                      *)
BGoto(f, l) == bpc' = [bpc EXCEPT ![f] = l]

BReset(f) ==
  /\ BGoto(f, "off")
  /\ copy' = [copy EXCEPT ![f] = NoItems] /\ bdefs' = [bdefs EXCEPT ![f] = {}]
  /\ btodo' = [btodo EXCEPT ![f] = {}] /\ bcur' = [bcur EXCEPT ![f] = {}]
  /\ gen' = [gen EXCEPT ![f] = 0]

RunFrame == UNCHANGED <<pc, pass, locals, batch>>

BLoad(f) ==
  /\ bpc[f] = "load"
  /\ LET lacking == {i \in VerifiedRows : row[i].val[f] = "none"} IN
     \/ (f \notin Attached \/ webset = "cancelled") /\ BReset(f) /\ UNCHANGED enrichment
     \/ /\ f \in Attached /\ webset # "cancelled" /\ lacking = {}
        /\ enrichment' = [g \in Fields |-> IF g \in Attached THEN "idle" ELSE enrichment[g]]
        /\ BReset(f)
     \/ /\ f \in Attached /\ webset # "cancelled" /\ lacking # {}
        /\ copy' = [copy EXCEPT ![f] = [i \in Items |-> IF i \in lacking THEN row[i] ELSE NoItem]]
        /\ bdefs' = [bdefs EXCEPT ![f] = Attached]
        /\ btodo' = [btodo EXCEPT ![f] = lacking]
        /\ bcur' = [bcur EXCEPT ![f] = {}]
        /\ BGoto(f, "open")
        /\ UNCHANGED <<gen, enrichment>>
  /\ overlapped' = (overlapped \/ pc # "off" \/ \E g \in Late \ {f} : bpc[g] # "off")
  /\ UNCHANGED <<statuses, row, created, enriched, crashes, faults>> /\ RunFrame

(* _open_generation appends a search, which a run may drive as its own. *)
BOpen(f) ==
  /\ bpc[f] = "open"
  /\ \E s \in Free :
       /\ First(s, Free)
       /\ search' = [search EXCEPT ![s] = "running"] /\ gen' = [gen EXCEPT ![f] = s]
  /\ BGoto(f, "pick")
  /\ UNCHANGED <<webset, row, enrichment, created, enriched, copy, bdefs, btodo, bcur, bounds>>
  /\ RunFrame

BPick(f) ==
  /\ bpc[f] = "pick"
  /\ IF btodo[f] = {} \/ webset = "cancelled"
     THEN BGoto(f, "status") /\ UNCHANGED <<btodo, bcur>>
     ELSE \E i \in btodo[f] :
            /\ bcur' = [bcur EXCEPT ![f] = {i}]
            /\ btodo' = [btodo EXCEPT ![f] = @ \ {i}]
            /\ BGoto(f, "save")
  /\ UNCHANGED <<store, copy, bdefs, gen, bounds>> /\ RunFrame

(* Mutant of BSave: a page that cannot be fetched leaves no field. *)
BSaveResolvedOnly(f) ==
  /\ bpc[f] = "save"
  /\ \E i \in bcur[f], v \in {"resolved", "none"} :
       LET item == [copy[f][i] EXCEPT !.val[f] = v] IN
       /\ SaveItem(i, item) /\ copy' = [copy EXCEPT ![f][i] = item]
       /\ BGoto(f, IF ItemEnriched(item, bdefs[f]) THEN "emit" ELSE "pick")
  /\ UNCHANGED <<statuses, enrichment, created, enriched, bdefs, btodo, bcur, gen, bounds>>
  /\ RunFrame

BSave(f) ==
  /\ bpc[f] = "save"
  /\ \E i \in bcur[f], v \in {"resolved", "unresolved"} :
       LET item == [copy[f][i] EXCEPT !.val[f] = v] IN
       /\ SaveItem(i, item) /\ copy' = [copy EXCEPT ![f][i] = item]
       /\ BGoto(f, IF ItemEnriched(item, bdefs[f]) THEN "emit" ELSE "pick")
  /\ UNCHANGED <<statuses, enrichment, created, enriched, bdefs, btodo, bcur, gen, bounds>>
  /\ RunFrame

BEmit(f) ==
  /\ bpc[f] = "emit"
  /\ enriched' = enriched \cup bcur[f]
  /\ BGoto(f, "pick")
  /\ UNCHANGED <<statuses, row, enrichment, created, copy, bdefs, btodo, bcur, gen, bounds>>
  /\ RunFrame

(* The definition's status, from the copies; a removed one raises and the  *)
(* generation stays open.                                                  *)
BStatus(f) ==
  /\ bpc[f] = "status"
  /\ LET remaining == {i \in Items : copy[f][i].ver = "verified" /\ copy[f][i].val[f] = "none"} IN
     \/ f \notin Attached /\ BReset(f) /\ UNCHANGED enrichment
     \/ /\ f \in Attached
        /\ enrichment' = [enrichment EXCEPT ![f] = IF remaining = {} THEN "idle" ELSE "failed"]
        /\ BGoto(f, "close")
        /\ UNCHANGED <<copy, bdefs, btodo, bcur, gen>>
  /\ UNCHANGED <<statuses, row, created, enriched, bounds>> /\ RunFrame

(* _close_generation settles the generation, unless somebody has ...       *)
BClose(f) ==
  /\ bpc[f] = "close"
  /\ \/ search[gen[f]] # "running" /\ BReset(f) /\ UNCHANGED search
     \/ /\ search[gen[f]] = "running"
        /\ search' = [search EXCEPT ![gen[f]] = "idle"]
        /\ BGoto(f, "flip") /\ UNCHANGED <<copy, bdefs, btodo, bcur, gen>>
  /\ UNCHANGED <<webset, row, enrichment, created, enriched, bounds>> /\ RunFrame

(* ... and tries the idle flip, whose refusal is only logged. *)
BFlip(f) ==
  /\ bpc[f] = "flip"
  /\ webset' = IF webset = "running" /\ ~Blockers THEN "idle" ELSE webset
  /\ BReset(f)
  /\ UNCHANGED <<search, row, enrichment, created, enriched, bounds>> /\ RunFrame

BackfillStep(f) ==
  \/ BLoad(f) \/ BOpen(f) \/ BPick(f) \/ BSave(f) \/ BEmit(f)
  \/ BStatus(f) \/ BClose(f) \/ BFlip(f)

(* Nothing contains a store fault but the guard around the whole task. *)
BackfillFault(f) ==
  /\ crashes + faults < MaxMishaps /\ bpc[f] # "off"
  /\ BReset(f)
  /\ faults' = faults + 1
  /\ UNCHANGED <<store, crashes, overlapped>> /\ RunFrame
-----------------------------------------------------------------------------
Refreshable == webset \in {"running", "idle"}

(* Bound: a generation is left for every backfill that may open one. *)
Spare == Cardinality(Free) > Cardinality({f \in Late : bpc[f] \in {"load", "open"}})

AddSearch ==
  /\ Refreshable /\ Spare
  /\ \E s \in Free : First(s, Free) /\ search' = [search EXCEPT ![s] = "running"]
  /\ IF pc = "off" THEN Fresh("load") ELSE UNCHANGED <<pc, pass, locals>>
  /\ UNCHANGED <<webset, row, enrichment, created, enriched, batch, backfill, bounds>>

AddEnrichment(f) ==
  /\ enrichment[f] = "absent" /\ Refreshable /\ Spare
  /\ enrichment' = [enrichment EXCEPT ![f] = "running"]
  /\ BGoto(f, "load")
  /\ UNCHANGED <<statuses, row, created, enriched, copy, bdefs, btodo, bcur, gen, bounds>>
  /\ RunFrame

RemoveEnrichment(f) ==
  /\ f \in Attached
  /\ enrichment' = [enrichment EXCEPT ![f] = "removed"]
  /\ UNCHANGED <<statuses, row, created, enriched, backfill, bounds>> /\ RunFrame

(* An idle webset stays idle; its running searches are cancelled. *)
CancelWebset ==
  /\ webset = "running" \/ Running # {}
  /\ webset' = IF webset = "running" THEN "cancelled" ELSE webset
  /\ search' = [s \in Searches |-> IF s \in Running THEN "cancelled" ELSE search[s]]
  /\ UNCHANGED <<row, enrichment, created, enriched, backfill, bounds>> /\ RunFrame

(* Tasks die; the startup resume schedules runs, never a backfill. *)
CrashAndResume ==
  /\ crashes + faults < MaxMishaps /\ crashes' = crashes + 1
  /\ Fresh(IF webset = "running" \/ Running # {} THEN "load" ELSE "off")
  /\ task' = [i \in Items |-> "none"] /\ todo' = [i \in Items |-> {}]
  /\ bpc' = [f \in Late |-> "off"] /\ copy' = [f \in Late |-> NoItems]
  /\ bdefs' = [f \in Late |-> {}] /\ btodo' = [f \in Late |-> {}]
  /\ bcur' = [f \in Late |-> {}] /\ gen' = [f \in Late |-> 0]
  /\ UNCHANGED <<store, faults, overlapped>>

Next ==
  \/ RunStep \/ PassFault \/ \E i \in Items : ItemFault(i)
  \/ \E f \in Late : BackfillStep(f) \/ BackfillFault(f) \/ AddEnrichment(f)
  \/ \E f \in Removable : RemoveEnrichment(f)
  \/ AddSearch \/ CancelWebset \/ CrashAndResume

Spec == Init /\ [][Next]_vars

Fairness == WF_vars(RunStep) /\ \A f \in Late : WF_vars(BackfillStep(f))
FairSpec == Spec /\ Fairness
-----------------------------------------------------------------------------
ItemType == [ver : {"absent", "pending"} \cup Verdict, val : [Fields -> Value]]

(* The shape of the rows and of the copies of the tasks. *)
TypeOK ==
  /\ webset \in {"running", "idle", "failed", "cancelled"}
  /\ search \in [Searches -> {"absent", "running", "idle", "failed", "cancelled"}]
  /\ row \in [Items -> ItemType] /\ mem \in [Items -> ItemType]
  /\ enrichment \in [Fields -> {"absent", "running", "idle", "failed", "removed"}]
  /\ created \subseteq Items \X Searches /\ enriched \subseteq Items
  /\ queue \subseteq Searches /\ driven \subseteq Searches /\ cur \in Searches \cup {0}
  /\ work \subseteq Items /\ known \subseteq Fields /\ listed \subseteq Fields
  /\ copy \in [Late -> [Items -> ItemType]]
  /\ \A i \in Items : todo[i] \subseteq known

(* Verification is settled once per item: no later pass, no resume after a *)
(* crash, and no backfill that writes an older copy of the row undoes it.  *)
VerdictIsFinal ==
  [][\A i \in Items : row[i].ver \in Verdict => row'[i].ver = row[i].ver]_vars

(* item.created is appended for verified items only, and for one item      *)
(* never under two generations, whatever is resumed in between.            *)
CreatedOnce ==
  \A e \in created :
    /\ row[e[1]].ver = "verified"
    /\ \A d \in created : d[1] = e[1] => d = e

(* While the server stays up and no store call fails, a verified item has  *)
(* its item.created event, or its task is about to append it.              *)
VerifiedIsAnnounced ==
  crashes = 0 /\ faults = 0 =>
    \A i \in Items : row[i].ver = "verified" =>
      task[i] = "created" \/ \E s \in Searches : <<i, s>> \in created

(* A settled field keeps its value, through crashes and store faults, as   *)
(* long as no run and backfill have held copies of the items at once.      *)
FieldIsFinal ==
  [][~overlapped => \A i \in Items, f \in Fields :
       row[i].val[f] # "none" => row'[i].val[f] = row[i].val[f]]_vars

(* item.enriched tells the truth: the item is verified and something was   *)
(* resolved; again unless two tasks overlapped.                            *)
EnrichedIsTrue ==
  ~overlapped => \A i \in enriched :
    row[i].ver = "verified" /\ \E f \in Fields : row[i].val[f] = "resolved"

Complete == \A i \in Items : ~NeedsWork(row[i], Attached)

(* An idle webset at rest is fully settled, also after enrichments were    *)
(* attached and refreshes ended, if no two tasks overlapped.               *)
RestingIdleIsComplete ==
  webset = "idle" /\ ~Alive /\ crashes = 0 /\ faults = 0 /\ ~overlapped => Complete

(* Every run and every backfill ends, also when searches and enrichments   *)
(* arrive meanwhile, definitions disappear and store calls fail.           *)
TasksEnd == Alive ~> ~Alive

(* A stored pending item is verified or rejected in the end, also after a  *)
(* crash, unless somebody cancels or a store call fails.                   *)
PendingItemsSettle ==
  \A i \in Items :
    row[i].ver = "pending" ~>
      \/ row[i].ver # "pending"
      \/ webset = "cancelled" \/ \E s \in Searches : search[s] = "cancelled"
      \/ faults > 0

(* "an idle webset must be fully settled": set_webset_idle's promise,      *)
(* without the proviso about overlapping tasks.                            *)
IdleIsFullySettled ==
  webset = "idle" /\ ~Alive /\ crashes = 0 /\ faults = 0 => Complete
=============================================================================
