------------------------- MODULE WebsetItemsProofs -------------------------
(***************************************************************************)
(* Proofs about WebsetItems, for all sets of items and enrichments and all *)
(* bounds: verification is settled once, and announced once, although runs *)
(* and backfills write whole rows from copies they took earlier, and       *)
(* although a run's copy may be ahead of its row after a store fault.      *)
(***************************************************************************)
EXTENDS WebsetItems, TLAPS

TaskStates == {"none", "queued", "save", "fetch", "created", "fields", "extract"}

Types ==
  /\ row \in [Items -> ItemType] /\ mem \in [Items -> ItemType]
  /\ copy \in [Late -> [Items -> ItemType]]
  /\ task \in [Items -> TaskStates]
  /\ btodo \in [Late -> SUBSET Items] /\ bcur \in [Late -> SUBSET Items]

(* Item tasks live inside _run_batch only. *)
Batched == \A i \in Items : task[i] # "none" => pc = "batch"

(* What a row may hold while the run's copy holds m: the copy is the row,  *)
(* or it is a verdict whose save raised.                                   *)
RowsFor(m) ==
  IF m = "absent" THEN {"absent"}
  ELSE IF m = "pending" THEN {"pending"}
  ELSE {"pending", m}

MemAgrees ==
  pc \notin {"off", "load"} => \A i \in Items : row[i].ver \in RowsFor(mem[i].ver)

(* How far the task of an item has come, as its copy shows it. *)
TaskAgrees ==
  \A i \in Items :
    /\ task[i] = "save" => mem[i].ver = "absent"
    /\ task[i] = "fetch" => mem[i].ver \in {"pending", "verified"}
    /\ task[i] \in {"created", "fields", "extract"} => mem[i].ver = "verified"
    /\ task[i] = "created" => row[i].ver = "verified" /\ \A e \in created : e[1] # i

(* A backfill only ever writes items that are verified. *)
CopyAgrees ==
  \A f \in Late : \A i \in btodo[f] \cup bcur[f] :
    copy[f][i].ver = "verified" /\ row[i].ver = "verified"

Announced == \A e \in created : e[1] \in Items /\ row[e[1]].ver = "verified"

IInv == Types /\ Batched /\ MemAgrees /\ TaskAgrees /\ CopyAgrees /\ Announced /\ CreatedOnce

LEMMA NoItemsType == NoItems \in [Items -> ItemType] /\ \A i \in Items : NoItems[i].ver = "absent"
  BY DEF NoItems, NoItem, ItemType, Value

LEMMA Initial0 == Init => IInv
  BY NoItemsType DEF Init, IInv, Types, Batched, MemAgrees, RowsFor, TaskAgrees, CopyAgrees, Announced,
     CreatedOnce, TaskStates

(* The parts of a step that leave the rows and the item tasks alone. *)
LEMMA Quiet ==
  ASSUME IInv, pc \notin {"off", "load"},
         UNCHANGED <<row, created, mem, task, copy, btodo, bcur>>,
         pc' = pc \/ \A i \in Items : task[i] = "none"
  PROVE  IInv'
  BY DEF IInv, Types, Batched, MemAgrees, RowsFor, TaskAgrees, CopyAgrees, Announced, CreatedOnce

(* The task ends, or a crash drops it, with no item task left behind. *)
LEMMA Ended ==
  ASSUME IInv, pc # "batch", NEW l \in {"off", "load"}, Fresh(l),
         UNCHANGED <<row, created, task, copy, btodo, bcur>>
  PROVE  IInv'
<1>1. \A i \in Items : task[i] = "none"
  BY DEF IInv, Batched, Types
<1> QED
  BY <1>1, NoItemsType
  DEF Fresh, IInv, Types, Batched, MemAgrees, RowsFor, TaskAgrees, CopyAgrees, Announced, CreatedOnce

(* A copy is changed and saved by the run, and the item's task moves on. *)
LEMMA Saved ==
  ASSUME IInv, NEW i \in Items, NEW item \in ItemType, NEW l \in TaskStates,
         pc \notin {"off", "load"}, pc' = pc,
         SaveItem(i, item), Remember(i, item), task' = [task EXCEPT ![i] = l],
         item.ver # "absent",
         row[i].ver = "verified" => item.ver = "verified",
         l # "none" => pc = "batch",
         l \notin {"queued", "save"},
         l = "fetch" => item.ver \in {"pending", "verified"},
         l \in {"created", "fields", "extract"} => item.ver = "verified",
         l = "created" => \A e \in created : e[1] # i,
         UNCHANGED <<created, copy, btodo, bcur>>
  PROVE  IInv'
<1>1. /\ row' \in [Items -> ItemType] /\ mem' \in [Items -> ItemType]
      /\ task' \in [Items -> TaskStates]
      /\ row'[i] = item /\ mem'[i] = item /\ task'[i] = l
      /\ \A j \in Items \ {i} : row'[j] = row[j] /\ mem'[j] = mem[j] /\ task'[j] = task[j]
  BY DEF IInv, Types, SaveItem, Remember
<1>2. Types' /\ Batched'
  BY <1>1 DEF IInv, Types, Batched
<1>3. MemAgrees'
  BY <1>1 DEF IInv, MemAgrees, RowsFor
<1>4. TaskAgrees'
  BY <1>1 DEF IInv, TaskAgrees
<1>5. \A j \in Items : row[j].ver = "verified" => row'[j].ver = "verified"
  BY <1>1
<1>6. CopyAgrees'
  BY <1>5 DEF IInv, Types, CopyAgrees
<1>7. Announced'
  BY <1>5 DEF IInv, Announced
<1>8. CreatedOnce'
  BY <1>5 DEF IInv, Announced, CreatedOnce
<1> QED
  BY <1>2, <1>3, <1>4, <1>6, <1>7, <1>8 DEF IInv

(* The item's task moves on without a write. *)
LEMMA Moved ==
  ASSUME IInv, NEW i \in Items, NEW l \in TaskStates, task[i] # "none",
         task' = [task EXCEPT ![i] = l], pc' = pc,
         l = "save" => mem[i].ver = "absent",
         l = "fetch" => mem[i].ver \in {"pending", "verified"},
         l \in {"created", "fields", "extract"} => mem[i].ver = "verified",
         l # "created",
         \A e \in created' : e \in created \/ (e[1] = i /\ task[i] = "created"),
         \A e, d \in created' \ created : e = d,
         created \subseteq created',
         UNCHANGED <<row, mem, copy, btodo, bcur>>
  PROVE  IInv'
<1>1. Types' /\ Batched' /\ MemAgrees' /\ CopyAgrees'
  BY DEF IInv, Types, Batched, MemAgrees, CopyAgrees
<1>2. TaskAgrees'
  BY DEF IInv, Types, TaskAgrees
<1>3. Announced' /\ CreatedOnce'
  BY DEF IInv, Types, TaskAgrees, Announced, CreatedOnce
<1> QED
  BY <1>1, <1>2, <1>3 DEF IInv

(* A store call of the item's task raised: its copy may be ahead now. *)
LEMMA Ahead ==
  ASSUME IInv, NEW i \in Items, NEW item \in ItemType,
         pc \notin {"off", "load"}, mem' = [mem EXCEPT ![i] = item],
         row[i].ver \in RowsFor(item.ver),
         task' = [task EXCEPT ![i] = "none"],
         pc' = pc \/ \A j \in Items : task[j] = "none",
         UNCHANGED <<row, created, copy, btodo, bcur>>
  PROVE  IInv'
<1>1. /\ mem' \in [Items -> ItemType] /\ task' \in [Items -> TaskStates]
      /\ mem'[i] = item /\ task'[i] = "none"
      /\ \A j \in Items \ {i} : mem'[j] = mem[j] /\ task'[j] = task[j]
  BY DEF IInv, Types, TaskStates
<1>2. Types' /\ Batched' /\ CopyAgrees' /\ Announced' /\ CreatedOnce'
  BY <1>1 DEF IInv, Types, Batched, CopyAgrees, Announced, CreatedOnce
<1>3. MemAgrees' /\ TaskAgrees'
  BY <1>1 DEF IInv, MemAgrees, TaskAgrees
<1> QED
  BY <1>2, <1>3 DEF IInv
-----------------------------------------------------------------------------
LEMMA InBatch ==
  ASSUME IInv, NEW i \in Items, task[i] # "none"
  PROVE  /\ pc = "batch" /\ pc \notin {"off", "load"}
         /\ row[i].ver \in RowsFor(mem[i].ver)
         /\ mem[i] \in ItemType /\ row[i] \in ItemType
  BY DEF IInv, Types, Batched, MemAgrees

LEMMA ItemSteps ==
  ASSUME IInv, NEW i \in Items, ItemStep(i)
  PROVE  IInv'
<1> USE DEF Frame, backfill, statuses, Step
<1>1. CASE Acquire(i)
  <2>1. mem[i].ver \in {"absent", "pending", "verified", "rejected"}
    BY DEF IInv, Types, ItemType, Verdict
  <2>2. PICK l \in {"none", "save", "fetch"} :
          /\ task' = [task EXCEPT ![i] = l]
          /\ l = "save" => mem[i].ver = "absent"
          /\ l = "fetch" => mem[i].ver \in {"pending", "verified"}
    BY <1>1, <2>1 DEF Acquire
  <2> QED
    BY <1>1, <2>2, Moved DEF Acquire, TaskStates
<1>2. CASE SaveNew(i)
  <2> DEFINE item == [NoItem EXCEPT !.ver = "pending"]
  <2>1. item \in ItemType /\ item.ver = "pending"
    BY DEF NoItem, ItemType, Value
  <2>2. row[i].ver # "verified"
    BY <1>2, InBatch DEF SaveNew, IInv, TaskAgrees, RowsFor
  <2> HIDE DEF item
  <2> QED
    BY <1>2, <2>1, <2>2, InBatch, Saved DEF SaveNew, TaskStates, item
<1>3. CASE Judge(i)
  <2>1. CASE mem[i].ver = "pending"
    <3>1. PICK v \in Verdict :
            LET item == [mem[i] EXCEPT !.ver = v] IN
            /\ SaveItem(i, item) /\ Remember(i, item)
            /\ task' = [task EXCEPT ![i] = IF v = "verified" THEN "created" ELSE "none"]
      BY <1>3, <2>1 DEF Judge
    <3> DEFINE item == [mem[i] EXCEPT !.ver = v]
               l == IF v = "verified" THEN "created" ELSE "none"
    <3>2. item \in ItemType /\ item.ver = v /\ v \in {"verified", "rejected"}
      BY <1>3, InBatch DEF ItemType, Verdict, Judge
    <3>3. row[i].ver = "pending"
      BY <1>3, <2>1, InBatch DEF RowsFor, Judge
    <3>4. \A e \in created : e[1] # i
      BY <3>3 DEF IInv, Announced
    <3>5. l \in TaskStates /\ (l = "created" => v = "verified") /\ l \in {"created", "none"}
      BY DEF TaskStates
    <3>6. SaveItem(i, item) /\ Remember(i, item) /\ task' = [task EXCEPT ![i] = l]
      BY <3>1
    <3>7. UNCHANGED <<pc, created, copy, btodo, bcur>> /\ pc = "batch"
      BY <1>3, InBatch DEF Judge
    <3> HIDE DEF item, l
    <3> QED
      BY <3>2, <3>3, <3>4, <3>5, <3>6, <3>7, Saved
  <2>2. CASE mem[i].ver # "pending"
    BY <1>3, <2>2, Moved DEF Judge, TaskStates
  <2> QED
    BY <2>1, <2>2
<1>4. CASE EmitCreated(i)
  <2>1. mem[i].ver = "verified"
    BY <1>4 DEF EmitCreated, IInv, TaskAgrees
  <2>2. /\ \A e \in created' : e \in created \/ (e[1] = i /\ task[i] = "created")
        /\ \A e, d \in created' \ created : e = d
        /\ created \subseteq created'
    BY <1>4 DEF EmitCreated
  <2>3. /\ task' = [task EXCEPT ![i] = "fields"] /\ task[i] # "none" /\ pc' = pc
        /\ UNCHANGED <<row, mem, copy, btodo, bcur>>
    BY <1>4 DEF EmitCreated
  <2> QED
    BY <2>1, <2>2, <2>3, Moved DEF TaskStates
<1>5. CASE NextField(i)
  <2>1. mem[i].ver = "verified"
    BY <1>5 DEF NextField, IInv, TaskAgrees
  <2> QED
    BY <1>5, <2>1, Moved DEF NextField, TaskStates
<1>6. CASE SaveField(i)
  <2>1. PICK f \in todo[i], v \in {"resolved", "unresolved"} :
          LET item == [mem[i] EXCEPT !.val[f] = v] IN SaveItem(i, item) /\ Remember(i, item)
    BY <1>6 DEF SaveField
  <2> DEFINE item == [mem[i] EXCEPT !.val[f] = v]
  <2>2. mem[i].ver = "verified"
    BY <1>6 DEF SaveField, IInv, TaskAgrees
  <2>3. item \in ItemType /\ item.ver = "verified"
    BY <1>6, <2>2, InBatch DEF ItemType, Value, SaveField
  <2>4. SaveItem(i, item) /\ Remember(i, item) /\ task' = [task EXCEPT ![i] = "fields"]
    BY <1>6, <2>1 DEF SaveField
  <2>5. UNCHANGED <<pc, created, copy, btodo, bcur>> /\ pc = "batch"
    BY <1>6, InBatch DEF SaveField
  <2> HIDE DEF item
  <2> QED
    BY <2>3, <2>4, <2>5, Saved DEF TaskStates
<1>7. CASE EmitEnriched(i)
  BY <1>7, Moved DEF EmitEnriched, TaskStates
<1> QED
  BY <1>1, <1>2, <1>3, <1>4, <1>5, <1>6, <1>7 DEF ItemStep

LEMMA ItemFaults ==
  ASSUME IInv, NEW i \in Items, ItemFault(i)
  PROVE  IInv'
<1> USE DEF backfill, Step
<1>1. task[i] # "none"
  BY DEF ItemFault
<1>2. /\ task' = [task EXCEPT ![i] = "none"] /\ pc' = pc
      /\ UNCHANGED <<row, created, copy, btodo, bcur>>
  BY DEF ItemFault, store
<1>3. CASE UNCHANGED mem
  BY <1>1, <1>2, <1>3, Moved DEF TaskStates
<1>4. CASE \E v \in Verdict : mem[i].ver = "pending" /\ Remember(i, [mem[i] EXCEPT !.ver = v])
  <2>1. PICK v \in Verdict : mem[i].ver = "pending" /\ Remember(i, [mem[i] EXCEPT !.ver = v])
    BY <1>4
  <2> DEFINE item == [mem[i] EXCEPT !.ver = v]
  <2>2. item \in ItemType /\ row[i].ver \in RowsFor(item.ver)
    BY <1>1, <2>1, InBatch DEF ItemType, Verdict, RowsFor
  <2>3. mem' = [mem EXCEPT ![i] = item]
    BY <2>1 DEF Remember
  <2> HIDE DEF item
  <2> QED
    BY <1>1, <1>2, <2>2, <2>3, InBatch, Ahead
<1>5. CASE \E f \in todo[i], v \in {"resolved", "unresolved"} :
             Remember(i, [mem[i] EXCEPT !.val[f] = v])
  <2>1. PICK f \in todo[i], v \in {"resolved", "unresolved"} :
             Remember(i, [mem[i] EXCEPT !.val[f] = v])
    BY <1>5
  <2> DEFINE item == [mem[i] EXCEPT !.val[f] = v]
  <2>2. item \in ItemType /\ item.ver = mem[i].ver
    BY <1>1, InBatch DEF ItemType, Value
  <2>3. mem' = [mem EXCEPT ![i] = item]
    BY <2>1 DEF Remember
  <2> HIDE DEF item
  <2> QED
    BY <1>1, <1>2, <2>2, <2>3, InBatch, Ahead
<1> QED
  BY <1>3, <1>4, <1>5 DEF ItemFault
-----------------------------------------------------------------------------
LEMMA NoTasks ==
  ASSUME IInv, pc # "batch"
  PROVE  \A i \in Items : task[i] = "none"
  BY DEF IInv, Batched, Types

(* The steps of the pass between the batches. *)
LEMMA PassSteps ==
  ASSUME IInv,
         \/ Load \/ PickSearch \/ SearchesDone \/ LeaveVariants \/ Recall \/ BatchDone
         \/ SettleSearch \/ Finalize \/ ListDefs \/ WriteDef \/ DefsSettled
         \/ DriveNewcomers \/ SetIdle \/ Fail \/ SetFailed
  PROVE  IInv'
<1> USE DEF backfill, batch, locals, pass
<1> USE DEF store
<1>1. CASE Load
  <2>1. CASE Return
    BY <1>1, <2>1, Ended DEF Load, Return
  <2>2. CASE ~Return
    <3>1. /\ pc' = "next" /\ mem' = row
          /\ UNCHANGED <<row, created, task, copy, btodo, bcur>>
          /\ \A i \in Items : task[i] = "none"
      BY <1>1, <2>2, NoTasks DEF Load
    <3>2. \A i \in Items : row[i].ver \in RowsFor(row[i].ver)
      BY DEF RowsFor
    <3> QED
      BY <3>1, <3>2
      DEF IInv, Types, Batched, MemAgrees, TaskAgrees, CopyAgrees, Announced, CreatedOnce
  <2> QED
    BY <2>1, <2>2
<1>2. CASE PickSearch
  BY <1>2, NoTasks, Quiet DEF PickSearch
<1>3. CASE SearchesDone
  BY <1>3, NoTasks, Quiet DEF SearchesDone, Goto
<1>4. CASE LeaveVariants
  BY <1>4, NoTasks, Quiet DEF LeaveVariants, Goto, NextSearch, Raise, Raising
<1>5. CASE Recall
  <2>1. CASE UNCHANGED task
    BY <1>5, <2>1, NoTasks, Quiet DEF Recall
  <2>2. CASE ~UNCHANGED task
    <3>1. /\ pc' = "batch" /\ pc = "variant"
          /\ \E c : task' = [i \in Items |-> IF i \in c THEN "queued" ELSE "none"]
          /\ UNCHANGED <<row, created, mem, copy, btodo, bcur>>
      BY <1>5, <2>2 DEF Recall
    <3> QED
      BY <3>1
      DEF IInv, Types, TaskStates, Batched, MemAgrees, TaskAgrees, CopyAgrees, Announced, CreatedOnce
  <2> QED
    BY <2>1, <2>2
<1>6. CASE BatchDone
  BY <1>6, Quiet DEF BatchDone, Goto
<1>7. CASE SettleSearch
  BY <1>7, NoTasks, Quiet DEF SettleSearch, NextSearch
<1>8. CASE Finalize
  <2>1. CASE Return
    BY <1>8, <2>1, Ended DEF Finalize, Return
  <2>2. CASE ~Return
    BY <1>8, <2>2, NoTasks, Quiet DEF Finalize, Goto
  <2> QED
    BY <2>1, <2>2
<1>9. CASE ListDefs
  BY <1>9, NoTasks, Quiet DEF ListDefs
<1>10. CASE WriteDef
  <2>1. CASE Return
    BY <1>10, <2>1, Ended DEF WriteDef, Return
  <2>2. CASE ~Return
    BY <1>10, <2>2, NoTasks, Quiet DEF WriteDef, Raise, Raising
  <2> QED
    BY <2>1, <2>2
<1>11. CASE DefsSettled
  BY <1>11, NoTasks, Quiet DEF DefsSettled, Goto, Raise, Raising
<1>12. CASE DriveNewcomers
  BY <1>12, NoTasks, Quiet DEF DriveNewcomers, Goto, Raise, Raising
<1>13. CASE SetIdle
  <2>1. CASE Return
    BY <1>13, <2>1, Ended DEF SetIdle, Return
  <2>2. CASE ~Return
    BY <1>13, <2>2, NoTasks, Quiet DEF SetIdle, Goto
  <2> QED
    BY <2>1, <2>2
<1>14. CASE Fail
  BY <1>14, NoTasks, Quiet DEF Fail, Goto
<1>15. CASE SetFailed
  BY <1>15, Ended DEF SetFailed, Return
<1> QED
  BY <1>1, <1>2, <1>3, <1>4, <1>5, <1>6, <1>7, <1>8, <1>9, <1>10, <1>11, <1>12, <1>13,
     <1>14, <1>15

LEMMA SettledType ==
  ASSUME NEW item \in ItemType
  PROVE  Settled(item) \in ItemType /\ Settled(item).ver = item.ver
<1> DEFINE val == [f \in Fields |-> IF f \in Missing(item, known) THEN "unresolved" ELSE item.val[f]]
<1>1. val \in [Fields -> Value]
  BY DEF ItemType, Value
<1>2. Settled(item) = [item EXCEPT !.val = val]
  BY DEF Settled
<1> HIDE DEF val
<1> QED
  BY <1>1, <1>2 DEF ItemType

(* The settlement sweeps write one copy after the other. *)
LEMMA Sweeps ==
  ASSUME IInv, SettlePendingItems \/ SettleMissingFields
  PROVE  IInv'
<1> USE DEF backfill, batch
<1>1. pc \notin {"off", "load", "batch"} /\ \A i \in Items : task[i] = "none"
  BY NoTasks DEF SettlePendingItems, SettleMissingFields
<1>2. CASE \E i \in Items : LET item == [mem[i] EXCEPT !.ver = "rejected"] IN
             mem[i].ver = "pending" /\ SaveItem(i, item) /\ Remember(i, item)
                /\ UNCHANGED <<pc, created, task, copy, btodo, bcur>>
  <2>1. PICK i \in Items : LET item == [mem[i] EXCEPT !.ver = "rejected"] IN
             mem[i].ver = "pending" /\ SaveItem(i, item) /\ Remember(i, item)
                /\ UNCHANGED <<pc, created, task, copy, btodo, bcur>>
    BY <1>2
  <2> DEFINE item == [mem[i] EXCEPT !.ver = "rejected"]
  <2>2. item \in ItemType /\ item.ver = "rejected"
    BY DEF IInv, Types, ItemType, Verdict
  <2>3. row[i].ver = "pending"
    BY <1>1, <2>1 DEF IInv, MemAgrees, RowsFor
  <2>4. task' = [task EXCEPT ![i] = "none"]
    BY <1>1, <2>1 DEF IInv, Types
  <2>5. SaveItem(i, item) /\ Remember(i, item)
    BY <2>1
  <2> HIDE DEF item
  <2> QED
    BY <1>1, <2>1, <2>2, <2>3, <2>4, <2>5, Saved DEF TaskStates
<1>3. CASE \E i \in Items : /\ mem[i].ver = "verified"
             /\ SaveItem(i, Settled(mem[i])) /\ Remember(i, Settled(mem[i]))
             /\ UNCHANGED <<pc, created, task, copy, btodo, bcur>>
  <2>1. PICK i \in Items : /\ mem[i].ver = "verified"
             /\ SaveItem(i, Settled(mem[i])) /\ Remember(i, Settled(mem[i]))
             /\ UNCHANGED <<pc, created, task, copy, btodo, bcur>>
    BY <1>3
  <2>2. Settled(mem[i]) \in ItemType /\ Settled(mem[i]).ver = "verified"
    BY <2>1, SettledType DEF IInv, Types
  <2>3. task' = [task EXCEPT ![i] = "none"]
    BY <1>1, <2>1 DEF IInv, Types
  <2> QED
    BY <1>1, <2>1, <2>2, <2>3, Saved DEF TaskStates
<1>4. CASE UNCHANGED <<row, mem>>
  BY <1>1, <1>4, Quiet DEF SettlePendingItems, SettleMissingFields
<1>5. CASE Return /\ UNCHANGED row
  BY <1>1, <1>5, Ended DEF SettlePendingItems, SettleMissingFields, Return
<1> QED
  BY <1>2, <1>3, <1>4, <1>5 DEF SettlePendingItems, SettleMissingFields, Goto, locals

LEMMA PassFaults ==
  ASSUME IInv, PassFault
  PROVE  IInv'
<1> USE DEF backfill, batch, store
<1>1. pc # "off" /\ pc # "batch" /\ \A i \in Items : task[i] = "none"
  BY NoTasks DEF PassFault
<1>2. UNCHANGED <<row, created, task, copy, btodo, bcur>>
  BY DEF PassFault
<1>3. CASE Return
  BY <1>1, <1>2, <1>3, Ended DEF Return
<1>4. CASE Raise /\ pc # "load"
  BY <1>1, <1>2, <1>4, Quiet DEF Raise, Raising, locals
<1>5. CASE pc = "pending" /\ \E i \in Items :
             mem[i].ver = "pending" /\ Remember(i, [mem[i] EXCEPT !.ver = "rejected"])
  <2>1. PICK i \in Items : mem[i].ver = "pending" /\ Remember(i, [mem[i] EXCEPT !.ver = "rejected"])
    BY <1>5
  <2> DEFINE item == [mem[i] EXCEPT !.ver = "rejected"]
  <2>2. item \in ItemType /\ row[i].ver \in RowsFor(item.ver)
    BY <1>5, <2>1 DEF IInv, Types, ItemType, Verdict, MemAgrees, RowsFor
  <2>3. mem' = [mem EXCEPT ![i] = item] /\ task' = [task EXCEPT ![i] = "none"]
    BY <1>1, <1>2, <2>1 DEF Remember, IInv, Types
  <2> HIDE DEF item
  <2> QED
    BY <1>1, <1>2, <1>5, <2>2, <2>3, Ahead
<1>6. CASE pc \in {"fields", "skip"} /\ \E i \in Items :
             mem[i].ver = "verified" /\ Remember(i, Settled(mem[i]))
  <2>1. PICK i \in Items : mem[i].ver = "verified" /\ Remember(i, Settled(mem[i]))
    BY <1>6
  <2>2. Settled(mem[i]) \in ItemType /\ row[i].ver \in RowsFor(Settled(mem[i]).ver)
    BY <1>6, <2>1, SettledType DEF IInv, Types, MemAgrees
  <2>3. mem' = [mem EXCEPT ![i] = Settled(mem[i])] /\ task' = [task EXCEPT ![i] = "none"]
    BY <1>1, <1>2, <2>1 DEF Remember, IInv, Types
  <2> QED
    BY <1>1, <1>2, <1>6, <2>2, <2>3, Ahead
<1> QED
  BY <1>3, <1>4, <1>5, <1>6 DEF PassFault
-----------------------------------------------------------------------------
LEMMA BackfillSteps ==
  ASSUME IInv, NEW f \in Late, BackfillStep(f) \/ BackfillFault(f)
  PROVE  IInv'
<1> USE DEF RunFrame, BGoto, batch, locals, store, statuses
<1>1. UNCHANGED <<pc, mem, task, created>>
  BY DEF BackfillStep, BackfillFault, BLoad, BOpen, BPick, BSave, BEmit, BStatus, BClose, BFlip
<1>2. ASSUME UNCHANGED row, Types',
             \A g \in Late : \A i \in btodo'[g] \cup bcur'[g] :
               copy'[g][i].ver = "verified" /\ row[i].ver = "verified"
      PROVE  IInv'
  BY <1>1, <1>2 DEF IInv, Batched, MemAgrees, TaskAgrees, CopyAgrees, Announced, CreatedOnce
<1>3. CASE UNCHANGED <<row, copy, btodo, bcur>>
  BY <1>1, <1>2, <1>3 DEF IInv, Types, CopyAgrees
<1>4. CASE UNCHANGED row /\ BReset(f)
  BY <1>1, <1>2, <1>4, NoItemsType DEF BReset, IInv, Types, CopyAgrees
<1>5. CASE BLoad(f)
  <2>1. CASE BReset(f)
    BY <1>4, <1>5, <2>1 DEF BLoad
  <2>2. CASE ~BReset(f)
    <3> DEFINE lacking == {i \in VerifiedRows : row[i].val[f] = "none"}
               taken == [i \in Items |-> IF i \in lacking THEN row[i] ELSE NoItem]
    <3>1. /\ copy' = [copy EXCEPT ![f] = taken] /\ btodo' = [btodo EXCEPT ![f] = lacking]
          /\ UNCHANGED row /\ bcur' = [bcur EXCEPT ![f] = {}]
      BY <1>5, <2>2 DEF BLoad
    <3>2. /\ lacking \in SUBSET Items /\ taken \in [Items -> ItemType]
          /\ \A i \in lacking : taken[i].ver = "verified" /\ row[i].ver = "verified"
      BY DEF VerifiedRows, IInv, Types, NoItem, ItemType, Value
    <3> HIDE DEF lacking, taken
    <3>3. Types'
      BY <1>1, <3>1, <3>2 DEF IInv, Types
    <3> QED
      BY <1>2, <3>1, <3>2, <3>3 DEF IInv, Types, CopyAgrees
  <2> QED
    BY <2>1, <2>2
<1>6. CASE BOpen(f)
  BY <1>3, <1>6 DEF BOpen
<1>7. CASE BPick(f)
  <2>1. CASE \E i \in btodo[f] : /\ bcur' = [bcur EXCEPT ![f] = {i}]
                                /\ btodo' = [btodo EXCEPT ![f] = @ \ {i}]
    <3>1. PICK i \in btodo[f] : /\ bcur' = [bcur EXCEPT ![f] = {i}]
                                /\ btodo' = [btodo EXCEPT ![f] = @ \ {i}]
      BY <2>1
    <3>2. \A g \in Late : btodo'[g] \cup bcur'[g] \subseteq btodo[g] \cup bcur[g]
      BY <3>1 DEF IInv, Types
    <3>3. UNCHANGED <<row, copy>>
      BY <1>7 DEF BPick
    <3>4. Types'
      BY <1>1, <3>1, <3>3 DEF IInv, Types
    <3> QED
      BY <1>2, <3>2, <3>3, <3>4 DEF IInv, CopyAgrees
  <2> QED
    BY <1>3, <1>7, <2>1 DEF BPick
<1>8. CASE BSave(f)
  <2>1. PICK i \in bcur[f], v \in {"resolved", "unresolved"} :
          LET item == [copy[f][i] EXCEPT !.val[f] = v] IN
          SaveItem(i, item) /\ copy' = [copy EXCEPT ![f][i] = item]
    BY <1>8 DEF BSave
  <2> DEFINE item == [copy[f][i] EXCEPT !.val[f] = v]
  <2>2. /\ i \in Items /\ copy[f][i].ver = "verified" /\ row[i].ver = "verified"
        /\ item \in ItemType /\ item.ver = "verified"
    <3>1. i \in Items /\ copy[f][i].ver = "verified" /\ row[i].ver = "verified"
      BY DEF IInv, Types, CopyAgrees
    <3>2. copy[f][i] \in ItemType
      BY <3>1 DEF IInv, Types
    <3> QED
      BY <3>1, <3>2 DEF ItemType, Value
  <2>3. row' = [row EXCEPT ![i] = item] /\ copy' = [copy EXCEPT ![f][i] = item]
    BY <2>1 DEF SaveItem
  <2> HIDE DEF item
  <2>4. UNCHANGED <<btodo, bcur>>
    BY <1>8 DEF BSave
  <2>5. \A j \in Items : row'[j].ver = row[j].ver /\ row'[j] \in ItemType
    BY <2>2, <2>3 DEF IInv, Types
  <2>6. \A g \in Late : \A j \in Items : copy'[g][j] = copy[g][j] \/ copy'[g][j] = item
    BY <2>2, <2>3 DEF IInv, Types
  <2>7. Types'
    BY <1>1, <2>2, <2>3, <2>4 DEF IInv, Types
  <2>8. CopyAgrees'
    BY <2>2, <2>4, <2>5, <2>6 DEF IInv, Types, CopyAgrees
  <2> QED
    BY <1>1, <2>5, <2>7, <2>8 DEF IInv, Batched, MemAgrees, TaskAgrees, Announced, CreatedOnce
<1>9. CASE BEmit(f)
  BY <1>3, <1>9 DEF BEmit
<1>10. CASE BStatus(f)
  BY <1>3, <1>4, <1>10 DEF BStatus
<1>11. CASE BClose(f)
  BY <1>3, <1>4, <1>11 DEF BClose
<1>12. CASE BFlip(f)
  BY <1>4, <1>12 DEF BFlip
<1>13. CASE BackfillFault(f)
  BY <1>4, <1>13 DEF BackfillFault
<1> QED
  BY <1>5, <1>6, <1>7, <1>8, <1>9, <1>10, <1>11, <1>12, <1>13 DEF BackfillStep

LEMMA RequestSteps ==
  ASSUME IInv,
         \/ AddSearch \/ CancelWebset
         \/ \E f \in Late : AddEnrichment(f)
         \/ \E f \in Removable : RemoveEnrichment(f)
  PROVE  IInv'
<1> USE DEF RunFrame, batch, locals, backfill
<1>1. CASE UNCHANGED <<pc, row, created, mem, task, copy, btodo, bcur>>
  BY <1>1 DEF IInv, Types, Batched, MemAgrees, TaskAgrees, CopyAgrees, Announced, CreatedOnce
<1>2. CASE AddSearch
  <2>1. CASE pc = "off" /\ Fresh("load")
    BY <1>2, <2>1, Ended DEF AddSearch
  <2> QED
    BY <1>1, <1>2, <2>1 DEF AddSearch
<1> QED
  BY <1>1, <1>2 DEF CancelWebset, AddEnrichment, RemoveEnrichment

LEMMA Crashes ==
  ASSUME IInv, CrashAndResume
  PROVE  IInv'
<1>1. /\ pc' \in {"off", "load"} /\ mem' = NoItems
      /\ \A i \in Items : task'[i] = "none"
      /\ task' = [i \in Items |-> "none"]
      /\ copy' = [f \in Late |-> NoItems]
      /\ btodo' = [f \in Late |-> {}] /\ bcur' = [f \in Late |-> {}]
      /\ UNCHANGED <<row, created>>
  BY DEF CrashAndResume, Fresh, store
<1> QED
  BY <1>1, NoItemsType
  DEF IInv, Types, TaskStates, Batched, MemAgrees, TaskAgrees, CopyAgrees, Announced, CreatedOnce

LEMMA Inductive == IInv /\ [Next]_vars => IInv'
<1> SUFFICES ASSUME IInv, [Next]_vars PROVE IInv'
  OBVIOUS
<1>1. CASE UNCHANGED vars
  BY <1>1 DEF vars, store, locals, batch, backfill, IInv, Types, Batched, MemAgrees, TaskAgrees,
     CopyAgrees, Announced, CreatedOnce
<1>2. CASE RunStep
  BY <1>2, PassSteps, ItemSteps, Sweeps DEF RunStep
<1>3. CASE Next /\ ~RunStep
  BY <1>3, PassFaults, ItemFaults, BackfillSteps, RequestSteps, Crashes DEF Next
<1> QED
  BY <1>1, <1>2, <1>3

LEMMA Invariance == Spec => []IInv
  BY Initial0, Inductive, PTL DEF Spec

(* No item is announced twice, and none that is not verified, whatever     *)
(* crashes, faults, requests and backfills do.                             *)
THEOREM AnnouncedOnce == Spec => []CreatedOnce
<1>1. IInv => CreatedOnce
  BY DEF IInv
<1> QED
  BY <1>1, Invariance, PTL

(* What saving a copy does to verdicts: none changes. *)
LEMMA SaveKeeps ==
  ASSUME IInv, NEW i \in Items, NEW item, SaveItem(i, item),
         row[i].ver \in Verdict => item.ver = row[i].ver
  PROVE  \A j \in Items : row[j].ver \in Verdict => row'[j].ver = row[j].ver
  BY DEF IInv, Types, SaveItem

Final == \A i \in Items : row[i].ver \in Verdict => row'[i].ver = row[i].ver

LEMMA VerdictStep == IInv /\ [Next]_vars => Final
<1> SUFFICES ASSUME IInv, [Next]_vars PROVE Final
  OBVIOUS
<1> USE DEF Final
<1>1. CASE UNCHANGED row
  BY <1>1
<1>2. ASSUME NEW i \in Items, SaveNew(i)
      PROVE  Final
  BY <1>2, InBatch, SaveKeeps DEF SaveNew, IInv, TaskAgrees, RowsFor, Verdict
<1>3. ASSUME NEW i \in Items, Judge(i), ~UNCHANGED row
      PROVE  Final
  <2>1. row[i].ver \notin Verdict /\ \E item : SaveItem(i, item)
    BY <1>3, InBatch DEF Judge, RowsFor, Verdict
  <2> QED
    BY <2>1, SaveKeeps
<1>4. ASSUME NEW i \in Items, SaveField(i)
      PROVE  Final
  <2>1. PICK f \in todo[i], v \in {"resolved", "unresolved"} :
          SaveItem(i, [mem[i] EXCEPT !.val[f] = v])
    BY <1>4 DEF SaveField
  <2> DEFINE item == [mem[i] EXCEPT !.val[f] = v]
  <2>2. item.ver = "verified"
    BY <1>4, InBatch DEF SaveField, IInv, TaskAgrees, ItemType
  <2>3. row[i].ver \in {"pending", "verified"}
    BY <1>4, InBatch DEF SaveField, IInv, TaskAgrees, RowsFor
  <2>4. SaveItem(i, item)
    BY <2>1
  <2> HIDE DEF item
  <2> QED
    BY <2>2, <2>3, <2>4, SaveKeeps DEF Verdict
<1>5. CASE SettlePendingItems
  <2>1. ASSUME NEW i \in Items, mem[i].ver = "pending", NEW item, SaveItem(i, item)
        PROVE  Final
    BY <1>5, <2>1, SaveKeeps DEF SettlePendingItems, IInv, MemAgrees, RowsFor, Verdict
  <2> QED
    BY <1>1, <1>5, <2>1 DEF SettlePendingItems
<1>6. CASE SettleMissingFields
  <2>1. ASSUME NEW i \in Items, mem[i].ver = "verified", SaveItem(i, Settled(mem[i]))
        PROVE  Final
    <3>1. row[i].ver \in {"pending", "verified"}
      BY <1>6, <2>1 DEF SettleMissingFields, IInv, MemAgrees, RowsFor
    <3>2. Settled(mem[i]).ver = "verified"
      BY <2>1, SettledType DEF IInv, Types
    <3> QED
      BY <2>1, <3>1, <3>2, SaveKeeps DEF Verdict
  <2> QED
    BY <1>1, <1>6, <2>1 DEF SettleMissingFields
<1>7. ASSUME NEW f \in Late, BSave(f)
      PROVE  Final
  <2>1. PICK i \in bcur[f], v \in {"resolved", "unresolved"} :
          SaveItem(i, [copy[f][i] EXCEPT !.val[f] = v])
    BY <1>7 DEF BSave
  <2> DEFINE item == [copy[f][i] EXCEPT !.val[f] = v]
  <2>2. i \in Items /\ copy[f][i].ver = "verified" /\ row[i].ver = "verified"
    BY DEF IInv, Types, CopyAgrees
  <2>3. copy[f][i] \in ItemType
    BY <2>2 DEF IInv, Types
  <2>4. item.ver = "verified" /\ SaveItem(i, item)
    BY <2>1, <2>2, <2>3 DEF ItemType
  <2> HIDE DEF item
  <2> QED
    BY <2>2, <2>4, SaveKeeps
<1>8. CASE RunStep
  <2>1. CASE \E i \in Items : ItemStep(i)
    BY <1>1, <1>2, <1>3, <1>4, <2>1
    DEF ItemStep, Acquire, EmitCreated, NextField, EmitEnriched
  <2>2. CASE ~\E i \in Items : ItemStep(i)
    BY <1>1, <1>5, <1>6, <1>8, <2>2
    DEF RunStep, store, Load, PickSearch, SearchesDone, LeaveVariants, Recall, BatchDone, SettleSearch,
        Finalize, ListDefs, WriteDef, DefsSettled, DriveNewcomers, SetIdle, Fail, SetFailed
  <2> QED
    BY <2>1, <2>2
<1>9. CASE \E f \in Late : BackfillStep(f)
  BY <1>1, <1>7, <1>9
  DEF store, statuses, BackfillStep, BLoad, BOpen, BPick, BEmit, BStatus, BClose, BFlip
<1>10. CASE PassFault \/ (\E i \in Items : ItemFault(i)) \/ (\E f \in Late : BackfillFault(f))
            \/ AddSearch \/ CancelWebset \/ CrashAndResume
            \/ (\E f \in Late : AddEnrichment(f)) \/ (\E f \in Removable : RemoveEnrichment(f))
  BY <1>1, <1>10
  DEF store, PassFault, ItemFault, BackfillFault, AddSearch, CancelWebset, CrashAndResume,
      AddEnrichment, RemoveEnrichment
<1>11. CASE UNCHANGED vars
  BY <1>1, <1>11 DEF vars, store
<1> QED
  BY <1>8, <1>9, <1>10, <1>11 DEF Next

(* A verdict, once stored, is never changed. *)
THEOREM VerdictStays == Spec => VerdictIsFinal
  BY Invariance, VerdictStep, PTL DEF Spec, VerdictIsFinal, Final
-----------------------------------------------------------------------------
(* While nothing fails the run's copies have the verdicts of their rows,   *)
(* so that no row becomes verified but by the task that announces it.      *)
Calm == crashes = 0 /\ faults = 0

Told(i) == task[i] = "created" \/ \E s \in Searches : <<i, s>> \in created

Driven ==
  /\ crashes \in Nat /\ faults \in Nat /\ queue \subseteq Searches
  /\ pc \in {"variant", "batch"} => cur \in Searches

AInv ==
  /\ Driven
  /\ Calm /\ pc \notin {"off", "load"} => \A i \in Items : mem[i].ver = row[i].ver
  /\ VerifiedIsAnnounced

LEMMA InitialA == Init => AInv
  BY NoItemsType DEF Init, AInv, Driven, Calm, VerifiedIsAnnounced, Searches

(* A step that changes no verdict of a row or of a copy it keeps. *)
LEMMA Silent ==
  ASSUME IInv, AInv, Driven', Calm' => Calm,
         \A i \in Items : row'[i].ver = "verified" => row[i].ver = "verified",
         \A i \in Items : task[i] = "created" => task'[i] = "created",
         UNCHANGED created,
         \/ pc' \in {"off", "load"}
         \/ /\ pc \notin {"off", "load"}
            /\ \A i \in Items : mem'[i].ver = mem[i].ver /\ row'[i].ver = row[i].ver
  PROVE  AInv'
  BY DEF AInv, Calm, VerifiedIsAnnounced

(* The run writes a copy whose verdict is the row's, or about to be told. *)
LEMMA Written ==
  ASSUME IInv, AInv, NEW i \in Items, NEW item \in ItemType, NEW l,
         pc \notin {"off", "load"}, SaveItem(i, item), Remember(i, item),
         task' = [task EXCEPT ![i] = l], task[i] # "created",
         item.ver = "verified" => l = "created" \/ mem[i].ver = "verified",
         UNCHANGED <<pc, queue, cur, created, crashes, faults>>
  PROVE  AInv'
<1>1. /\ row'[i] = item /\ mem'[i] = item /\ task'[i] = l
      /\ \A j \in Items \ {i} : row'[j] = row[j] /\ mem'[j] = mem[j] /\ task'[j] = task[j]
  BY DEF IInv, Types, SaveItem, Remember
<1>2. Driven'
  BY DEF AInv, Driven
<1>3. Calm /\ pc \notin {"off", "load"} => \A j \in Items : mem'[j].ver = row'[j].ver
  BY <1>1 DEF AInv
<1>4. VerifiedIsAnnounced'
  <2> SUFFICES ASSUME Calm, NEW j \in Items, row'[j].ver = "verified"
      PROVE  Told(j)'
    BY DEF VerifiedIsAnnounced, Calm, Told
  <2>1. CASE j # i
    BY <1>1, <2>1 DEF AInv, VerifiedIsAnnounced, Calm, Told
  <2>2. CASE j = i
    <3>1. CASE l = "created"
      BY <1>1, <2>2, <3>1 DEF Told
    <3>2. CASE l # "created"
      <4>1. row[i].ver = "verified"
        BY <1>1, <2>2, <3>2 DEF AInv
      <4> QED
        BY <2>2, <4>1 DEF AInv, VerifiedIsAnnounced, Calm, Told
    <3> QED
      BY <3>1, <3>2
  <2> QED
    BY <2>1, <2>2
<1> QED
  BY <1>2, <1>3, <1>4 DEF AInv, Calm

LEMMA ItemStepsA ==
  ASSUME IInv, AInv, NEW i \in Items, ItemStep(i)
  PROVE  AInv'
<1> USE DEF Frame, bounds, pass, Step
<1>1. /\ UNCHANGED <<pc, queue, cur, crashes, faults>> /\ task[i] # "none"
      /\ pc = "batch" /\ pc \notin {"off", "load"} /\ mem[i] \in ItemType
  BY InBatch DEF ItemStep, Acquire, SaveNew, Judge, EmitCreated, NextField, SaveField, EmitEnriched
<1>2. Driven' /\ (Calm' => Calm)
  BY <1>1 DEF AInv, Driven, Calm
<1>3. ASSUME NEW l, task[i] # "created", task' = [task EXCEPT ![i] = l], UNCHANGED <<row, mem, created>>
      PROVE  AInv'
  <2>1. \A j \in Items : task[j] = "created" => task'[j] = "created"
    BY <1>3 DEF IInv, Types
  <2> QED
    BY <1>1, <1>2, <1>3, <2>1, Silent
<1>4. CASE Acquire(i)
  BY <1>3, <1>4 DEF Acquire
<1>5. CASE NextField(i)
  <2>1. task[i] # "created" /\ UNCHANGED <<row, mem, created>> /\ \E l : task' = [task EXCEPT ![i] = l]
    BY <1>5 DEF NextField
  <2> QED
    BY <1>3, <2>1
<1>6. CASE EmitEnriched(i)
  BY <1>3, <1>6 DEF EmitEnriched
<1>7. CASE SaveNew(i)
  <2> DEFINE item == [NoItem EXCEPT !.ver = "pending"]
  <2>1. item \in ItemType /\ item.ver = "pending"
    BY DEF NoItem, ItemType, Value
  <2>2. /\ SaveItem(i, item) /\ Remember(i, item) /\ task' = [task EXCEPT ![i] = "fetch"]
        /\ task[i] # "created" /\ UNCHANGED created
    BY <1>7 DEF SaveNew
  <2> HIDE DEF item
  <2> QED
    BY <1>1, <2>1, <2>2, Written
<1>8. CASE Judge(i)
  <2>1. CASE mem[i].ver = "pending"
    <3>1. PICK v \in Verdict :
            LET item == [mem[i] EXCEPT !.ver = v] IN
            /\ SaveItem(i, item) /\ Remember(i, item)
            /\ task' = [task EXCEPT ![i] = IF v = "verified" THEN "created" ELSE "none"]
      BY <1>8, <2>1 DEF Judge
    <3> DEFINE item == [mem[i] EXCEPT !.ver = v]
    <3>2. item \in ItemType /\ item.ver = v /\ UNCHANGED created /\ task[i] # "created"
      BY <1>1, <1>8 DEF ItemType, Judge
    <3>3. SaveItem(i, item) /\ Remember(i, item)
      BY <3>1
    <3> HIDE DEF item
    <3> QED
      BY <1>1, <3>1, <3>2, <3>3, Written
  <2>2. CASE mem[i].ver # "pending"
    BY <1>3, <1>8, <2>2 DEF Judge
  <2> QED
    BY <2>1, <2>2
<1>9. CASE SaveField(i)
  <2>1. PICK f \in todo[i], v \in {"resolved", "unresolved"} :
          LET item == [mem[i] EXCEPT !.val[f] = v] IN SaveItem(i, item) /\ Remember(i, item)
    BY <1>9 DEF SaveField
  <2> DEFINE item == [mem[i] EXCEPT !.val[f] = v]
  <2>2. mem[i].ver = "verified" /\ task[i] # "created"
    BY <1>9 DEF SaveField, IInv, TaskAgrees
  <2>3. item \in ItemType
    BY <1>1 DEF ItemType, Value
  <2>4. SaveItem(i, item) /\ Remember(i, item) /\ task' = [task EXCEPT ![i] = "fields"] /\ UNCHANGED created
    BY <1>9, <2>1 DEF SaveField
  <2> HIDE DEF item
  <2> QED
    BY <1>1, <2>2, <2>3, <2>4, Written
<1>10. CASE EmitCreated(i)
  <2>1. /\ created' = created \cup {<<i, cur>>} /\ task' = [task EXCEPT ![i] = "fields"]
        /\ UNCHANGED <<row, mem>> /\ cur \in Searches
    BY <1>1, <1>10 DEF EmitCreated, AInv, Driven
  <2>2. \A j \in Items : Told(j) => Told(j)'
    BY <2>1 DEF IInv, Types, Told
  <2> QED
    BY <1>1, <1>2, <2>1, <2>2 DEF AInv, Calm, VerifiedIsAnnounced, Told
<1> QED
  BY <1>4, <1>5, <1>6, <1>7, <1>8, <1>9, <1>10 DEF ItemStep

LEMMA PassStepsA ==
  ASSUME IInv, AInv, RunStep, ~\E i \in Items : ItemStep(i)
  PROVE  AInv'
<1> USE DEF bounds, store, locals, pass, batch
<1>1. UNCHANGED <<created, crashes, faults>> /\ (Calm' => Calm)
  BY DEF RunStep, Load, PickSearch, SearchesDone, LeaveVariants, Recall, BatchDone, SettleSearch,
     SettlePendingItems, SettleMissingFields, Finalize, ListDefs, WriteDef, DefsSettled,
     DriveNewcomers, SetIdle, Fail, SetFailed, Calm
<1>2. Driven'
  <2>1. CASE Return
    BY <1>1, <2>1 DEF Return, Fresh, AInv, Driven
  <2>2. CASE Raise
    BY <1>1, <2>2 DEF Raise, Raising, AInv, Driven
  <2>3. CASE NextSearch
    BY <1>1, <2>3 DEF NextSearch, AInv, Driven
  <2>4. CASE UNCHANGED <<queue, cur>> /\ (pc' \in {"variant", "batch"} => pc \in {"variant", "batch"})
    BY <1>1, <2>4 DEF AInv, Driven
  <2>5. CASE Load \/ PickSearch \/ DriveNewcomers
    BY <1>1, <2>1, <2>2, <2>5 DEF Load, PickSearch, DriveNewcomers, Goto, Running, AInv, Driven
  <2> QED
    BY <2>1, <2>2, <2>3, <2>4, <2>5
    DEF RunStep, SearchesDone, LeaveVariants, Recall, BatchDone, SettleSearch,
        SettlePendingItems, SettleMissingFields, Finalize, ListDefs, WriteDef, DefsSettled,
        SetIdle, Fail, SetFailed, Goto
<1>3. \A i \in Items : task[i] = "created" => task'[i] = "created"
  <2>1. CASE Recall
    BY <2>1, NoTasks DEF Recall
  <2> QED
    BY <2>1 DEF RunStep, Load, PickSearch, SearchesDone, LeaveVariants, BatchDone, SettleSearch,
     SettlePendingItems, SettleMissingFields, Finalize, ListDefs, WriteDef, DefsSettled,
     DriveNewcomers, SetIdle, Fail, SetFailed
<1>4. CASE Load
  BY <1>1, <1>2, <1>3, <1>4 DEF Load, Return, Fresh, AInv, Calm, VerifiedIsAnnounced
<1>5. CASE SettlePendingItems
  <2>1. CASE UNCHANGED <<row, mem>>
    BY <1>1, <1>2, <1>3, <1>5, <2>1, Silent DEF SettlePendingItems
  <2>2. CASE ~UNCHANGED <<row, mem>>
    <3>1. PICK i \in Items : LET item == [mem[i] EXCEPT !.ver = "rejected"] IN
             SaveItem(i, item) /\ Remember(i, item)
      BY <1>5, <2>2 DEF SettlePendingItems, Goto
    <3> DEFINE item == [mem[i] EXCEPT !.ver = "rejected"]
    <3>2. item \in ItemType /\ item.ver = "rejected"
      BY DEF IInv, Types, ItemType, Verdict
    <3>3. SaveItem(i, item) /\ Remember(i, item)
      BY <3>1
    <3>4. UNCHANGED <<pc, queue, cur>> /\ pc \notin {"off", "load", "batch"} /\ task[i] # "created"
      BY <1>5, <2>2, NoTasks DEF SettlePendingItems, Goto
    <3>5. task' = [task EXCEPT ![i] = task[i]]
      BY <1>5 DEF SettlePendingItems, IInv, Types
    <3> HIDE DEF item
    <3> QED
      BY <1>1, <3>2, <3>3, <3>4, <3>5, Written
  <2> QED
    BY <2>1, <2>2
<1>6. CASE SettleMissingFields
  <2>1. CASE Return \/ UNCHANGED <<row, mem>>
    BY <1>1, <1>2, <1>3, <1>6, <2>1, Silent DEF SettleMissingFields, Return, Fresh
  <2>2. CASE ~(Return \/ UNCHANGED <<row, mem>>)
    <3>1. PICK i \in Items : /\ mem[i].ver = "verified"
             /\ SaveItem(i, Settled(mem[i])) /\ Remember(i, Settled(mem[i]))
             /\ UNCHANGED <<pc, queue, cur>>
      BY <1>6, <2>2 DEF SettleMissingFields, Goto
    <3>2. Settled(mem[i]) \in ItemType
      BY SettledType DEF IInv, Types
    <3>3. pc \notin {"off", "load", "batch"} /\ task[i] # "created"
      BY <1>6, NoTasks DEF SettleMissingFields
    <3>4. task' = [task EXCEPT ![i] = task[i]]
      BY <1>6 DEF SettleMissingFields, IInv, Types
    <3> QED
      BY <1>1, <3>1, <3>2, <3>3, <3>4, Written
  <2> QED
    BY <2>1, <2>2
<1>7. CASE ~Load /\ ~SettlePendingItems /\ ~SettleMissingFields
  <2>1. UNCHANGED row /\ (pc' \in {"off", "load"} \/ (pc \notin {"off", "load"} /\ UNCHANGED mem))
    BY <1>7 DEF RunStep, PickSearch, SearchesDone, LeaveVariants, Recall, BatchDone, SettleSearch,
     Finalize, ListDefs, WriteDef, DefsSettled, DriveNewcomers, SetIdle, Fail, SetFailed,
     Return, Fresh, Goto, NextSearch, Raise, Raising
  <2> QED
    BY <1>1, <1>2, <1>3, <2>1, Silent
<1> QED
  BY <1>4, <1>5, <1>6, <1>7

LEMMA InductiveA == IInv /\ AInv /\ [Next]_vars => AInv'
<1> SUFFICES ASSUME IInv, AInv, [Next]_vars PROVE AInv'
  OBVIOUS
<1> USE DEF bounds, store, statuses, locals, pass, batch, RunFrame, backfill
<1>1. CASE UNCHANGED <<pc, queue, cur, row, mem, task, created, crashes, faults>>
  BY <1>1 DEF AInv, Driven, Calm, VerifiedIsAnnounced
<1>2. CASE RunStep
  BY <1>2, ItemStepsA, PassStepsA
<1>3. CASE PassFault \/ (\E i \in Items : ItemFault(i)) \/ (\E f \in Late : BackfillFault(f)) \/ CrashAndResume
  <2>1. crashes \in Nat /\ faults \in Nat
    BY DEF AInv, Driven
  <2>2. ~Calm'
    BY <1>3, <2>1 DEF PassFault, ItemFault, BackfillFault, CrashAndResume, Calm
  <2>3. Driven'
    BY <1>3, <2>1 DEF PassFault, ItemFault, BackfillFault, CrashAndResume, Return, Fresh, Raise, Raising, AInv, Driven
  <2> QED
    BY <2>2, <2>3 DEF AInv, Calm, VerifiedIsAnnounced
<1>4. ASSUME NEW f \in Late, BackfillStep(f)
      PROVE  AInv'
  <2>1. CASE BSave(f)
    <3>1. PICK i \in bcur[f], v \in {"resolved", "unresolved"} :
            SaveItem(i, [copy[f][i] EXCEPT !.val[f] = v])
      BY <2>1 DEF BSave
    <3> DEFINE item == [copy[f][i] EXCEPT !.val[f] = v]
    <3>2. i \in Items /\ copy[f][i].ver = "verified" /\ row[i].ver = "verified"
      BY DEF IInv, Types, CopyAgrees
    <3>3. item.ver = "verified" /\ SaveItem(i, item)
      BY <3>1, <3>2 DEF IInv, Types, ItemType
    <3> HIDE DEF item
    <3>4. \A j \in Items : row'[j].ver = row[j].ver
      BY <3>2, <3>3 DEF SaveItem, IInv, Types
    <3>5. UNCHANGED <<pc, queue, cur, mem, task, created, crashes, faults>>
      BY <2>1 DEF BSave
    <3> QED
      BY <3>4, <3>5 DEF AInv, Driven, Calm, VerifiedIsAnnounced
  <2> QED
    BY <1>1, <1>4, <2>1 DEF BackfillStep, BLoad, BOpen, BPick, BEmit, BStatus, BClose, BFlip
<1>5. CASE AddSearch
  <2>1. CASE pc = "off"
    BY <1>5, <2>1 DEF AddSearch, Fresh, AInv, Driven, Calm, VerifiedIsAnnounced
  <2> QED
    BY <1>1, <1>5, <2>1 DEF AddSearch
<1> QED
  BY <1>1, <1>2, <1>3, <1>4, <1>5 DEF Next, vars, CancelWebset, AddEnrichment, RemoveEnrichment

(* While the server stays up and no store call fails, no verified item is  *)
(* left without its item.created event.                                    *)
THEOREM Announcing == Spec => []VerifiedIsAnnounced
<1>1. Init => IInv /\ AInv
  BY Initial0, InitialA
<1>2. IInv /\ AInv /\ [Next]_vars => IInv' /\ AInv'
  BY Inductive, InductiveA
<1>3. AInv => VerifiedIsAnnounced
  BY DEF AInv
<1> QED
  BY <1>1, <1>2, <1>3, PTL DEF Spec
=============================================================================
