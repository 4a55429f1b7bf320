------------------------ MODULE WebsetFieldsProofs ------------------------
(***************************************************************************)
(* What WebsetItems promises of fields as long as no run and backfill have *)
(* held copies of the items at once: a settled field keeps its value, an   *)
(* item.enriched event is true, and an idle webset at rest is complete.    *)
(* The argument: whoever has loaded is alone, and its copy has every field *)
(* its rows have.  It may have more of them, after a store call raised.    *)
(***************************************************************************)
EXTENDS WebsetItemsProofs

Loaded(l) == l \notin {"off", "load"}

(* The new item has every field of the old one. *)
Kept(old, new) == \A g \in Fields : old.val[g] # "none" => new.val[g] = old.val[g]

Shapes ==
  /\ bpc \in [Late -> {"off", "load", "open", "pick", "save", "emit", "status", "close", "flip"}]
  /\ todo \in [Items -> SUBSET Fields]
  /\ known \subseteq Fields

(* An item task is going to fill fields its copy lacks. *)
TodoMissing ==
  \A i \in Items :
    /\ todo[i] # {} => task[i] \in {"fields", "extract"}
    /\ \A f \in todo[i] : mem[i].val[f] = "none"

AbsentEmpty ==
  \A i \in Items : \A g \in Fields :
    /\ row[i].ver = "absent" => row[i].val[g] = "none"
    /\ mem[i].ver = "absent" => mem[i].val[g] = "none"

RunHolds ==
  ~overlapped /\ Loaded(pc) =>
    /\ \A f \in Late : ~Loaded(bpc[f])
    /\ \A i \in Items : Kept(row[i], mem[i])

Unsaved(f) == btodo[f] \cup (IF bpc[f] = "save" THEN bcur[f] ELSE {})

BackfillHolds ==
  ~overlapped =>
    \A f \in Late : Loaded(bpc[f]) =>
      /\ \A g \in Late : Loaded(bpc[g]) => g = f
      /\ btodo[f] \cap bcur[f] = {}
      /\ \A i \in btodo[f] \cup bcur[f] : Kept(row[i], copy[f][i])
      /\ \A i \in Unsaved(f) : row[i].val[f] = "none"

FInv == Shapes /\ TodoMissing /\ AbsentEmpty /\ RunHolds /\ BackfillHolds

FieldsKept == ~overlapped => \A i \in Items : Kept(row[i], row'[i])

LEMMA InitialF == Init => FInv
<1> SUFFICES ASSUME Init PROVE FInv
  OBVIOUS
<1>1. pc = "load" /\ bpc = [f \in Late |-> "off"]
  BY DEF Init
<1>2. \A i \in Items : \A g \in Fields : row[i].val[g] = "none" /\ mem[i].val[g] = "none"
  BY DEF Init, NoItems, NoItem
<1>3. Shapes /\ TodoMissing
  BY DEF Init, Shapes, TodoMissing
<1> QED
  BY <1>1, <1>2, <1>3 DEF FInv, AbsentEmpty, RunHolds, BackfillHolds, Loaded

(* Steps that leave the rows, the copies and the backfills alone. *)
LEMMA StillF ==
  ASSUME IInv, FInv, UNCHANGED <<row, todo, bpc, copy, btodo, bcur, overlapped>>,
         UNCHANGED mem \/ mem' = NoItems, known' \subseteq Fields,
         \A i \in Items : todo[i] # {} => task'[i] = task[i] /\ UNCHANGED mem,
         Loaded(pc') => Loaded(pc) /\ UNCHANGED mem
  PROVE  FInv' /\ FieldsKept
<1>1. Shapes' /\ TodoMissing'
  BY DEF FInv, Shapes, TodoMissing
<1>2. AbsentEmpty'
  BY DEF FInv, AbsentEmpty, NoItems, NoItem
<1>3. RunHolds' /\ BackfillHolds'
  BY DEF FInv, RunHolds, BackfillHolds, Unsaved, Kept
<1>4. FieldsKept
  BY DEF FieldsKept, Kept
<1> QED
  BY <1>1, <1>2, <1>3, <1>4 DEF FInv

LEMMA NoTodo ==
  ASSUME IInv, FInv, pc # "batch"
  PROVE  \A i \in Items : todo[i] = {} /\ task[i] = "none"
  BY NoTasks DEF FInv, TodoMissing

(* The run changes its copy of an item, and writes it or fails to. *)
LEMMA RunWrites ==
  ASSUME IInv, FInv, NEW i \in Items, NEW item \in ItemType, NEW t \in SUBSET Fields,
         NEW l, Loaded(pc), Loaded(pc'), item.ver # "absent", Kept(mem[i], item),
         mem' = [mem EXCEPT ![i] = item],
         row' = row \/ row' = [row EXCEPT ![i] = item],
         todo' = [todo EXCEPT ![i] = t], task' = [task EXCEPT ![i] = l],
         t # {} => l \in {"fields", "extract"},
         \A f \in t : item.val[f] = "none",
         UNCHANGED <<known, bpc, copy, btodo, bcur, overlapped>>
  PROVE  FInv' /\ FieldsKept
<1>1. /\ mem'[i] = item /\ todo'[i] = t /\ task'[i] = l
      /\ row'[i] = row[i] \/ row'[i] = item
      /\ \A j \in Items \ {i} :
           mem'[j] = mem[j] /\ row'[j] = row[j] /\ todo'[j] = todo[j] /\ task'[j] = task[j]
  BY DEF IInv, Types, FInv, Shapes
<1>2. Shapes'
  BY DEF FInv, Shapes
<1>3. TodoMissing'
  BY <1>1 DEF FInv, TodoMissing
<1>4. AbsentEmpty'
  BY <1>1 DEF FInv, AbsentEmpty
<1>5. ~overlapped => Kept(row[i], item)
  BY DEF FInv, RunHolds, Kept
<1>6. RunHolds'
  BY <1>1, <1>5 DEF FInv, RunHolds, Kept
<1>7. BackfillHolds'
  BY DEF FInv, RunHolds, BackfillHolds
<1>8. FieldsKept
  BY <1>1, <1>5 DEF FieldsKept, Kept
<1> QED
  BY <1>2, <1>3, <1>4, <1>6, <1>7, <1>8 DEF FInv

LEMMA SettingField ==
  ASSUME NEW item \in ItemType, NEW f \in Fields, NEW v \in Value, item.val[f] = "none"
  PROVE  /\ [item EXCEPT !.val[f] = v] \in ItemType
         /\ [item EXCEPT !.val[f] = v].ver = item.ver
         /\ Kept(item, [item EXCEPT !.val[f] = v])
         /\ \A g \in Fields \ {f} : [item EXCEPT !.val[f] = v].val[g] = item.val[g]
  BY DEF ItemType, Kept

LEMMA SettingVerdict ==
  ASSUME NEW item \in ItemType, NEW v \in Verdict
  PROVE  /\ [item EXCEPT !.ver = v] \in ItemType
         /\ [item EXCEPT !.ver = v].ver = v /\ [item EXCEPT !.ver = v].val = item.val
         /\ Kept(item, [item EXCEPT !.ver = v])
  BY DEF ItemType, Kept

LEMMA MissingFields ==
  ASSUME IInv, FInv, NEW i \in Items, NEW item
  PROVE  /\ Missing(item, known) \in SUBSET Fields
         /\ \A f \in Missing(item, known) : item.val[f] = "none"
  BY DEF Missing, FInv, Shapes

LEMMA ItemStepsF ==
  ASSUME IInv, FInv, NEW i \in Items, ItemStep(i)
  PROVE  FInv' /\ FieldsKept
<1> USE DEF Frame, backfill, bounds, Step
<1>1. ASSUME task[i] # "none" PROVE Loaded(pc) /\ mem[i] \in ItemType /\ Kept(mem[i], mem[i])
  BY <1>1, InBatch DEF Loaded, Kept
<1>2. /\ UNCHANGED <<pc, known, bpc, copy, btodo, bcur, overlapped>>
      /\ mem = [mem EXCEPT ![i] = mem[i]] /\ todo = [todo EXCEPT ![i] = todo[i]]
      /\ todo[i] \in SUBSET Fields
  BY DEF ItemStep, Acquire, SaveNew, Judge, EmitCreated, NextField, SaveField, EmitEnriched,
     IInv, Types, FInv, Shapes
(* Steps without a write. *)
<1>3. ASSUME NEW t \in SUBSET Fields, NEW l, task[i] # "none", mem[i].ver # "absent" \/ t = {},
             UNCHANGED <<row, mem>>, todo' = [todo EXCEPT ![i] = t], task' = [task EXCEPT ![i] = l],
             t # {} => l \in {"fields", "extract"}, \A f \in t : mem[i].val[f] = "none"
      PROVE  FInv' /\ FieldsKept
  <2>1. Shapes' /\ TodoMissing'
    BY <1>2, <1>3 DEF FInv, Shapes, TodoMissing, IInv, Types
  <2>2. AbsentEmpty' /\ RunHolds' /\ BackfillHolds' /\ FieldsKept
    BY <1>2, <1>3 DEF FInv, AbsentEmpty, RunHolds, BackfillHolds, Unsaved, FieldsKept, Kept
  <2> QED
    BY <2>1, <2>2 DEF FInv
<1>4. CASE Acquire(i)
  <2>1. todo[i] = {}
    BY <1>4 DEF Acquire, FInv, TodoMissing
  <2> QED
    BY <1>2, <1>3, <1>4, <2>1 DEF Acquire
<1>5. CASE SaveNew(i)
  <2> DEFINE item == [NoItem EXCEPT !.ver = "pending"]
  <2>1. item \in ItemType /\ item.ver = "pending" /\ todo[i] = {}
    BY <1>5 DEF NoItem, ItemType, Value, SaveNew, FInv, TodoMissing
  <2>2. Kept(mem[i], item)
    BY <1>5 DEF SaveNew, IInv, TaskAgrees, FInv, AbsentEmpty, Kept
  <2>3. /\ row' = [row EXCEPT ![i] = item] /\ mem' = [mem EXCEPT ![i] = item]
        /\ task' = [task EXCEPT ![i] = "fetch"] /\ UNCHANGED todo /\ task[i] # "none"
    BY <1>5 DEF SaveNew, SaveItem, Remember
  <2> HIDE DEF item
  <2> QED
    BY <1>1, <1>2, <2>1, <2>2, <2>3, RunWrites
<1>6. CASE Judge(i)
  <2>1. todo[i] = {} /\ task[i] # "none"
    BY <1>6 DEF Judge, FInv, TodoMissing
  <2>2. CASE mem[i].ver = "pending"
    <3>1. PICK v \in Verdict :
            LET item == [mem[i] EXCEPT !.ver = v] IN
            /\ SaveItem(i, item) /\ Remember(i, item)
            /\ task' = [task EXCEPT ![i] = IF v = "verified" THEN "created" ELSE "none"]
      BY <1>6, <2>2 DEF Judge
    <3> DEFINE item == [mem[i] EXCEPT !.ver = v]
    <3>2. item \in ItemType /\ item.ver # "absent" /\ Kept(mem[i], item)
      BY <1>1, <2>1, SettingVerdict DEF Verdict
    <3>3. /\ row' = [row EXCEPT ![i] = item] /\ mem' = [mem EXCEPT ![i] = item] /\ UNCHANGED todo
      BY <1>6, <2>2, <3>1 DEF Judge, SaveItem, Remember
    <3> HIDE DEF item
    <3> QED
      BY <1>1, <1>2, <2>1, <3>1, <3>2, <3>3, RunWrites
  <2>3. CASE mem[i].ver # "pending"
    BY <1>3, <1>6, <2>1, <2>3, MissingFields DEF Judge
  <2> QED
    BY <2>2, <2>3
<1>7. CASE EmitCreated(i)
  <2>1. mem[i].ver = "verified"
    BY <1>7 DEF EmitCreated, IInv, TaskAgrees
  <2> QED
    BY <1>3, <1>7, <2>1, MissingFields DEF EmitCreated
<1>8. CASE NextField(i)
  <2>1. mem[i].ver = "verified" /\ \A f \in todo[i] : mem[i].val[f] = "none"
    BY <1>8 DEF NextField, IInv, TaskAgrees, FInv, TodoMissing
  <2>2. CASE webset = "cancelled"
    <3>1. /\ todo' = [todo EXCEPT ![i] = {}] /\ task' = [task EXCEPT ![i] = "none"]
          /\ task[i] # "none" /\ UNCHANGED <<row, mem>> /\ {} \in SUBSET Fields
      BY <1>8, <2>2 DEF NextField
    <3> QED
      BY <1>3, <3>1
  <2>3. CASE webset # "cancelled"
    <3>1. /\ todo' = [todo EXCEPT ![i] = todo[i]] /\ task' = [task EXCEPT ![i] = "extract"]
          /\ task[i] # "none" /\ UNCHANGED <<row, mem>>
      BY <1>2, <1>8, <2>3 DEF NextField
    <3> QED
      BY <1>2, <1>3, <2>1, <3>1
  <2> QED
    BY <2>2, <2>3
<1>9. CASE SaveField(i)
  <2>1. PICK f \in todo[i], v \in {"resolved", "unresolved"} :
          /\ LET item == [mem[i] EXCEPT !.val[f] = v] IN SaveItem(i, item) /\ Remember(i, item)
          /\ todo' = [todo EXCEPT ![i] = @ \ {f}]
    BY <1>9 DEF SaveField
  <2> DEFINE item == [mem[i] EXCEPT !.val[f] = v]
             t == todo[i] \ {f}
  <2>2. mem[i].ver = "verified" /\ f \in Fields /\ \A g \in todo[i] : mem[i].val[g] = "none"
    BY <1>2, <1>9 DEF SaveField, IInv, TaskAgrees, FInv, TodoMissing
  <2>3. /\ item \in ItemType /\ item.ver = "verified" /\ Kept(mem[i], item)
        /\ \A g \in Fields \ {f} : item.val[g] = mem[i].val[g]
    <3>1. mem[i] \in ItemType /\ v \in Value /\ mem[i].val[f] = "none"
      BY <1>1, <1>9, <2>2 DEF Value, SaveField
    <3> QED
      BY <2>2, <3>1, SettingField
  <2>4. t \in SUBSET Fields /\ \A g \in t : item.val[g] = "none"
    BY <1>2, <2>2, <2>3
  <2>5. /\ row' = [row EXCEPT ![i] = item] /\ mem' = [mem EXCEPT ![i] = item]
        /\ task' = [task EXCEPT ![i] = "fields"] /\ todo' = [todo EXCEPT ![i] = t] /\ task[i] # "none"
    BY <1>9, <2>1 DEF SaveField, SaveItem, Remember
  <2> HIDE DEF item, t
  <2> QED
    BY <1>1, <1>2, <2>3, <2>4, <2>5, RunWrites
<1>10. CASE EmitEnriched(i)
  BY <1>2, <1>3, <1>10 DEF EmitEnriched
<1> QED
  BY <1>4, <1>5, <1>6, <1>7, <1>8, <1>9, <1>10 DEF ItemStep

LEMMA ItemFaultsF ==
  ASSUME IInv, FInv, NEW i \in Items, ItemFault(i)
  PROVE  FInv' /\ FieldsKept
<1> USE DEF backfill, store, Step
<1>1. /\ task[i] # "none" /\ Loaded(pc) /\ mem[i] \in ItemType
  BY InBatch DEF ItemFault, Loaded
<1>2. /\ UNCHANGED <<pc, known, row, bpc, copy, btodo, bcur, overlapped>>
      /\ task' = [task EXCEPT ![i] = "none"] /\ todo' = [todo EXCEPT ![i] = {}]
  BY DEF ItemFault
<1>3. CASE UNCHANGED mem
  <2>1. Shapes' /\ TodoMissing'
    BY <1>2, <1>3 DEF FInv, Shapes, TodoMissing, IInv, Types
  <2>2. AbsentEmpty' /\ RunHolds' /\ BackfillHolds' /\ FieldsKept
    BY <1>2, <1>3 DEF FInv, AbsentEmpty, RunHolds, BackfillHolds, Unsaved, FieldsKept, Kept
  <2> QED
    BY <2>1, <2>2 DEF FInv
<1>4. ASSUME NEW item \in ItemType, item.ver # "absent", Kept(mem[i], item), Remember(i, item)
      PROVE  FInv' /\ FieldsKept
  <2>1. mem' = [mem EXCEPT ![i] = item] /\ Loaded(pc') /\ {} \in SUBSET Fields
    BY <1>1, <1>2, <1>4 DEF Remember
  <2> QED
    BY <1>1, <1>2, <1>4, <2>1, RunWrites
<1>5. CASE \E v \in Verdict : Remember(i, [mem[i] EXCEPT !.ver = v])
  <2>1. PICK v \in Verdict : Remember(i, [mem[i] EXCEPT !.ver = v])
    BY <1>5
  <2> DEFINE item == [mem[i] EXCEPT !.ver = v]
  <2>2. item \in ItemType /\ item.ver # "absent" /\ Kept(mem[i], item) /\ Remember(i, item)
    BY <1>1, <2>1, SettingVerdict DEF Verdict
  <2> HIDE DEF item
  <2> QED
    BY <1>4, <2>2
<1>6. CASE task[i] = "extract" /\ \E f \in todo[i], v \in {"resolved", "unresolved"} :
             Remember(i, [mem[i] EXCEPT !.val[f] = v])
  <2>1. PICK f \in todo[i], v \in {"resolved", "unresolved"} :
             Remember(i, [mem[i] EXCEPT !.val[f] = v])
    BY <1>6
  <2> DEFINE item == [mem[i] EXCEPT !.val[f] = v]
  <2>2. f \in Fields /\ mem[i].val[f] = "none" /\ mem[i].ver = "verified" /\ v \in Value
    BY <1>6 DEF FInv, Shapes, TodoMissing, IInv, TaskAgrees, Value
  <2>3. item \in ItemType /\ item.ver # "absent" /\ Kept(mem[i], item) /\ Remember(i, item)
    BY <1>1, <2>1, <2>2, SettingField
  <2> HIDE DEF item
  <2> QED
    BY <1>4, <2>3
<1> QED
  BY <1>3, <1>5, <1>6 DEF ItemFault
-----------------------------------------------------------------------------
(* The steps of the pass between the batches write no row. *)
LEMMA PassStepsF ==
  ASSUME IInv, FInv,
         \/ Load \/ PickSearch \/ SearchesDone \/ LeaveVariants \/ Recall \/ BatchDone
         \/ SettleSearch \/ Finalize \/ ListDefs \/ WriteDef \/ DefsSettled
         \/ DriveNewcomers \/ SetIdle \/ Fail \/ SetFailed
  PROVE  FInv' /\ FieldsKept
<1> USE DEF backfill, batch, bounds, store, locals, pass
<1>1. known \subseteq Fields /\ Loaded("next") /\ ~Loaded("load") /\ ~Loaded("off")
  BY DEF FInv, Shapes, Loaded
<1>2. CASE Load
  <2>0. pc = "load" /\ \A i \in Items : todo[i] = {}
    BY <1>2, NoTodo DEF Load
  <2>1. CASE Return
    <3>1. Shapes' /\ TodoMissing' /\ AbsentEmpty'
      BY <1>2, <2>0, <2>1 DEF Load, Return, Fresh, FInv, Shapes, TodoMissing, AbsentEmpty, NoItems, NoItem
    <3>2. RunHolds'
      BY <1>1, <2>1 DEF Return, Fresh, RunHolds
    <3>3. (~overlapped' => ~overlapped) /\ UNCHANGED <<row, bpc, copy, btodo, bcur>>
      BY <1>2 DEF Load
    <3>4. BackfillHolds' /\ FieldsKept
      BY <3>3 DEF FInv, BackfillHolds, Unsaved, FieldsKept, Kept
    <3> QED
      BY <3>1, <3>2, <3>4 DEF FInv
  <2>2. CASE ~Return
    <3>1. /\ mem' = row /\ known' = Attached /\ UNCHANGED <<row, batch, bpc, copy, btodo, bcur>>
          /\ overlapped' = (overlapped \/ \E f \in Late : bpc[f] # "off")
      BY <1>2, <2>2 DEF Load
    <3>2. Shapes' /\ TodoMissing' /\ AbsentEmpty'
      BY <2>0, <3>1 DEF FInv, Shapes, TodoMissing, AbsentEmpty, Attached
    <3>3. ~overlapped' => ~overlapped /\ \A f \in Late : bpc[f] = "off"
      BY <3>1
    <3>4. RunHolds'
      BY <3>1, <3>3 DEF RunHolds, Kept, Loaded
    <3>5. BackfillHolds' /\ FieldsKept
      BY <3>1, <3>3 DEF BackfillHolds, FieldsKept, Kept, Loaded
    <3> QED
      BY <3>2, <3>4, <3>5 DEF FInv
  <2> QED
    BY <2>1, <2>2
<1>3. CASE ~Load /\ Return
  <2>1. pc \notin {"off", "batch"} /\ UNCHANGED <<row, todo, task, bpc, copy, btodo, bcur, overlapped>>
    BY <1>3 DEF PickSearch, SearchesDone, LeaveVariants, Recall, BatchDone, SettleSearch, Finalize,
       ListDefs, WriteDef, DefsSettled, DriveNewcomers, SetIdle, Fail, SetFailed, Return, Fresh, Goto,
       NextSearch, Raise, Raising
  <2>2. mem' = NoItems /\ known' = {} /\ ~Loaded(pc')
    BY <1>1, <1>3 DEF Return, Fresh
  <2>3. \A i \in Items : todo[i] = {}
    BY <2>1, NoTodo
  <2> QED
    BY <2>1, <2>2, <2>3, StillF
<1>4. CASE ~Load /\ ~Return
  <2>1. /\ pc \notin {"off", "load"}
        /\ UNCHANGED <<row, mem, known, todo, bpc, copy, btodo, bcur, overlapped>>
        /\ pc # "batch" \/ UNCHANGED task
    BY <1>4 DEF PickSearch, SearchesDone, LeaveVariants, Recall, BatchDone, SettleSearch, Finalize,
       ListDefs, WriteDef, DefsSettled, DriveNewcomers, SetIdle, Fail, SetFailed, Goto,
       NextSearch, Raise, Raising
  <2>2. Loaded(pc) /\ \A i \in Items : todo[i] # {} => task'[i] = task[i]
    BY <2>1, NoTodo DEF Loaded
  <2> QED
    BY <1>1, <2>1, <2>2, StillF
<1> QED
  BY <1>2, <1>3, <1>4

LEMMA SettledKeeps ==
  ASSUME NEW item \in ItemType
  PROVE  Kept(item, Settled(item))
  BY DEF ItemType, Settled, Missing, Kept

(* The settlement sweeps extend one copy after the other, and the fault of *)
(* a sweep leaves the copy ahead of its row.                               *)
LEMMA SweepsF ==
  ASSUME IInv, FInv, SettlePendingItems \/ SettleMissingFields \/ PassFault
  PROVE  FInv' /\ FieldsKept
<1> USE DEF backfill, batch, bounds, store, locals, pass
<1>1. /\ pc \notin {"off", "batch"} /\ \A i \in Items : todo[i] = {} /\ task[i] = "none"
      /\ known \subseteq Fields
  BY NoTodo DEF SettlePendingItems, SettleMissingFields, PassFault, FInv, Shapes
<1>2. UNCHANGED <<todo, task, bpc, copy, btodo, bcur, overlapped>>
  BY DEF SettlePendingItems, SettleMissingFields, PassFault
<1>3. ASSUME NEW i \in Items, NEW item \in ItemType, item.ver # "absent", Kept(mem[i], item),
             pc # "load", Loaded(pc'), Remember(i, item), row' = row \/ SaveItem(i, item),
             UNCHANGED known
      PROVE  FInv' /\ FieldsKept
  <2>1. /\ todo' = [todo EXCEPT ![i] = {}] /\ task' = [task EXCEPT ![i] = "none"]
        /\ {} \in SUBSET Fields /\ Loaded(pc)
    BY <1>1, <1>2, <1>3 DEF IInv, Types, FInv, Shapes, Loaded
  <2>2. mem' = [mem EXCEPT ![i] = item] /\ (row' = row \/ row' = [row EXCEPT ![i] = item])
    BY <1>3 DEF Remember, SaveItem
  <2>3. /\ UNCHANGED <<bpc, copy, btodo, bcur, overlapped>>
        /\ Loaded(pc') /\ Kept(mem[i], item) /\ item.ver # "absent" /\ known' = known
    BY <1>2, <1>3
  <2> HIDE DEF backfill, batch, bounds, store, locals, pass
  <2> QED
    BY <2>1, <2>2, <2>3, RunWrites
<1>4. ASSUME NEW i \in Items
      PROVE  /\ mem[i].ver = "pending" =>
                  /\ [mem[i] EXCEPT !.ver = "rejected"] \in ItemType
                  /\ [mem[i] EXCEPT !.ver = "rejected"].ver # "absent"
                  /\ Kept(mem[i], [mem[i] EXCEPT !.ver = "rejected"])
             /\ mem[i].ver = "verified" =>
                  /\ Settled(mem[i]) \in ItemType /\ Settled(mem[i]).ver # "absent"
                  /\ Kept(mem[i], Settled(mem[i]))
  <2>1. mem[i] \in ItemType /\ "rejected" \in Verdict
    BY DEF IInv, Types, Verdict
  <2> QED
    BY <2>1, SettingVerdict, SettledType, SettledKeeps
<1>5. CASE UNCHANGED <<row, mem, known>> /\ (Loaded(pc') => Loaded(pc))
  BY <1>1, <1>2, <1>5, StillF
<1>6. CASE Return /\ UNCHANGED row
  <2>1. mem' = NoItems /\ known' = {} /\ ~Loaded(pc')
    BY <1>6 DEF Return, Fresh, Loaded
  <2> QED
    BY <1>1, <1>2, <1>6, <2>1, StillF
<1>7. CASE SettlePendingItems
  <2>1. CASE \E i \in Items : LET item == [mem[i] EXCEPT !.ver = "rejected"] IN
               mem[i].ver = "pending" /\ SaveItem(i, item) /\ Remember(i, item) /\ UNCHANGED <<pc, known>>
    <3>1. PICK i \in Items : LET item == [mem[i] EXCEPT !.ver = "rejected"] IN
               mem[i].ver = "pending" /\ SaveItem(i, item) /\ Remember(i, item) /\ UNCHANGED <<pc, known>>
      BY <2>1
    <3>2. pc # "load" /\ Loaded(pc')
      BY <1>7, <3>1 DEF SettlePendingItems, Loaded
    <3> QED
      BY <1>3, <1>4, <3>1, <3>2
  <2>2. CASE UNCHANGED <<row, mem, known>> /\ Loaded(pc)
    BY <1>5, <2>2
  <2> QED
    BY <1>7, <2>1, <2>2 DEF SettlePendingItems, Goto, Loaded
<1>8. CASE SettleMissingFields
  <2>1. CASE \E i \in Items : mem[i].ver = "verified" /\ SaveItem(i, Settled(mem[i]))
               /\ Remember(i, Settled(mem[i])) /\ UNCHANGED <<pc, known>>
    <3>1. PICK i \in Items : mem[i].ver = "verified" /\ SaveItem(i, Settled(mem[i]))
               /\ Remember(i, Settled(mem[i])) /\ UNCHANGED <<pc, known>>
      BY <2>1
    <3>2. pc # "load" /\ Loaded(pc')
      BY <1>8, <3>1 DEF SettleMissingFields, Loaded
    <3> QED
      BY <1>3, <1>4, <3>1, <3>2
  <2>2. CASE UNCHANGED <<row, mem, known>> /\ Loaded(pc)
    BY <1>5, <2>2
  <2> QED
    BY <1>6, <1>8, <2>1, <2>2 DEF SettleMissingFields, Goto, Loaded
<1>9. CASE PassFault
  <2>1. CASE Return
    BY <1>6, <1>9, <2>1 DEF PassFault
  <2>2. CASE Raise /\ ~Return
    BY <1>5, <1>9, <2>2 DEF PassFault, Raise, Raising, Loaded
  <2>3. CASE pc = "pending" /\ Raising /\ UNCHANGED known /\ \E i \in Items :
               mem[i].ver = "pending" /\ Remember(i, [mem[i] EXCEPT !.ver = "rejected"])
    <3>1. PICK i \in Items :
               mem[i].ver = "pending" /\ Remember(i, [mem[i] EXCEPT !.ver = "rejected"])
      BY <2>3
    <3> QED
      BY <1>3, <1>4, <1>9, <2>3, <3>1 DEF PassFault, Raising, Loaded
  <2>4. CASE pc \in {"fields", "skip"} /\ Raising /\ UNCHANGED known /\ \E i \in Items :
               mem[i].ver = "verified" /\ Remember(i, Settled(mem[i]))
    <3>1. PICK i \in Items : mem[i].ver = "verified" /\ Remember(i, Settled(mem[i]))
      BY <2>4
    <3> QED
      BY <1>3, <1>4, <1>9, <2>4, <3>1 DEF PassFault, Raising, Loaded
  <2> QED
    BY <1>9, <2>1, <2>2, <2>3, <2>4 DEF PassFault
<1> QED
  BY <1>7, <1>8, <1>9
-----------------------------------------------------------------------------
(* A backfill moves on without a write, or ends. *)
LEMMA BackfillMoves ==
  ASSUME IInv, FInv, NEW f \in Late, NEW l, Loaded(l) => Loaded(bpc[f]),
         Shapes', bpc' = [bpc EXCEPT ![f] = l],
         UNCHANGED <<pc, row, mem, task, todo, overlapped>>,
         \A g \in Late \ {f} :
           copy'[g] = copy[g] /\ btodo'[g] = btodo[g] /\ bcur'[g] = bcur[g],
         Loaded(l) =>
           /\ copy'[f] = copy[f] /\ btodo'[f] \cap bcur'[f] = {}
           /\ btodo'[f] \cup bcur'[f] \subseteq btodo[f] \cup bcur[f]
           /\ Unsaved(f)' \subseteq Unsaved(f)
  PROVE  FInv' /\ FieldsKept
<1>1. \A g \in Late : bpc'[g] = IF g = f THEN l ELSE bpc[g]
  BY DEF FInv, Shapes
<1>2. TodoMissing' /\ AbsentEmpty' /\ FieldsKept
  BY DEF FInv, TodoMissing, AbsentEmpty, FieldsKept, Kept
<1>3. RunHolds'
  BY <1>1 DEF FInv, RunHolds
<1>4. \A g \in Late : Loaded(bpc'[g]) => Loaded(bpc[g])
  BY <1>1
<1>5. BackfillHolds'
  <2> SUFFICES ASSUME ~overlapped, NEW g \in Late, Loaded(bpc'[g])
      PROVE  /\ \A h \in Late : Loaded(bpc'[h]) => h = g
             /\ btodo'[g] \cap bcur'[g] = {}
             /\ \A i \in btodo'[g] \cup bcur'[g] : Kept(row[i], copy'[g][i])
             /\ \A i \in Unsaved(g)' : row[i].val[g] = "none"
    BY DEF BackfillHolds
  <2>1. CASE g = f
    BY <1>1, <1>4, <2>1 DEF FInv, BackfillHolds
  <2>2. CASE g # f
    <3>1. Unsaved(g)' = Unsaved(g)
      BY <1>1, <2>2 DEF Unsaved
    <3> QED
      BY <1>1, <1>4, <2>2, <3>1 DEF FInv, BackfillHolds
  <2> QED
    BY <2>1, <2>2
<1> QED
  BY <1>2, <1>3, <1>5 DEF FInv

LEMMA BackfillStepsF ==
  ASSUME IInv, FInv, NEW f \in Late, BackfillStep(f) \/ BackfillFault(f)
  PROVE  FInv' /\ FieldsKept
<1> USE DEF RunFrame, BGoto, batch, locals, store, statuses, bounds
<1>1. UNCHANGED <<pc, mem, task, todo, known>>
  BY DEF BackfillStep, BackfillFault, BLoad, BOpen, BPick, BSave, BEmit, BStatus, BClose, BFlip
<1>2. ASSUME NEW l \in {"off", "load", "open", "pick", "save", "emit", "status", "close", "flip"},
             bpc' = [bpc EXCEPT ![f] = l]
      PROVE  Shapes'
  BY <1>1, <1>2 DEF FInv, Shapes
<1>3. \A l \in {"open", "pick", "save", "emit", "status", "close", "flip"} : Loaded(l)
  BY DEF Loaded
<1>4. ASSUME BReset(f), UNCHANGED <<row, overlapped>>
      PROVE  FInv' /\ FieldsKept
  <2>1. /\ bpc' = [bpc EXCEPT ![f] = "off"]
        /\ \A g \in Late \ {f} :
             copy'[g] = copy[g] /\ btodo'[g] = btodo[g] /\ bcur'[g] = bcur[g]
    BY <1>4 DEF BReset, IInv, Types
  <2>2. ~Loaded("off") /\ Shapes'
    BY <1>2, <2>1 DEF Loaded
  <2> QED
    BY <1>1, <1>4, <2>1, <2>2, BackfillMoves
<1>5. ASSUME NEW l \in {"pick", "emit", "status", "close", "flip"}, Loaded(bpc[f]),
             bpc' = [bpc EXCEPT ![f] = l], UNCHANGED <<row, copy, btodo, bcur, overlapped>>
      PROVE  FInv' /\ FieldsKept
  <2>1. bpc'[f] = l /\ Shapes' /\ Loaded(l)
    BY <1>2, <1>3, <1>5 DEF FInv, Shapes
  <2>2. Unsaved(f)' \subseteq Unsaved(f)
    BY <1>5, <2>1 DEF Unsaved
  <2>3. ~overlapped => btodo[f] \cap bcur[f] = {}
    BY <1>5 DEF FInv, BackfillHolds
  <2>4. CASE ~overlapped
    BY <1>1, <1>5, <2>1, <2>2, <2>3, <2>4, BackfillMoves
  <2>5. CASE overlapped
    <3>1. TodoMissing' /\ AbsentEmpty' /\ FieldsKept
      BY <1>1, <1>5, <2>5 DEF FInv, TodoMissing, AbsentEmpty, FieldsKept
    <3> QED
      BY <1>5, <2>1, <2>5, <3>1 DEF FInv, RunHolds, BackfillHolds
  <2> QED
    BY <2>4, <2>5
<1>6. CASE BLoad(f)
  <2>0. bpc[f] = "load" /\ UNCHANGED row /\ (~overlapped' => /\ ~overlapped /\ pc = "off"
                                                         /\ \A g \in Late \ {f} : bpc[g] = "off")
    BY <1>6 DEF BLoad
  <2>1. TodoMissing' /\ AbsentEmpty' /\ FieldsKept
    BY <1>1, <2>0 DEF FInv, TodoMissing, AbsentEmpty, FieldsKept, Kept
  <2>2. RunHolds'
    BY <1>1, <2>0 DEF RunHolds, Loaded
  <2>3. PICK l \in {"off", "open"} : bpc' = [bpc EXCEPT ![f] = l]
    BY <1>6 DEF BLoad, BReset
  <2>4. \A g \in Late : bpc'[g] = IF g = f THEN l ELSE bpc[g]
    BY <2>3 DEF FInv, Shapes
  <2>5. BackfillHolds'
    <3> DEFINE lacking == {i \in VerifiedRows : row[i].val[f] = "none"}
    <3>1. CASE l = "off"
      BY <2>0, <2>4, <3>1 DEF BackfillHolds, Loaded
    <3>2. CASE l = "open"
      <4>1. /\ copy' = [copy EXCEPT ![f] = [i \in Items |-> IF i \in lacking THEN row[i] ELSE NoItem]]
            /\ btodo' = [btodo EXCEPT ![f] = lacking] /\ bcur' = [bcur EXCEPT ![f] = {}]
        BY <1>6, <2>3, <3>2 DEF BLoad, BReset, FInv, Shapes
      <4>2. /\ lacking \subseteq Items /\ btodo'[f] = lacking /\ bcur'[f] = {}
            /\ \A i \in lacking : copy'[f][i] = row[i]
        BY <4>1 DEF IInv, Types, VerifiedRows
      <4>3. bpc'[f] = "open" /\ Unsaved(f)' = lacking
        BY <2>4, <3>2, <4>2 DEF Unsaved
      <4>4. \A i \in lacking : row[i].val[f] = "none" /\ Kept(row[i], row[i])
        BY DEF Kept
      <4> HIDE DEF lacking
      <4>5. ~overlapped' => \A g \in Late : Loaded(bpc'[g]) => g = f
        BY <2>0, <2>4 DEF Loaded
      <4> QED
        BY <2>0, <4>2, <4>3, <4>4, <4>5 DEF BackfillHolds
    <3> QED
      BY <3>1, <3>2
  <2> QED
    BY <1>2, <2>1, <2>2, <2>3, <2>5 DEF FInv
<1>7. CASE BOpen(f)
  BY <1>3, <1>5, <1>7 DEF BOpen
<1>8. CASE BEmit(f)
  BY <1>3, <1>5, <1>8 DEF BEmit
<1>9. CASE BStatus(f)
  BY <1>3, <1>4, <1>5, <1>9 DEF BStatus
<1>10. CASE BClose(f)
  BY <1>3, <1>4, <1>5, <1>10 DEF BClose
<1>11. CASE BFlip(f)
  BY <1>4, <1>11 DEF BFlip
<1>12. CASE BackfillFault(f)
  BY <1>4, <1>12 DEF BackfillFault
<1>13. CASE BPick(f)
  <2>1. CASE btodo[f] = {} \/ webset = "cancelled"
    BY <1>3, <1>5, <1>13, <2>1 DEF BPick
  <2>2. CASE ~(btodo[f] = {} \/ webset = "cancelled")
    <3>1. PICK i \in btodo[f] :
            /\ bcur' = [bcur EXCEPT ![f] = {i}]
            /\ btodo' = [btodo EXCEPT ![f] = @ \ {i}]
            /\ bpc' = [bpc EXCEPT ![f] = "save"]
      BY <1>13, <2>2 DEF BPick
    <3>2. bpc'[f] = "save" /\ bcur'[f] = {i} /\ btodo'[f] = btodo[f] \ {i}
      BY <3>1 DEF FInv, Shapes, IInv, Types
    <3>3. Unsaved(f)' \subseteq Unsaved(f)
      BY <3>2 DEF Unsaved
    <3>4. /\ UNCHANGED <<row, copy, overlapped>> /\ Loaded(bpc[f]) /\ Shapes'
          /\ \A g \in Late \ {f} : btodo'[g] = btodo[g] /\ bcur'[g] = bcur[g]
      BY <1>2, <1>3, <1>13, <3>1 DEF BPick, IInv, Types
    <3> QED
      BY <1>1, <3>1, <3>2, <3>3, <3>4, BackfillMoves
  <2> QED
    BY <2>1, <2>2
<1>14. CASE BSave(f)
  <2>1. PICK i \in bcur[f], v \in {"resolved", "unresolved"} :
          LET item == [copy[f][i] EXCEPT !.val[f] = v] IN
          SaveItem(i, item) /\ copy' = [copy EXCEPT ![f][i] = item]
    BY <1>14 DEF BSave
  <2> DEFINE item == [copy[f][i] EXCEPT !.val[f] = v]
  <2>2. i \in Items /\ copy[f][i] \in ItemType /\ copy[f][i].ver = "verified"
    BY DEF IInv, Types, CopyAgrees
  <2>3. /\ item.ver = "verified"
        /\ \A g \in Fields \ {f} : item.val[g] = copy[f][i].val[g]
    BY <2>2 DEF ItemType
  <2>4. row' = [row EXCEPT ![i] = item] /\ copy' = [copy EXCEPT ![f][i] = item]
    BY <2>1 DEF SaveItem
  <2> HIDE DEF item
  <2>5. PICK l \in {"pick", "emit"} : bpc' = [bpc EXCEPT ![f] = l]
    BY <1>14 DEF BSave
  <2>6. /\ UNCHANGED <<btodo, bcur, overlapped>> /\ bpc[f] = "save"
        /\ \A g \in Late : bpc'[g] = IF g = f THEN l ELSE bpc[g]
    BY <1>14, <2>5 DEF BSave, FInv, Shapes
  <2>7. /\ row'[i] = item /\ copy'[f][i] = item
        /\ \A j \in Items \ {i} : row'[j] = row[j] /\ copy'[f][j] = copy[f][j]
    BY <2>2, <2>4 DEF IInv, Types
  <2>8. Shapes' /\ TodoMissing'
    BY <1>1, <1>2, <2>5 DEF FInv, TodoMissing
  <2>9. AbsentEmpty'
    BY <1>1, <2>3, <2>7 DEF FInv, AbsentEmpty
  <2>10. Loaded(bpc[f]) /\ Loaded(bpc'[f])
    BY <2>5, <2>6 DEF Loaded
  <2>11. RunHolds'
    BY <1>1, <2>6, <2>10 DEF FInv, RunHolds
  <2>12. ~overlapped => row[i].val[f] = "none" /\ Kept(row[i], copy[f][i])
    BY <2>6, <2>10 DEF FInv, BackfillHolds, Unsaved
  <2>13. ~overlapped => Kept(row[i], item)
    BY <2>3, <2>12 DEF Kept
  <2>14. FieldsKept
    BY <2>7, <2>13 DEF FieldsKept, Kept
  <2>15. ASSUME ~overlapped
         PROVE  /\ \A g \in Late : Loaded(bpc'[g]) => g = f
                /\ btodo[f] \cap bcur[f] = {}
                /\ \A j \in btodo[f] \cup bcur[f] : Kept(row'[j], copy'[f][j])
                /\ \A j \in Unsaved(f)' : row'[j].val[f] = "none"
    <3>1. /\ \A g \in Late : Loaded(bpc[g]) => g = f
          /\ btodo[f] \cap bcur[f] = {}
          /\ \A j \in btodo[f] \cup bcur[f] : Kept(row[j], copy[f][j])
          /\ \A j \in btodo[f] : row[j].val[f] = "none"
      BY <2>10, <2>15 DEF FInv, BackfillHolds, Unsaved
    <3>2. Unsaved(f)' = btodo[f] /\ i \notin btodo[f] /\ btodo[f] \cup bcur[f] \subseteq Items
      BY <2>5, <2>6, <3>1 DEF Unsaved, IInv, Types
    <3>3. Kept(item, item)
      BY DEF Kept
    <3> QED
      BY <2>6, <2>7, <2>10, <3>1, <3>2, <3>3
  <2>16. BackfillHolds'
    BY <2>6, <2>10, <2>15 DEF BackfillHolds
  <2> QED
    BY <2>8, <2>9, <2>11, <2>14, <2>16 DEF FInv
<1> QED
  BY <1>6, <1>7, <1>8, <1>9, <1>10, <1>11, <1>12, <1>13, <1>14 DEF BackfillStep

LEMMA RequestStepsF ==
  ASSUME IInv, FInv,
         \/ AddSearch \/ CancelWebset \/ CrashAndResume
         \/ \E f \in Late : AddEnrichment(f)
         \/ \E f \in Removable : RemoveEnrichment(f)
  PROVE  FInv' /\ FieldsKept
<1> USE DEF RunFrame, batch, locals, backfill, bounds
<1>1. known \subseteq Fields /\ ~Loaded("load") /\ ~Loaded("off")
  BY DEF FInv, Shapes, Loaded
<1>2. CASE UNCHANGED <<pc, row, mem, known, task, todo, bpc, copy, btodo, bcur, overlapped>>
  BY <1>1, <1>2, StillF
<1>3. CASE AddSearch
  <2>1. CASE pc = "off"
    <3>1. /\ mem' = NoItems /\ known' = {} /\ ~Loaded(pc')
          /\ UNCHANGED <<row, todo, task, bpc, copy, btodo, bcur, overlapped>>
          /\ \A i \in Items : todo[i] = {}
      BY <1>1, <1>3, <2>1, NoTodo DEF AddSearch, Fresh
    <3> QED
      BY <3>1, StillF
  <2> QED
    BY <1>2, <1>3, <2>1 DEF AddSearch
<1>4. ASSUME NEW f \in Late, AddEnrichment(f)
      PROVE  FInv' /\ FieldsKept
  <2>1. /\ bpc' = [bpc EXCEPT ![f] = "load"]
        /\ UNCHANGED <<pc, row, mem, known, task, todo, copy, btodo, bcur, overlapped>>
    BY <1>4 DEF AddEnrichment, BGoto
  <2>2. Shapes'
    BY <2>1 DEF FInv, Shapes
  <2> QED
    BY <1>1, <2>1, <2>2, BackfillMoves
<1>5. CASE CrashAndResume
  <2>1. /\ ~Loaded(pc') /\ mem' = NoItems /\ known' = {} /\ UNCHANGED row
        /\ todo' = [i \in Items |-> {}] /\ bpc' = [g \in Late |-> "off"]
    BY <1>1, <1>5 DEF CrashAndResume, Fresh, store
  <2>2. Shapes' /\ TodoMissing' /\ AbsentEmpty'
    BY <2>1 DEF FInv, Shapes, TodoMissing, AbsentEmpty, NoItems, NoItem
  <2>3. RunHolds' /\ BackfillHolds' /\ FieldsKept
    BY <1>1, <2>1 DEF RunHolds, BackfillHolds, FieldsKept, Kept
  <2> QED
    BY <2>2, <2>3 DEF FInv
<1> QED
  BY <1>2, <1>3, <1>4, <1>5 DEF CancelWebset, RemoveEnrichment

LEMMA InductiveF == IInv /\ FInv /\ [Next]_vars => FInv' /\ FieldsKept
<1> SUFFICES ASSUME IInv, FInv, [Next]_vars PROVE FInv' /\ FieldsKept
  OBVIOUS
<1>1. CASE UNCHANGED vars
  <2>1. known \subseteq Fields
    BY DEF FInv, Shapes
  <2> QED
    BY <1>1, <2>1, StillF DEF vars, store, locals, batch, backfill, bounds
<1>2. CASE RunStep
  BY <1>2, ItemStepsF, PassStepsF, SweepsF DEF RunStep
<1>3. CASE Next /\ ~RunStep
  BY <1>3, SweepsF, ItemFaultsF, BackfillStepsF, RequestStepsF DEF Next
<1> QED
  BY <1>1, <1>2, <1>3

(* A settled field keeps its value, through crashes, store faults, resumes *)
(* and requests, as long as no run and backfill have overlapped.           *)
THEOREM FieldsStay == Spec => FieldIsFinal
<1>1. FieldsKept => (~overlapped => \A i \in Items, f \in Fields :
                       row[i].val[f] # "none" => row'[i].val[f] = row[i].val[f])
  BY DEF FieldsKept, Kept
<1>2. Init => IInv /\ FInv
  BY Initial0, InitialF
<1>3. IInv /\ FInv /\ [Next]_vars => IInv' /\ FInv' /\ FieldsKept
  BY Inductive, InductiveF
<1> QED
  BY <1>1, <1>2, <1>3, PTL DEF Spec, FieldIsFinal
-----------------------------------------------------------------------------
(* item.enriched is appended from a copy.  It tells of the row because an  *)
(* item is only worked on while something is missing, so that its task has *)
(* saved the copy at least once before it comes to the event.              *)
Rich(i) == row[i].ver = "verified" /\ \E f \in Fields : row[i].val[f] = "resolved"

Pending(i) ==
  /\ task[i] = "queued" => mem[i].ver = "absent" \/ NeedsWork(mem[i], known)
  /\ task[i] = "fetch" /\ mem[i].ver = "verified" => Missing(mem[i], known) # {}

SavedSince(i) ==
  task[i] = "created" \/ (task[i] = "fields" /\ todo[i] = {}) => mem[i] = row[i]

WorkPending ==
  /\ pc = "variant" /\ ~recalled => \A i \in work : NeedsWork(mem[i], known)
  /\ pc = "batch" => recalled = TRUE

BackfillsTell ==
  \A f \in Late :
    /\ \A i, j \in bcur[f] : i = j
    /\ ~overlapped /\ bpc[f] = "emit" => \A i \in bcur[f] : Rich(i)

EInv ==
  /\ enriched \subseteq Items /\ (~overlapped => \A i \in enriched : Rich(i))
  /\ \A i \in Items : Pending(i) /\ (~overlapped => SavedSince(i))
  /\ WorkPending /\ BackfillsTell
  /\ bdefs \in [Late -> SUBSET Fields]

LEMMA InitialE == Init => EInv
  BY DEF Init, EInv, Pending, SavedSince, WorkPending, BackfillsTell

LEMMA RichStays ==
  ASSUME FieldsKept, Final, ~overlapped, NEW i \in Items, Rich(i)
  PROVE  Rich(i)'
  BY DEF FieldsKept, Kept, Final, Verdict, Rich

(* Steps that append no event and leave the item tasks as they are. *)
LEMMA StillE ==
  ASSUME IInv, FInv, EInv, FieldsKept, Final, ~overlapped' => ~overlapped,
         enriched' \subseteq Items, ~overlapped => \A i \in enriched' : Rich(i)',
         \A i \in Items : task'[i] = "none" \/
           (task'[i] = task[i] /\ UNCHANGED <<mem, known, todo>> /\ (~overlapped' => UNCHANGED row)),
         WorkPending', BackfillsTell', bdefs' \in [Late -> SUBSET Fields]
  PROVE  EInv'
  BY DEF EInv, Pending, SavedSince

LEMMA ItemStepsE ==
  ASSUME IInv, FInv, EInv, FieldsKept, Final, NEW i \in Items, ItemStep(i)
  PROVE  EInv'
<1> USE DEF Frame, backfill, bounds, pass, Step
<1>1. /\ UNCHANGED <<pc, known, recalled, bpc, bcur, bdefs, overlapped>>
      /\ task[i] # "none" /\ pc = "batch" /\ mem[i] \in ItemType /\ row[i] \in ItemType
      /\ known \subseteq Fields
  BY InBatch DEF ItemStep, Acquire, SaveNew, Judge, EmitCreated, NextField, SaveField, EmitEnriched,
     FInv, Shapes
<1>2. \A j \in Items : ~overlapped /\ Rich(j) => Rich(j)'
  BY RichStays
<1>3. WorkPending' /\ BackfillsTell'
  BY <1>1, <1>2 DEF EInv, WorkPending, BackfillsTell, IInv, Types
<1>4. ASSUME enriched' = enriched \/ (enriched' = enriched \cup {i} /\ (~overlapped => Rich(i))),
             Pending(i)', ~overlapped => SavedSince(i)',
             \A j \in Items \ {i} : /\ task'[j] = task[j] /\ todo'[j] = todo[j]
                                   /\ mem'[j] = mem[j] /\ row'[j] = row[j]
      PROVE  EInv'
  <2>1. enriched' \subseteq Items /\ (~overlapped => \A j \in enriched' : Rich(j)')
    BY <1>2, <1>4 DEF EInv
  <2>2. \A j \in Items : Pending(j)' /\ (~overlapped => SavedSince(j)')
    BY <1>1, <1>4 DEF EInv, Pending, SavedSince
  <2> QED
    BY <1>1, <1>3, <2>1, <2>2 DEF EInv
<1>5. \A j \in Items \ {i} : /\ task'[j] = task[j] /\ todo'[j] = todo[j]
                             /\ mem'[j] = mem[j] /\ row'[j] = row[j]
  BY DEF ItemStep, Acquire, SaveNew, Judge, EmitCreated, NextField, SaveField, EmitEnriched,
     IInv, Types, FInv, Shapes, SaveItem, Remember
<1>6. \A l : task' = [task EXCEPT ![i] = l] => task'[i] = l
  BY DEF IInv, Types
<1>7. \A t : todo' = [todo EXCEPT ![i] = t] => todo'[i] = t
  BY DEF FInv, Shapes
<1>8. \A item : SaveItem(i, item) /\ Remember(i, item) => row'[i] = item /\ mem'[i] = item
  BY DEF IInv, Types, SaveItem, Remember
<1>9. CASE Acquire(i)
  <2>1. UNCHANGED <<mem, enriched>> /\ task'[i] \in {"none", "save", "fetch"}
    BY <1>6, <1>9 DEF Acquire
  <2>2. task'[i] = "fetch" => NeedsWork(mem[i], known)
    BY <1>6, <1>9 DEF Acquire, EInv, Pending
  <2>3. Pending(i)'
    BY <1>1, <2>1, <2>2 DEF NeedsWork, Pending
  <2> QED
    BY <1>4, <1>5, <2>1, <2>3 DEF SavedSince
<1>10. CASE SaveNew(i)
  <2>1. task'[i] = "fetch" /\ mem'[i] = [NoItem EXCEPT !.ver = "pending"] /\ UNCHANGED enriched
    BY <1>6, <1>8, <1>10 DEF SaveNew
  <2>2. mem'[i].ver = "pending"
    BY <2>1 DEF NoItem
  <2> QED
    BY <1>4, <1>5, <2>1, <2>2 DEF Pending, SavedSince
<1>11. CASE Judge(i)
  <2>1. CASE mem[i].ver = "pending"
    <3>1. mem'[i] = row'[i] /\ task'[i] \in {"created", "none"} /\ UNCHANGED enriched
      BY <1>6, <1>8, <1>11, <2>1 DEF Judge
    <3> QED
      BY <1>4, <1>5, <3>1 DEF Pending, SavedSince
  <2>2. CASE mem[i].ver # "pending"
    <3>1. task'[i] = "fields" /\ todo'[i] = Missing(mem[i], known) /\ UNCHANGED <<mem, enriched>>
      BY <1>6, <1>7, <1>11, <2>2 DEF Judge
    <3>2. todo'[i] # {}
      BY <1>11, <2>2, <3>1 DEF Judge, EInv, Pending
    <3> QED
      BY <1>4, <1>5, <3>1, <3>2 DEF Pending, SavedSince
  <2> QED
    BY <2>1, <2>2
<1>12. CASE EmitCreated(i)
  <2>1. task'[i] = "fields" /\ UNCHANGED <<row, mem, enriched>>
    BY <1>6, <1>12 DEF EmitCreated
  <2>2. ~overlapped => mem[i] = row[i]
    BY <1>12 DEF EmitCreated, EInv, SavedSince
  <2> QED
    BY <1>4, <1>5, <2>1, <2>2 DEF Pending, SavedSince
<1>13. CASE NextField(i)
  <2>1. task'[i] \in {"none", "extract"} /\ UNCHANGED enriched
    BY <1>6, <1>13 DEF NextField
  <2> QED
    BY <1>4, <1>5, <2>1 DEF Pending, SavedSince
<1>14. CASE SaveField(i)
  <2>1. task'[i] = "fields" /\ mem'[i] = row'[i] /\ UNCHANGED enriched
    BY <1>6, <1>8, <1>14 DEF SaveField
  <2> QED
    BY <1>4, <1>5, <2>1 DEF Pending, SavedSince
<1>15. CASE EmitEnriched(i)
  <2>1. task'[i] = "none" /\ UNCHANGED row
    BY <1>6, <1>15 DEF EmitEnriched
  <2>2. enriched' = enriched \/ (enriched' = enriched \cup {i} /\ ItemEnriched(mem[i], known))
    BY <1>15 DEF EmitEnriched
  <2>3. mem[i].ver = "verified" /\ (~overlapped => mem[i] = row[i])
    BY <1>15 DEF EmitEnriched, IInv, TaskAgrees, EInv, SavedSince
  <2>4. ~overlapped /\ ItemEnriched(mem[i], known) => Rich(i)
    BY <1>1, <2>3 DEF ItemEnriched, Rich
  <2> QED
    BY <1>4, <1>5, <2>1, <2>2, <2>4 DEF Pending, SavedSince
<1> QED
  BY <1>9, <1>10, <1>11, <1>12, <1>13, <1>14, <1>15 DEF ItemStep

LEMMA PassStepsE ==
  ASSUME IInv, FInv, EInv, FieldsKept, Final, RunStep \/ PassFault, ~\E i \in Items : ItemStep(i)
  PROVE  EInv'
<1> USE DEF backfill, batch, bounds, store, locals, pass
<1>1. UNCHANGED <<enriched, todo, bpc, bcur, bdefs>> /\ (~overlapped' => ~overlapped)
  <2>1. UNCHANGED <<enriched, todo, bpc, bcur, bdefs>>
    BY DEF RunStep, Load, PickSearch, SearchesDone, LeaveVariants, Recall, BatchDone, SettleSearch,
       SettlePendingItems, SettleMissingFields, Finalize, ListDefs, WriteDef, DefsSettled,
       DriveNewcomers, SetIdle, Fail, SetFailed, PassFault
  <2>2. CASE Load
    BY <2>1, <2>2 DEF Load
  <2>3. CASE ~Load
    BY <2>1, <2>3 DEF RunStep, PickSearch, SearchesDone, LeaveVariants, Recall, BatchDone, SettleSearch,
       SettlePendingItems, SettleMissingFields, Finalize, ListDefs, WriteDef, DefsSettled,
       DriveNewcomers, SetIdle, Fail, SetFailed, PassFault
  <2> QED
    BY <2>2, <2>3
<1>2. /\ enriched' \subseteq Items /\ (~overlapped => \A i \in enriched' : Rich(i)')
      /\ bdefs' \in [Late -> SUBSET Fields]
  BY <1>1, RichStays DEF EInv
<1>3. BackfillsTell'
  BY <1>1, RichStays DEF EInv, BackfillsTell, IInv, Types
<1>4. CASE Recall
  <2>1. /\ pc = "variant" /\ UNCHANGED <<row, mem, known, overlapped>>
        /\ \A i \in Items : task[i] = "none"
    BY <1>4, NoTasks DEF Recall
  <2>2. CASE pc' = "variant"
    <3>1. UNCHANGED <<recalled, work, task>>
      BY <1>4, <2>2 DEF Recall
    <3>2. WorkPending'
      BY <2>1, <2>2, <3>1 DEF EInv, WorkPending
    <3> QED
      BY <1>1, <1>2, <1>3, <2>1, <3>1, <3>2, StillE
  <2>3. CASE pc' = "batch"
    <3>1. PICK hits \in SUBSET Items :
            LET fresh == {i \in hits \ work : mem[i].ver = "absent" \/ NeedsWork(mem[i], known)}
                candidates == IF recalled THEN fresh ELSE work \cup fresh IN
            /\ recalled' = TRUE
            /\ task' = [i \in Items |-> IF i \in candidates THEN "queued" ELSE "none"]
      BY <1>4, <2>3 DEF Recall
    <3>2. ~recalled => \A i \in work : NeedsWork(mem[i], known)
      BY <2>1 DEF EInv, WorkPending
    <3>3. \A i \in Items : /\ task'[i] \in {"none", "queued"}
                           /\ task'[i] = "queued" => mem[i].ver = "absent" \/ NeedsWork(mem[i], known)
      BY <3>1, <3>2
    <3>4. WorkPending'
      BY <2>3, <3>1 DEF WorkPending
    <3>5. \A i \in Items : Pending(i)' /\ SavedSince(i)'
      BY <2>1, <3>3 DEF Pending, SavedSince
    <3> QED
      BY <1>1, <1>2, <1>3, <3>4, <3>5 DEF EInv
  <2> QED
    BY <1>4, <2>2, <2>3 DEF Recall
<1>5. CASE ~Recall
  <2>1. UNCHANGED task
    BY <1>5 DEF RunStep, Load, PickSearch, SearchesDone, LeaveVariants, BatchDone, SettleSearch,
     SettlePendingItems, SettleMissingFields, Finalize, ListDefs, WriteDef, DefsSettled,
     DriveNewcomers, SetIdle, Fail, SetFailed, PassFault
  <2>2. pc = "batch" => BatchDone
    BY <1>5 DEF RunStep, Load, PickSearch, SearchesDone, LeaveVariants, SettleSearch,
     SettlePendingItems, SettleMissingFields, Finalize, ListDefs, WriteDef, DefsSettled,
     DriveNewcomers, SetIdle, Fail, SetFailed, PassFault
  <2>3. \A i \in Items : task'[i] = "none"
    BY <2>1, <2>2, NoTasks DEF BatchDone
  <2>4. WorkPending'
    <3>1. CASE PickSearch
      BY <3>1 DEF PickSearch, WorkPending
    <3>2. CASE BatchDone
      BY <3>2 DEF BatchDone, Goto, EInv, WorkPending
    <3>3. CASE ~PickSearch /\ ~BatchDone
      <4>1. pc' \notin {"variant", "batch"}
        BY <1>5, <3>3 DEF RunStep, Load, SearchesDone, LeaveVariants, SettleSearch,
     SettlePendingItems, SettleMissingFields, Finalize, ListDefs, WriteDef, DefsSettled,
     DriveNewcomers, SetIdle, Fail, SetFailed, PassFault, Return, Fresh, Goto, NextSearch, Raise, Raising
      <4> QED
        BY <4>1 DEF WorkPending
    <3> QED
      BY <3>1, <3>2, <3>3
  <2> QED
    BY <1>1, <1>2, <1>3, <2>3, <2>4, StillE
<1> QED
  BY <1>4, <1>5

LEMMA OthersE ==
  ASSUME IInv, FInv, EInv, FieldsKept, Final, Next, ~RunStep, ~PassFault
  PROVE  EInv'
<1> USE DEF RunFrame, BGoto, backfill, batch, bounds, store, statuses, locals, pass
<1>1. \A i \in Items : ~overlapped /\ Rich(i) => Rich(i)'
  BY RichStays
(* What becomes of the lemma StillE when no backfill writes. *)
<1>2. ASSUME UNCHANGED <<row, enriched, mem, known, task, todo>>, ~overlapped' => ~overlapped,
             UNCHANGED <<pc, recalled, work>>, BackfillsTell', bdefs' \in [Late -> SUBSET Fields]
      PROVE  EInv'
  BY <1>2 DEF EInv, Pending, SavedSince, WorkPending, Rich
<1>3. ASSUME UNCHANGED <<row, bpc, bcur, overlapped>>
      PROVE  BackfillsTell'
  BY <1>3 DEF EInv, BackfillsTell, Rich
<1>4. ASSUME NEW f \in Late, BReset(f), UNCHANGED <<row, overlapped>>
      PROVE  BackfillsTell' /\ bdefs' \in [Late -> SUBSET Fields]
  <2>1. \A g \in Late : /\ bpc'[g] # "emit" \/ bpc'[g] = bpc[g]
                        /\ bcur'[g] = {} \/ bcur'[g] = bcur[g]
    BY <1>4 DEF BReset, BGoto, FInv, Shapes, IInv, Types
  <2>2. bdefs' \in [Late -> SUBSET Fields]
    BY <1>4 DEF BReset, EInv
  <2> QED
    BY <1>4, <2>1, <2>2 DEF EInv, BackfillsTell, Rich
<1>5. ASSUME NEW f \in Late, BackfillFault(f)
      PROVE  EInv'
  BY <1>2, <1>4, <1>5 DEF BackfillFault
<1>6. ASSUME NEW i \in Items, ItemFault(i)
      PROVE  EInv'
  <2>1. /\ UNCHANGED <<row, enriched, pc, known, recalled, work, bpc, bcur, bdefs, overlapped>>
        /\ task' = [task EXCEPT ![i] = "none"] /\ todo' = [todo EXCEPT ![i] = {}] /\ task[i] # "none"
    BY <1>6 DEF ItemFault, Step
  <2>0. pc = "batch" /\ \A j \in Items \ {i} : mem'[j] = mem[j]
    BY <1>6, <2>1, InBatch DEF ItemFault, Remember, IInv, Types
  <2>2. /\ task'[i] = "none"
        /\ \A j \in Items \ {i} : task'[j] = task[j] /\ todo'[j] = todo[j] /\ mem'[j] = mem[j]
    BY <2>0, <2>1 DEF IInv, Types, FInv, Shapes
  <2>3. \A j \in Items : Pending(j)' /\ (~overlapped => SavedSince(j)')
    BY <2>1, <2>2 DEF EInv, Pending, SavedSince
  <2> QED
    BY <1>3, <2>0, <2>1, <2>3 DEF EInv, WorkPending, Rich
<1>7. CASE AddSearch
  <2>1. CASE pc = "off"
    <3>1. /\ \A i \in Items : task'[i] = "none"
          /\ pc' = "load" /\ UNCHANGED <<row, enriched, bpc, bcur, bdefs, overlapped>>
      BY <1>7, <2>1, NoTasks DEF AddSearch, Fresh
    <3> QED
      BY <1>3, <3>1 DEF EInv, Pending, SavedSince, WorkPending, Rich
  <2> QED
    BY <1>2, <1>3, <1>7, <2>1 DEF AddSearch, EInv
<1>8. CASE CancelWebset \/ \E f \in Removable : RemoveEnrichment(f)
  BY <1>2, <1>3, <1>8 DEF CancelWebset, RemoveEnrichment, EInv
<1>9. CASE CrashAndResume
  BY <1>9 DEF CrashAndResume, Fresh, EInv, Pending, SavedSince, WorkPending, BackfillsTell, Rich
<1>10. ASSUME NEW f \in Late, NEW l, l # "emit", bpc' = [bpc EXCEPT ![f] = l],
              UNCHANGED <<row, enriched, pc, recalled, work, mem, known, task, todo, bdefs, overlapped>>,
              UNCHANGED bcur \/ \E i : bcur' = [bcur EXCEPT ![f] = {i}]
       PROVE  EInv'
  <2>1. \A g \in Late : bpc'[g] = "emit" => bpc[g] = "emit" /\ g # f
    BY <1>10 DEF FInv, Shapes
  <2>2. BackfillsTell'
    BY <1>10, <2>1 DEF EInv, BackfillsTell, Rich, IInv, Types
  <2> QED
    BY <1>2, <1>10, <2>2 DEF EInv
<1>11. ASSUME NEW f \in Late, AddEnrichment(f)
       PROVE  EInv'
  BY <1>10, <1>11 DEF AddEnrichment
<1>12. ASSUME NEW f \in Late, BLoad(f)
       PROVE  EInv'
  <2>1. /\ UNCHANGED <<row, enriched, pc, recalled, work, mem, known, task, todo>>
        /\ ~overlapped' => ~overlapped
    BY <1>12 DEF BLoad
  <2>2. \A g \in Late : /\ bpc'[g] # "emit" \/ bpc'[g] = bpc[g]
                        /\ bcur'[g] = {} \/ bcur'[g] = bcur[g]
    BY <1>12 DEF BLoad, BReset, FInv, Shapes, IInv, Types
  <2>3. bdefs' \in [Late -> SUBSET Fields]
    <3>1. PICK d \in {{}, Attached} : bdefs' = [bdefs EXCEPT ![f] = d]
      BY <1>12 DEF BLoad, BReset
    <3>2. d \in SUBSET Fields
      BY DEF Attached
    <3> QED
      BY <3>1, <3>2 DEF EInv
  <2>4. BackfillsTell'
    BY <2>1, <2>2 DEF EInv, BackfillsTell, Rich
  <2> QED
    BY <1>2, <2>1, <2>3, <2>4
<1>13. ASSUME NEW f \in Late, BOpen(f) \/ BPick(f)
       PROVE  EInv'
  BY <1>10, <1>13 DEF BOpen, BPick
<1>14. ASSUME NEW f \in Late, BEmit(f)
       PROVE  EInv'
  <2>1. /\ enriched' = enriched \cup bcur[f] /\ bpc[f] = "emit" /\ bcur[f] \subseteq Items
        /\ bpc' = [bpc EXCEPT ![f] = "pick"]
        /\ UNCHANGED <<row, pc, recalled, work, mem, known, task, todo, bcur, bdefs, overlapped>>
    BY <1>14 DEF BEmit, IInv, Types
  <2>2. BackfillsTell'
    BY <2>1 DEF EInv, BackfillsTell, Rich, FInv, Shapes
  <2>3. ~overlapped => \A i \in enriched' : Rich(i)
    BY <2>1 DEF EInv, BackfillsTell
  <2> QED
    BY <2>1, <2>2, <2>3 DEF EInv, Pending, SavedSince, WorkPending, Rich
<1>15. ASSUME NEW f \in Late, BStatus(f) \/ BClose(f) \/ BFlip(f)
       PROVE  EInv'
  <2>1. CASE BReset(f)
    BY <1>2, <1>4, <1>15, <2>1 DEF BStatus, BClose, BFlip
  <2>2. CASE ~BReset(f)
    BY <1>10, <1>15, <2>2 DEF BStatus, BClose, BFlip
  <2> QED
    BY <2>1, <2>2
<1>16. ASSUME NEW f \in Late, BSave(f)
       PROVE  EInv'
  <2>1. PICK i \in bcur[f], v \in {"resolved", "unresolved"} :
          LET item == [copy[f][i] EXCEPT !.val[f] = v] IN
          /\ SaveItem(i, item)
          /\ bpc' = [bpc EXCEPT ![f] = IF ItemEnriched(item, bdefs[f]) THEN "emit" ELSE "pick"]
    BY <1>16 DEF BSave
  <2> DEFINE item == [copy[f][i] EXCEPT !.val[f] = v]
  <2>2. i \in Items /\ item.ver = "verified"
    BY DEF IInv, Types, CopyAgrees, ItemType
  <2>3. /\ SaveItem(i, item)
        /\ bpc' = [bpc EXCEPT ![f] = IF ItemEnriched(item, bdefs[f]) THEN "emit" ELSE "pick"]
    BY <2>1
  <2> HIDE DEF item
  <2>4. /\ UNCHANGED <<enriched, pc, recalled, work, mem, known, task, todo, bcur, bdefs, overlapped>>
        /\ bpc[f] = "save" /\ row'[i] = item
        /\ bpc'[f] = (IF ItemEnriched(item, bdefs[f]) THEN "emit" ELSE "pick")
        /\ \A g \in Late \ {f} : bpc'[g] = bpc[g]
    BY <1>16, <2>2, <2>3 DEF BSave, SaveItem, IInv, Types, FInv, Shapes
  <2>5. bpc'[f] = "emit" => Rich(i)'
    BY <2>2, <2>4 DEF ItemEnriched, EInv, Rich
  <2>6. BackfillsTell'
    BY <1>1, <2>4, <2>5 DEF EInv, BackfillsTell, IInv, Types
  <2>7. ~overlapped => pc \in {"off", "load"}
    BY <2>4 DEF FInv, RunHolds, Loaded
  <2>8. ~overlapped => \A j \in Items : task[j] = "none"
    BY <2>7, NoTasks
  <2>9. \A j \in Items : Pending(j)' /\ (~overlapped => SavedSince(j)')
    BY <2>4, <2>8 DEF EInv, Pending, SavedSince
  <2> QED
    BY <1>1, <2>4, <2>6, <2>9 DEF EInv, WorkPending
<1>17. CASE \E f \in Late : BackfillStep(f)
  BY <1>12, <1>13, <1>14, <1>15, <1>16, <1>17 DEF BackfillStep
<1> QED
  BY <1>5, <1>6, <1>7, <1>8, <1>9, <1>11, <1>17 DEF Next

LEMMA InductiveE == IInv /\ FInv /\ EInv /\ FieldsKept /\ Final /\ [Next]_vars => EInv'
<1> SUFFICES ASSUME IInv, FInv, EInv, FieldsKept, Final, [Next]_vars PROVE EInv'
  OBVIOUS
<1>1. CASE UNCHANGED vars
  BY <1>1 DEF vars, store, pass, locals, batch, backfill, bounds,
     EInv, Pending, SavedSince, WorkPending, BackfillsTell, Rich
<1>2. CASE Next
  BY <1>2, ItemStepsE, PassStepsE, OthersE DEF RunStep
<1> QED
  BY <1>1, <1>2

(* An item with an item.enriched event is verified and has a resolved      *)
(* field, as long as no run and backfill have overlapped.                  *)
THEOREM EnrichedTells == Spec => []EnrichedIsTrue
<1>1. Init => IInv /\ FInv /\ EInv
  BY Initial0, InitialF, InitialE
<1>2. IInv /\ FInv /\ EInv /\ [Next]_vars => IInv' /\ FInv' /\ EInv'
  BY Inductive, InductiveF, InductiveE, VerdictStep
<1>3. EInv => EnrichedIsTrue
  BY DEF EInv, EnrichedIsTrue, Rich
<1> QED
  BY <1>1, <1>2, <1>3, PTL DEF Spec
-----------------------------------------------------------------------------
(* An idle webset at rest is complete, because every task that may end     *)
(* over an idle webset sweeps before it does, and what a run does not know *)
(* of has a backfill waiting for it.                                       *)

(* No crash, no failed store call, and never two tasks with copies.        *)
Undisturbed == Calm /\ ~overlapped

(* Late enrichments whose backfill is scheduled and has not loaded yet.    *)
Waiting == {f \in Late : bpc[f] = "load"}

(* Every item is judged, and a verified one lacks fields of defs only.     *)
JudgedBut(defs) ==
  \A i \in Items :
    /\ row[i].ver # "pending"
    /\ row[i].ver = "verified" => Missing(row[i], Attached) \subseteq defs

CopyJudged == \A i \in Items : mem[i].ver # "pending"

CopySwept ==
  \A i \in Items : mem[i].ver # "pending"
                   /\ (mem[i].ver = "verified" => Missing(mem[i], known) = {})

EnrichmentStates ==
  /\ enrichment \in [Fields -> {"absent", "running", "idle", "failed", "removed"}]
  /\ \A f \in Late : bpc[f] # "off" => enrichment[f] # "absent"

SkipsUnsettled == pc = "skip" => webset \in {"cancelled", "failed"}

(* A run's copy is the table, and what it does not know of is waiting.     *)
RunInStep ==
  Undisturbed /\ Loaded(pc) => mem = row /\ Attached \subseteq known \cup Waiting

JudgedAt == {"fields", "failFields"}
SweptAt == {"next", "settle", "finalize", "defs", "writeDefs", "newcomers", "flip",
            "failDefs", "failWriteDefs"}

(* A run over an idle webset leaves nothing behind at the places where it  *)
(* may end: it loads a settled table and sweeps after every search.        *)
RunSweeps ==
  Undisturbed /\ webset = "idle" =>
    /\ pc \in JudgedAt => CopyJudged
    /\ pc \in SweptAt => CopySwept

(* So does a backfill, and a field it has not saved yet is on its list.    *)
BackfillSweeps ==
  Undisturbed /\ webset = "idle" =>
    \A f \in Late : Loaded(bpc[f]) =>
      /\ JudgedBut(Waiting \cup {f})
      /\ \A i \in Items :
           row[i].ver = "verified" /\ row[i].val[f] = "none" => i \in Unsaved(f)
      /\ bpc[f] \in {"status", "close", "flip"} => btodo[f] = {}

Unattended == ~Loaded(pc) /\ \A f \in Late : ~Loaded(bpc[f])

NothingOwed == Undisturbed /\ webset = "idle" /\ Unattended => JudgedBut(Waiting)

RInv ==
  /\ EnrichmentStates /\ SkipsUnsettled
  /\ RunInStep /\ RunSweeps /\ BackfillSweeps /\ NothingOwed

LEMMA InitialR == Init => RInv
<1> SUFFICES ASSUME Init PROVE RInv
  OBVIOUS
<1>1. webset = "running" /\ pc = "load" /\ bpc = [f \in Late |-> "off"]
      /\ enrichment = [f \in Fields |-> IF f \in Initial THEN "running" ELSE "absent"]
  BY DEF Init
<1> QED
  BY <1>1 DEF RInv, EnrichmentStates, SkipsUnsettled, RunInStep, RunSweeps, BackfillSweeps,
     NothingOwed, Loaded

LEMMA RunStepFrame ==
  ASSUME RunStep
  PROVE  /\ UNCHANGED bpc
         /\ ~Load => UNCHANGED <<btodo, bcur, overlapped, crashes, faults>>
         /\ UNCHANGED webset \/ SetIdle \/ SetFailed
         /\ UNCHANGED enrichment \/ WriteDef
BY DEF RunStep, Load, PickSearch, SearchesDone, LeaveVariants, Recall, BatchDone, SettleSearch,
   SettlePendingItems, SettleMissingFields, Finalize, ListDefs, WriteDef, DefsSettled,
   DriveNewcomers, SetIdle, Fail, SetFailed, ItemStep, Acquire, SaveNew, Judge, EmitCreated,
   NextField, SaveField, EmitEnriched, Frame, backfill, bounds, statuses, store

(* Nobody spoils an undisturbed history but a mishap or an overlap.        *)
LEMMA Disturbing ==
  ASSUME AInv, Next
  PROVE  /\ Undisturbed' => Undisturbed
         /\ PassFault \/ (\E i \in Items : ItemFault(i)) \/ (\E f \in Late : BackfillFault(f))
              \/ CrashAndResume => ~Undisturbed'
<1> USE DEF bounds, backfill, Undisturbed, Calm
<1>1. crashes \in Nat /\ faults \in Nat
  BY DEF AInv, Driven
<1>2. ASSUME PassFault \/ (\E i \in Items : ItemFault(i)) \/ (\E f \in Late : BackfillFault(f))
              \/ CrashAndResume
      PROVE  ~Undisturbed'
  BY <1>1, <1>2 DEF PassFault, ItemFault, BackfillFault, CrashAndResume
<1>3. ASSUME NEW f \in Late, BackfillStep(f)
      PROVE  UNCHANGED <<crashes, faults>> /\ (~overlapped' => ~overlapped)
  <2>1. CASE BLoad(f)
    BY <2>1 DEF BLoad
  <2> QED
    BY <1>3, <2>1 DEF BackfillStep, BOpen, BPick, BSave, BEmit, BStatus, BClose, BFlip
<1>4. CASE RunStep
  <2>1. UNCHANGED <<crashes, faults>> /\ (~overlapped' => ~overlapped)
    <3>1. CASE Load
      BY <3>1 DEF Load
    <3>2. CASE ~Load
      BY <1>4, <3>2, RunStepFrame
    <3> QED
      BY <3>1, <3>2
  <2> QED
    BY <1>2, <2>1
<1>5. CASE AddSearch \/ CancelWebset \/ (\E f \in Late : AddEnrichment(f))
            \/ (\E f \in Removable : RemoveEnrichment(f))
  BY <1>2, <1>5 DEF AddSearch, CancelWebset, AddEnrichment, RemoveEnrichment
<1> QED
  BY <1>2, <1>3, <1>4, <1>5 DEF Next

(* Definitions get another status, and stay attached or not.               *)
LEMMA StatusWritten ==
  ASSUME EnrichmentStates, WriteDef
  PROVE  /\ EnrichmentStates'
         /\ Attached' = Attached
<1>1. UNCHANGED bpc
  BY DEF WriteDef, backfill
<1>2. CASE UNCHANGED enrichment
  BY <1>1, <1>2 DEF EnrichmentStates, Attached
<1>3. ASSUME NEW f \in Attached, NEW s \in {"idle", "failed"},
             enrichment' = [enrichment EXCEPT ![f] = s]
      PROVE  EnrichmentStates' /\ Attached' = Attached
  BY <1>1, <1>3 DEF EnrichmentStates, Attached
<1> QED
  BY <1>2, <1>3 DEF WriteDef

LEMMA BackfillStatus ==
  ASSUME FInv, EnrichmentStates, NEW f \in Late, BackfillStep(f)
  PROVE  /\ EnrichmentStates'
         /\ Attached' = Attached
<1>1. bpc[f] # "off" /\ f \in Fields /\ enrichment[f] # "absent"
  BY DEF BackfillStep, BLoad, BOpen, BPick, BSave, BEmit, BStatus, BClose, BFlip, EnrichmentStates, Fields
<1>2. \A g \in Late : bpc'[g] # "off" => bpc[g] # "off"
  BY <1>1 DEF BackfillStep, BLoad, BOpen, BPick, BSave, BEmit, BStatus, BClose, BFlip, BReset, BGoto,
     FInv, Shapes
<1>3. CASE UNCHANGED enrichment
  BY <1>2, <1>3 DEF EnrichmentStates, Attached
<1>4. CASE enrichment' = [g \in Fields |-> IF g \in Attached THEN "idle" ELSE enrichment[g]]
  BY <1>2, <1>4 DEF EnrichmentStates, Attached, Fields
<1>5. ASSUME NEW s \in {"idle", "failed"}, f \in Attached, enrichment' = [enrichment EXCEPT ![f] = s]
      PROVE  EnrichmentStates' /\ Attached' = Attached
  BY <1>1, <1>2, <1>5 DEF EnrichmentStates, Attached
<1>6. CASE BStatus(f)
  BY <1>3, <1>5, <1>6 DEF BStatus
<1> QED
  BY <1>3, <1>4, <1>6 DEF BackfillStep, BLoad, BOpen, BPick, BSave, BEmit, BClose, BFlip, store

(* The run moves on without a write. *)
LEMMA RunMoves ==
  ASSUME FInv, RInv, Loaded(pc), Loaded(pc'), EnrichmentStates', Attached' = Attached,
         UNCHANGED <<row, mem, known, bpc, overlapped, crashes, faults>>,
         webset' = "idle" => webset = "idle", SkipsUnsettled',
         webset = "idle" /\ Undisturbed =>
           /\ pc' \in JudgedAt => CopyJudged
           /\ pc' \in SweptAt => CopySwept
  PROVE  RInv'
<1>1. Undisturbed' = Undisturbed /\ Waiting' = Waiting
  BY DEF Undisturbed, Calm, Waiting
<1>2. RunInStep' /\ RunSweeps'
  BY <1>1 DEF RInv, RunInStep, RunSweeps, CopyJudged, CopySwept
<1>3. BackfillSweeps' /\ NothingOwed'
  BY DEF FInv, RunHolds, Undisturbed, BackfillSweeps, NothingOwed, Unattended
<1> QED
  BY <1>2, <1>3 DEF RInv

(* The run writes an item into its copy and into the table. *)
LEMMA RunStores ==
  ASSUME IInv, FInv, RInv, Loaded(pc), UNCHANGED <<pc, known, bpc, overlapped, crashes, faults>>,
         UNCHANGED <<webset, enrichment>>,
         NEW i \in Items, NEW item, SaveItem(i, item), Remember(i, item),
         pc \notin SweptAt, pc \in JudgedAt => item.ver # "pending"
  PROVE  RInv'
<1>1. Undisturbed' = Undisturbed /\ Waiting' = Waiting /\ Attached' = Attached
  BY DEF Undisturbed, Calm, Waiting, Attached
<1>2. mem'[i] = item /\ \A j \in Items \ {i} : mem'[j] = mem[j]
  BY DEF IInv, Types, Remember
<1>3. RunInStep'
  BY <1>1 DEF RInv, RunInStep, SaveItem, Remember
<1>4. RunSweeps'
  BY <1>1, <1>2 DEF RInv, RunSweeps, CopyJudged
<1>5. BackfillSweeps' /\ NothingOwed'
  BY DEF FInv, RunHolds, Undisturbed, BackfillSweeps, NothingOwed, Unattended
<1> QED
  BY <1>3, <1>4, <1>5 DEF RInv, EnrichmentStates, SkipsUnsettled

LEMMA SweptIsJudged ==
  ASSUME RInv, Undisturbed, Loaded(pc), CopySwept
  PROVE  JudgedBut(Waiting)
<1>1. mem = row /\ Attached \subseteq known \cup Waiting
  BY DEF RInv, RunInStep
<1> QED
  BY <1>1 DEF CopySwept, JudgedBut, Missing

(* The run ends, with nothing left behind if the webset is idle. *)
LEMMA RunEnds ==
  ASSUME FInv, RInv, Loaded(pc), Return, EnrichmentStates', Attached' = Attached,
         UNCHANGED <<row, bpc, overlapped, crashes, faults>>,
         Undisturbed /\ webset' = "idle" => JudgedBut(Waiting)
  PROVE  RInv'
<1>1. Undisturbed' = Undisturbed /\ Waiting' = Waiting /\ pc' = "off"
  BY DEF Undisturbed, Calm, Waiting, Return, Fresh
<1>2. SkipsUnsettled' /\ RunInStep' /\ RunSweeps'
  BY <1>1 DEF SkipsUnsettled, RunInStep, RunSweeps, Loaded, JudgedAt, SweptAt
<1>3. BackfillSweeps'
  BY DEF FInv, RunHolds, Undisturbed, BackfillSweeps
<1>4. NothingOwed'
  BY <1>1 DEF NothingOwed, JudgedBut
<1> QED
  BY <1>2, <1>3, <1>4 DEF RInv

LEMMA LoadR ==
  ASSUME IInv, AInv, FInv, RInv, Load, Undisturbed' => Undisturbed
  PROVE  RInv'
<1>0. /\ pc = "load" /\ ~Loaded(pc) /\ UNCHANGED <<bpc, btodo, bcur, row, webset, enrichment>>
      /\ Attached' = Attached /\ Waiting' = Waiting
  BY DEF Load, store, statuses, backfill, Attached, Waiting, Loaded
<1>1. EnrichmentStates'
  BY <1>0 DEF RInv, EnrichmentStates
<1>2. CASE Return
  <2>1. pc' = "off" /\ webset = "cancelled"
    BY <1>0, <1>2 DEF Load, Return, Fresh
  <2> QED
    BY <1>0, <1>1, <2>1 DEF RInv, SkipsUnsettled, RunInStep, RunSweeps, BackfillSweeps, NothingOwed, Loaded
<1>3. CASE ~Return
  <2>1. pc' = "next" /\ mem' = row /\ known' = Attached /\ Loaded(pc')
    BY <1>0, <1>3 DEF Load, Loaded
  <2>2. ~overlapped' => \A f \in Late : bpc[f] = "off"
    BY DEF Load
  <2>3. RunInStep' /\ SkipsUnsettled' /\ NothingOwed'
    BY <1>0, <2>1 DEF RunInStep, SkipsUnsettled, NothingOwed, Unattended
  <2>4. BackfillSweeps'
    BY <1>0, <2>2 DEF BackfillSweeps, Undisturbed, Loaded
  <2>5. ASSUME Undisturbed', webset = "idle"
        PROVE  CopySwept'
    <3>1. (\A f \in Late : ~Loaded(bpc[f])) /\ Waiting = {}
      BY <2>2, <2>5 DEF Undisturbed, Loaded, Waiting
    <3>2. JudgedBut(Waiting)
      BY <1>0, <2>5, <3>1 DEF RInv, NothingOwed, Unattended
    <3> QED
      BY <1>0, <2>1, <3>1, <3>2 DEF JudgedBut, CopySwept, Missing
  <2>6. RunSweeps'
    BY <1>0, <2>1, <2>5 DEF RunSweeps, JudgedAt
  <2> QED
    BY <1>1, <2>3, <2>4, <2>6 DEF RInv
<1> QED
  BY <1>2, <1>3

LEMMA ItemStepsR ==
  ASSUME IInv, AInv, FInv, RInv, NEW i \in Items, ItemStep(i)
  PROVE  RInv'
<1>1. /\ pc = "batch" /\ pc' = pc /\ Loaded(pc)
      /\ UNCHANGED <<known, bpc, overlapped, crashes, faults, webset, enrichment>>
  <2>1. task[i] # "none"
    BY DEF ItemStep, Acquire, SaveNew, Judge, EmitCreated, NextField, SaveField, EmitEnriched
  <2> QED
    BY <2>1, InBatch DEF ItemStep, Acquire, SaveNew, Judge, EmitCreated, NextField, SaveField,
       EmitEnriched, Frame, backfill, bounds, statuses, Loaded
<1>2. pc \notin SweptAt /\ pc \notin JudgedAt
  BY <1>1 DEF SweptAt, JudgedAt
<1>3. CASE \E item : SaveItem(i, item) /\ Remember(i, item)
  BY <1>1, <1>2, <1>3, RunStores
<1>4. CASE UNCHANGED <<row, mem>>
  <2>1. EnrichmentStates' /\ SkipsUnsettled' /\ Attached' = Attached
    BY <1>1 DEF RInv, EnrichmentStates, SkipsUnsettled, Attached
  <2> QED
    BY <1>1, <1>2, <1>4, <2>1, RunMoves
<1> QED
  BY <1>3, <1>4 DEF ItemStep, Acquire, SaveNew, Judge, EmitCreated, NextField, SaveField, EmitEnriched

(* The steps of the pass that neither write an item nor end the run. *)
LEMMA PassStepsR ==
  ASSUME IInv, FInv, RInv, ~Return, pc # "load",
         \/ PickSearch \/ SearchesDone \/ LeaveVariants \/ Recall \/ BatchDone
         \/ SettleSearch \/ Finalize \/ ListDefs \/ WriteDef \/ DefsSettled
         \/ DriveNewcomers \/ SetIdle \/ Fail \/ SetFailed
  PROVE  RInv'
<1> USE DEF pass, locals
<1>1. /\ UNCHANGED <<row, mem, known, bpc, overlapped, crashes, faults>>
      /\ Loaded(pc) /\ Loaded(pc')
  BY DEF PickSearch, SearchesDone, LeaveVariants, Recall, BatchDone, SettleSearch, Finalize,
     ListDefs, WriteDef, DefsSettled, DriveNewcomers, SetIdle, Fail, SetFailed, Goto, NextSearch,
     Raise, Raising, store, backfill, bounds, Loaded
<1>2. EnrichmentStates' /\ Attached' = Attached
  <2>1. CASE WriteDef
    BY <2>1, StatusWritten DEF RInv
  <2>2. CASE UNCHANGED enrichment
    BY <1>1, <2>2 DEF RInv, EnrichmentStates, Attached
  <2> QED
    BY <2>1, <2>2 DEF PickSearch, SearchesDone, LeaveVariants, Recall, BatchDone, SettleSearch,
       Finalize, ListDefs, DefsSettled, DriveNewcomers, SetIdle, Fail, SetFailed, store, statuses
<1>3. UNCHANGED webset
  BY DEF PickSearch, SearchesDone, LeaveVariants, Recall, BatchDone, SettleSearch, Finalize,
     ListDefs, WriteDef, DefsSettled, DriveNewcomers, SetIdle, Fail, SetFailed, store, statuses
<1>4. pc' = "skip" => webset \in {"cancelled", "failed"}
  BY DEF PickSearch, SearchesDone, LeaveVariants, Recall, BatchDone, SettleSearch, Finalize,
     ListDefs, WriteDef, DefsSettled, DriveNewcomers, SetIdle, Fail, SetFailed, Goto, NextSearch,
     Raise, Raising
<1>5. pc' \notin JudgedAt
  BY DEF PickSearch, SearchesDone, LeaveVariants, Recall, BatchDone, SettleSearch, Finalize,
     ListDefs, WriteDef, DefsSettled, DriveNewcomers, SetIdle, Fail, SetFailed, Goto, NextSearch,
     Raise, Raising, JudgedAt
<1>6. webset = "idle" /\ pc' \in SweptAt => pc \in SweptAt
  BY DEF PickSearch, SearchesDone, LeaveVariants, Recall, BatchDone, SettleSearch, Finalize,
     ListDefs, WriteDef, DefsSettled, DriveNewcomers, SetIdle, Fail, SetFailed, Goto, NextSearch,
     Raise, Raising, SweptAt
<1>7. Undisturbed /\ webset = "idle" /\ pc' \in SweptAt => CopySwept
  BY <1>6 DEF RInv, RunSweeps
<1> QED
  BY <1>1, <1>2, <1>3, <1>4, <1>5, <1>7, RunMoves DEF SkipsUnsettled

(* Where a run that has loaded ends; set_webset_idle asks Blockers.        *)
LEMMA EndsR ==
  ASSUME IInv, FInv, RInv, RunStep, ~Load, Return
  PROVE  RInv'
<1> USE DEF pass, locals
<1>0. pc' = "off" /\ \A i \in Items : ~ItemStep(i)
  <2>1. ASSUME NEW i \in Items, ItemStep(i)
        PROVE  pc' = "batch"
    <3>1. task[i] # "none" /\ pc' = pc
      BY <2>1 DEF ItemStep, Acquire, SaveNew, Judge, EmitCreated, NextField, SaveField,
         EmitEnriched, Frame
    <3> QED
      BY <3>1, InBatch
  <2> QED
    BY <2>1 DEF Return, Fresh
<1>1. UNCHANGED <<row, bpc, overlapped, crashes, faults>> /\ Loaded(pc)
  BY <1>0 DEF RunStep, PickSearch, SearchesDone, LeaveVariants, Recall, BatchDone, SettleSearch,
     Finalize, ListDefs, WriteDef, DefsSettled, DriveNewcomers, SetIdle, Fail, SetFailed, Goto,
     NextSearch, Raise, Raising, store, backfill, bounds, Loaded, SettlePendingItems,
     SettleMissingFields
<1>2. EnrichmentStates' /\ Attached' = Attached
  <2>1. CASE WriteDef
    BY <2>1, StatusWritten DEF RInv
  <2>2. CASE UNCHANGED enrichment
    BY <1>1, <2>2 DEF RInv, EnrichmentStates, Attached
  <2> QED
    BY <2>1, <2>2, RunStepFrame
<1>3. ASSUME Undisturbed, webset = "idle", pc \in SweptAt
      PROVE  JudgedBut(Waiting)
  BY <1>1, <1>3, SweptIsJudged DEF RInv, RunSweeps
<1>4. ASSUME ~Blockers
      PROVE  JudgedBut(Waiting)
  BY <1>4 DEF Blockers, NeedsWork, JudgedBut, Missing
<1>5. ASSUME webset' = "idle"
      PROVE  ~Blockers \/ (webset = "idle" /\ pc \in SweptAt)
  <2>1. ~(pc = "skip" /\ webset = "idle")
    BY DEF RInv, SkipsUnsettled
  <2>2. CASE SettleMissingFields
    BY <1>0, <1>1, <1>5, <2>1, <2>2 DEF SettleMissingFields, Goto, store, statuses
  <2>3. CASE ~SettleMissingFields
    BY <1>0, <1>1, <1>5, <2>3 DEF RunStep, PickSearch, SearchesDone, LeaveVariants, Recall,
       BatchDone, SettleSearch, Finalize, ListDefs, WriteDef, DefsSettled, DriveNewcomers, SetIdle,
       Fail, SetFailed, Goto, NextSearch, Raise, Raising, store, statuses, SettlePendingItems,
       SweptAt, Loaded
  <2> QED
    BY <2>2, <2>3
<1> QED
  BY <1>1, <1>2, <1>3, <1>4, <1>5, RunEnds

LEMMA SweepsR ==
  ASSUME IInv, FInv, RInv, SettlePendingItems \/ SettleMissingFields, ~Return
  PROVE  RInv'
<1> USE DEF pass, locals
<1>1. /\ UNCHANGED <<known, bpc, overlapped, crashes, faults, webset, enrichment>>
      /\ Loaded(pc) /\ Attached' = Attached /\ EnrichmentStates'
  BY DEF SettlePendingItems, SettleMissingFields, Goto, backfill, bounds, statuses, Loaded, Attached,
     RInv, EnrichmentStates
<1>2. CASE SettlePendingItems
  <2>1. ASSUME NEW i \in Items, SaveItem(i, [mem[i] EXCEPT !.ver = "rejected"]),
               Remember(i, [mem[i] EXCEPT !.ver = "rejected"]), UNCHANGED pc
        PROVE  RInv'
    <3>1. pc \notin SweptAt /\ pc \notin JudgedAt
      BY <1>2 DEF SettlePendingItems, SweptAt, JudgedAt
    <3> DEFINE item == [mem[i] EXCEPT !.ver = "rejected"]
    <3>2. SaveItem(i, item) /\ Remember(i, item)
      BY <2>1
    <3> HIDE DEF item
    <3> QED
      BY <1>1, <2>1, <3>1, <3>2, RunStores
  <2>2. ASSUME CopyJudged, Goto(IF pc = "pending" THEN "fields" ELSE "failFields"), UNCHANGED row
        PROVE  RInv'
    <3>1. Loaded(pc') /\ pc' \notin SweptAt /\ SkipsUnsettled' /\ UNCHANGED mem
      BY <2>2 DEF Goto, Loaded, SweptAt, SkipsUnsettled
    <3> QED
      BY <1>1, <2>2, <3>1, RunMoves
  <2> QED
    BY <1>2, <2>1, <2>2 DEF SettlePendingItems, CopyJudged
<1>3. CASE SettleMissingFields
  <2>1. ASSUME NEW i \in Items, mem[i].ver = "verified", SaveItem(i, Settled(mem[i])),
               Remember(i, Settled(mem[i])), UNCHANGED pc
        PROVE  RInv'
    <3>1. pc \notin SweptAt /\ Settled(mem[i]).ver # "pending"
      <4>1. mem[i] \in ItemType
        BY DEF IInv, Types
      <4> QED
        BY <1>3, <2>1, <4>1, SettledType DEF SettleMissingFields, SweptAt
    <3> QED
      BY <1>1, <2>1, <3>1, RunStores
  <2>2. ASSUME \A i \in Items : mem[i].ver = "verified" => Missing(mem[i], known) = {},
               UNCHANGED row,
               (pc = "fields" /\ Goto("settle")) \/ (pc = "failFields" /\ Goto("failDefs"))
        PROVE  RInv'
    <3>1. Loaded(pc') /\ pc' \notin JudgedAt /\ pc \in JudgedAt /\ SkipsUnsettled' /\ UNCHANGED mem
      BY <2>2 DEF Goto, Loaded, JudgedAt, SkipsUnsettled
    <3>2. Undisturbed /\ webset = "idle" => CopySwept
      BY <2>2, <3>1 DEF RInv, RunSweeps, CopyJudged, CopySwept
    <3> QED
      BY <1>1, <2>2, <3>1, <3>2, RunMoves
  <2>3. CASE \A i \in Items : mem[i].ver = "verified" => Missing(mem[i], known) = {}
    BY <1>3, <2>2, <2>3 DEF SettleMissingFields
  <2>4. CASE ~\A i \in Items : mem[i].ver = "verified" => Missing(mem[i], known) = {}
    BY <1>3, <2>1, <2>4 DEF SettleMissingFields
  <2> QED
    BY <2>3, <2>4
<1> QED
  BY <1>2, <1>3

(* A backfill that has loaded is alone, with nobody to owe anything to.    *)
LEMMA BackfillAlone ==
  ASSUME FInv, NEW f \in Late, Loaded(bpc[f]), Undisturbed
  PROVE  ~Loaded(pc) /\ \A g \in Late : Loaded(bpc[g]) => g = f
BY DEF FInv, RunHolds, BackfillHolds, Undisturbed

(* It goes on, and every field it saves leaves its list. *)
LEMMA BackfillGoes ==
  ASSUME IInv, FInv, RInv, NEW f \in Late, NEW l, Loaded(bpc[f]), Loaded(l),
         bpc' = [bpc EXCEPT ![f] = l], EnrichmentStates', Attached' = Attached,
         UNCHANGED <<pc, webset, overlapped, crashes, faults>>, FieldsKept, Final,
         \A i \in Items : row'[i].ver = row[i].ver,
         Undisturbed /\ webset = "idle" =>
           /\ \A i \in Unsaved(f) \ Unsaved(f)' : row'[i].val[f] # "none"
           /\ l \in {"status", "close", "flip"} => btodo'[f] = {}
  PROVE  RInv'
<1>1. Undisturbed' = Undisturbed /\ Waiting' = Waiting
  BY DEF Undisturbed, Calm, Waiting, FInv, Shapes, Loaded
<1>2. bpc'[f] = l /\ \A g \in Late \ {f} : bpc'[g] = bpc[g]
  BY DEF FInv, Shapes
<1>3. RunInStep' /\ RunSweeps' /\ SkipsUnsettled'
  <2>1. Undisturbed => ~Loaded(pc)
    BY BackfillAlone
  <2> QED
    BY <1>1, <2>1 DEF RInv, SkipsUnsettled, RunInStep, RunSweeps, Loaded, JudgedAt, SweptAt
<1>4. NothingOwed'
  BY <1>2 DEF NothingOwed, Unattended
<1>5. ASSUME Undisturbed, webset = "idle", NEW g \in Late, Loaded(bpc'[g])
      PROVE  /\ g = f /\ JudgedBut(Waiting \cup {f})
             /\ \A i \in Items : row[i].ver = "verified" /\ row[i].val[f] = "none" => i \in Unsaved(f)
  BY <1>2, <1>5, BackfillAlone DEF RInv, BackfillSweeps
<1>6. ASSUME Undisturbed, webset = "idle"
      PROVE  \A i \in Items : Kept(row[i], row'[i])
  BY <1>6 DEF FieldsKept, Undisturbed
<1>7. ASSUME Undisturbed, webset = "idle", NEW g \in Late, Loaded(bpc'[g])
      PROVE  /\ JudgedBut(Waiting \cup {g})'
             /\ \A i \in Items : row'[i].ver = "verified" /\ row'[i].val[g] = "none" => i \in Unsaved(g)'
  <2>1. g = f /\ JudgedBut(Waiting \cup {f})
    BY <1>5, <1>7
  <2>2. ASSUME NEW i \in Items, row'[i].ver = "verified"
        PROVE  Missing(row'[i], Attached) \subseteq Missing(row[i], Attached)
    BY <1>6, <1>7 DEF Kept, Missing, Attached
  <2>3. JudgedBut(Waiting \cup {g})'
    <3> SUFFICES ASSUME NEW i \in Items
                 PROVE  /\ row'[i].ver # "pending"
                        /\ row'[i].ver = "verified" =>
                             Missing(row'[i], Attached) \subseteq Waiting \cup {g}
      BY <1>1 DEF JudgedBut
    <3> QED
      BY <2>1, <2>2 DEF JudgedBut
  <2>4. ASSUME NEW i \in Items, row'[i].ver = "verified", row'[i].val[f] = "none"
        PROVE  i \in Unsaved(f)'
    <3>1. f \in Fields /\ row[i].val[f] = "none"
      BY <1>6, <1>7, <2>4 DEF Kept, Fields
    <3>2. i \in Unsaved(f)
      BY <1>5, <1>7, <2>1, <2>4, <3>1
    <3> QED
      BY <1>7, <2>4, <3>2
  <2> QED
    BY <2>1, <2>3, <2>4
<1>8. BackfillSweeps'
  BY <1>1, <1>2, <1>5, <1>7 DEF BackfillSweeps
<1> QED
  BY <1>3, <1>4, <1>8 DEF RInv

LEMMA BackfillEnds ==
  ASSUME FInv, RInv, NEW f \in Late, BReset(f), EnrichmentStates', Attached' = Attached,
         bpc[f] # "off", UNCHANGED <<pc, mem, known, row>>, Undisturbed' => Undisturbed,
         webset' = "idle" => webset = "idle" \/ ~Blockers,
         webset \in {"cancelled", "failed"} => UNCHANGED webset,
         Undisturbed' => ~Loaded(pc) /\ \A g \in Late \ {f} : ~Loaded(bpc[g]),
         Undisturbed' /\ webset = "idle" => JudgedBut(Waiting \ {f}) \/ ~Blockers
  PROVE  RInv'
<1>1. bpc' = [bpc EXCEPT ![f] = "off"]
  BY DEF BReset, BGoto
<1>2. bpc'[f] = "off" /\ \A g \in Late \ {f} : bpc'[g] = bpc[g]
  BY <1>1 DEF FInv, Shapes
<1>3. Waiting' = Waiting \ {f}
  BY <1>2 DEF Waiting
<1>4. RunInStep' /\ RunSweeps' /\ SkipsUnsettled'
  BY DEF RInv, SkipsUnsettled, RunInStep, RunSweeps, Loaded, JudgedAt, SweptAt
<1>5. BackfillSweeps'
  BY <1>2 DEF BackfillSweeps, Loaded
<1>6. ASSUME ~Blockers
      PROVE  JudgedBut(Waiting \ {f})
  BY <1>6 DEF Blockers, NeedsWork, JudgedBut, Missing
<1>7. ASSUME Undisturbed', webset' = "idle"
      PROVE  JudgedBut(Waiting)'
  <2>1. JudgedBut(Waiting \ {f})
    BY <1>6, <1>7
  <2> QED
    BY <1>3, <2>1 DEF JudgedBut
<1>8. NothingOwed'
  BY <1>7 DEF NothingOwed
<1> QED
  BY <1>4, <1>5, <1>8 DEF RInv

LEMMA BackfillLoads ==
  ASSUME IInv, FInv, RInv, NEW f \in Late, BLoad(f), EnrichmentStates', Attached' = Attached,
         Undisturbed' => Undisturbed
  PROVE  RInv'
<1> USE DEF RunFrame, BGoto, statuses, locals
<1>1. bpc[f] = "load" /\ UNCHANGED <<pc, mem, known, row, webset>>
  BY DEF BLoad
<1>2. Undisturbed' => pc = "off" /\ \A g \in Late \ {f} : bpc[g] = "off"
  BY DEF BLoad, Undisturbed
<1>3. Undisturbed' => ~Loaded(pc) /\ \A g \in Late : ~Loaded(bpc[g])
  BY <1>1, <1>2 DEF Loaded
<1>4. Undisturbed' => Waiting = {f}
  BY <1>1, <1>2 DEF Waiting
<1>5. Undisturbed' /\ webset = "idle" => JudgedBut({f})
  BY <1>3, <1>4 DEF RInv, NothingOwed, Unattended
<1> DEFINE lacking == {i \in VerifiedRows : row[i].val[f] = "none"}
<1>6. CASE BReset(f)
  <2>1. f \notin Attached \/ webset = "cancelled" \/ lacking = {}
    <3>1. bpc'[f] = "off"
      BY <1>6 DEF BReset, FInv, Shapes
    <3> QED
      BY <3>1 DEF BLoad, FInv, Shapes
  <2>2. ASSUME Undisturbed', webset = "idle"
        PROVE  JudgedBut(Waiting \ {f})
    <3>1. JudgedBut({f})
      BY <1>5, <2>2
    <3> QED
      BY <2>1, <2>2, <3>1 DEF JudgedBut, Missing, VerifiedRows
  <2> HIDE DEF lacking
  <2> QED
    BY <1>1, <1>3, <1>6, <2>2, BackfillEnds
<1>7. CASE ~BReset(f)
  <2>1. /\ bpc' = [bpc EXCEPT ![f] = "open"]
        /\ btodo' = [btodo EXCEPT ![f] = lacking]
    BY <1>7 DEF BLoad
  <2>2. bpc'[f] = "open" /\ (\A g \in Late \ {f} : bpc'[g] = bpc[g]) /\ btodo'[f] = lacking
    BY <2>1 DEF FInv, Shapes, IInv, Types
  <2>3. Unsaved(f)' = lacking /\ Loaded(bpc'[f])
    BY <2>2 DEF Unsaved, Loaded
  <2>4. RunInStep' /\ RunSweeps' /\ SkipsUnsettled' /\ NothingOwed'
    BY <1>1, <1>2, <2>3 DEF RInv, SkipsUnsettled, RunInStep, RunSweeps, NothingOwed, Unattended,
       Loaded, JudgedAt, SweptAt
  <2>5. ASSUME Undisturbed', webset = "idle", NEW g \in Late, Loaded(bpc'[g])
        PROVE  /\ g = f /\ JudgedBut(Waiting \cup {g})'
               /\ \A i \in Items : row[i].ver = "verified" /\ row[i].val[g] = "none" => i \in Unsaved(g)'
    <3>1. g = f
      BY <1>3, <2>2, <2>5
    <3>2. JudgedBut({f})
      BY <1>5, <2>5
    <3> QED
      BY <1>1, <2>3, <3>1, <3>2 DEF JudgedBut, VerifiedRows
  <2>6. BackfillSweeps'
    BY <1>1, <2>2, <2>5 DEF BackfillSweeps
  <2> QED
    BY <2>4, <2>6 DEF RInv
<1> QED
  BY <1>6, <1>7

LEMMA BackfillStepsR ==
  ASSUME IInv, FInv, BackfillsTell, RInv, NEW f \in Late, BackfillStep(f),
         Undisturbed' => Undisturbed, FieldsKept, Final
  PROVE  RInv'
<1> USE DEF RunFrame, BGoto, statuses, locals, store, bounds
<1>1. EnrichmentStates' /\ Attached' = Attached
  BY BackfillStatus DEF RInv
<1>2. CASE BLoad(f)
  BY <1>1, <1>2, BackfillLoads
<1>3. ASSUME ~BLoad(f)
      PROVE  /\ Loaded(bpc[f]) /\ UNCHANGED <<pc, mem, known, overlapped, crashes, faults>>
             /\ UNCHANGED row \/ BSave(f)
             /\ UNCHANGED webset \/ BFlip(f)
             /\ bpc[f] # "off"
  BY <1>3 DEF BackfillStep, BOpen, BPick, BSave, BEmit, BStatus, BClose, BFlip, Loaded
<1>4. ASSUME ~BLoad(f)
      PROVE  Undisturbed => ~Loaded(pc) /\ \A g \in Late : Loaded(bpc[g]) => g = f
  BY <1>3, <1>4, BackfillAlone
<1>5. ASSUME ~BLoad(f), BReset(f)
      PROVE  RInv'
  <2>1. bpc[f] \in {"status", "close", "flip"}
    <3>1. bpc'[f] = "off"
      BY <1>5 DEF BReset, FInv, Shapes
    <3> QED
      BY <1>5, <3>1 DEF BackfillStep, BOpen, BPick, BSave, BEmit, BStatus, BClose, BFlip, FInv, Shapes
  <2>2. UNCHANGED row
    BY <1>3, <1>5, <2>1 DEF BSave
  <2>3. ASSUME Undisturbed, webset = "idle"
        PROVE  JudgedBut(Waiting \ {f})
    <3>1. JudgedBut(Waiting \cup {f}) /\ Unsaved(f) = {} /\ f \in Fields
          /\ \A i \in Items :
               row[i].ver = "verified" /\ row[i].val[f] = "none" => i \in Unsaved(f)
      BY <1>3, <1>5, <2>1, <2>3 DEF RInv, BackfillSweeps, Unsaved, Fields
    <3>2. f \notin Waiting
      BY <2>1 DEF Waiting
    <3> QED
      BY <3>1, <3>2 DEF JudgedBut, Missing
  <2>4. webset' = "idle" => webset = "idle" \/ ~Blockers
    BY <1>3, <1>5 DEF BFlip
  <2>5. webset \in {"cancelled", "failed"} => UNCHANGED webset
    BY <1>3, <1>5 DEF BFlip
  <2> QED
    BY <1>1, <1>3, <1>4, <1>5, <2>2, <2>3, <2>4, <2>5, BackfillEnds
<1>6. ASSUME ~BLoad(f), ~BSave(f), ~BReset(f), NEW l, Loaded(l), bpc' = [bpc EXCEPT ![f] = l],
             Unsaved(f) \subseteq Unsaved(f)', UNCHANGED webset,
             Undisturbed /\ webset = "idle" /\ l \in {"status", "close", "flip"} => btodo'[f] = {}
      PROVE  RInv'
  BY <1>1, <1>3, <1>6, BackfillGoes
<1>7. ASSUME ~BLoad(f)
      PROVE  /\ Undisturbed /\ webset = "idle" /\ bpc[f] \in {"status", "close", "flip"} => btodo[f] = {}
             /\ \A l \in {"pick", "emit", "status", "close", "flip", "save"} : Loaded(l)
  BY <1>3, <1>7 DEF RInv, BackfillSweeps, Loaded
<1>8. CASE BOpen(f)
  <2>1. bpc[f] = "open" /\ bpc' = [bpc EXCEPT ![f] = "pick"] /\ UNCHANGED <<btodo, bcur, webset>>
    BY <1>8 DEF BOpen
  <2>2. bpc'[f] = "pick" /\ ~BLoad(f) /\ ~BSave(f) /\ ~BReset(f)
    BY <2>1 DEF FInv, Shapes, BLoad, BSave, BReset
  <2>3. Unsaved(f) \subseteq Unsaved(f)'
    BY <2>1, <2>2 DEF Unsaved
  <2> QED
    BY <1>6, <1>7, <2>1, <2>2, <2>3
<1>9. CASE BPick(f)
  <2>1. bpc[f] = "pick" /\ UNCHANGED webset
    BY <1>9 DEF BPick
  <2>2. ~BLoad(f) /\ ~BSave(f)
    BY <2>1 DEF BLoad, BSave
  <2>3. CASE btodo[f] = {} \/ webset = "cancelled"
    <3>1. bpc' = [bpc EXCEPT ![f] = "status"] /\ UNCHANGED <<btodo, bcur>>
      BY <1>9, <2>3 DEF BPick
    <3>2. bpc'[f] = "status" /\ ~BReset(f)
      BY <3>1 DEF FInv, Shapes, BReset
    <3>3. Unsaved(f) \subseteq Unsaved(f)'
      BY <2>1, <3>1 DEF Unsaved
    <3>4. webset = "idle" => btodo'[f] = {}
      BY <2>3, <3>1
    <3> QED
      BY <1>6, <1>7, <2>1, <2>2, <3>1, <3>2, <3>3, <3>4
  <2>4. CASE ~(btodo[f] = {} \/ webset = "cancelled")
    <3>1. PICK i \in btodo[f] :
            /\ bcur' = [bcur EXCEPT ![f] = {i}]
            /\ btodo' = [btodo EXCEPT ![f] = @ \ {i}]
            /\ bpc' = [bpc EXCEPT ![f] = "save"]
      BY <1>9, <2>4 DEF BPick
    <3>2. bpc'[f] = "save" /\ bcur'[f] = {i} /\ btodo'[f] = btodo[f] \ {i} /\ ~BReset(f)
      BY <3>1 DEF FInv, Shapes, IInv, Types, BReset
    <3>3. Unsaved(f) \subseteq Unsaved(f)'
      BY <2>1, <3>2 DEF Unsaved
    <3> QED
      BY <1>6, <1>7, <2>1, <2>2, <3>1, <3>2, <3>3
  <2> QED
    BY <2>3, <2>4
<1>10. CASE BEmit(f)
  <2>1. bpc[f] = "emit" /\ bpc' = [bpc EXCEPT ![f] = "pick"] /\ UNCHANGED <<btodo, bcur, webset>>
    BY <1>10 DEF BEmit
  <2>2. bpc'[f] = "pick" /\ ~BLoad(f) /\ ~BSave(f) /\ ~BReset(f)
    BY <2>1 DEF FInv, Shapes, BLoad, BSave, BReset
  <2>3. Unsaved(f) \subseteq Unsaved(f)'
    BY <2>1, <2>2 DEF Unsaved
  <2> QED
    BY <1>6, <1>7, <2>1, <2>2, <2>3
<1>11. CASE (BStatus(f) \/ BClose(f) \/ BFlip(f)) /\ ~BReset(f)
  <2>1. PICK l \in {"close", "flip"} : bpc' = [bpc EXCEPT ![f] = l]
    BY <1>11 DEF BStatus, BClose, BFlip
  <2>2. bpc[f] \in {"status", "close", "flip"} /\ UNCHANGED <<btodo, bcur, webset>>
    BY <1>11 DEF BStatus, BClose, BFlip
  <2>3. bpc'[f] = l /\ ~BLoad(f) /\ ~BSave(f)
    BY <2>1, <2>2 DEF FInv, Shapes, BLoad, BSave
  <2>4. Unsaved(f) \subseteq Unsaved(f)'
    BY <2>2, <2>3 DEF Unsaved
  <2> QED
    BY <1>6, <1>7, <1>11, <2>1, <2>2, <2>3, <2>4
<1>12. CASE BSave(f)
  <2>1. PICK i \in bcur[f], v \in {"resolved", "unresolved"} :
          SaveItem(i, [copy[f][i] EXCEPT !.val[f] = v])
    BY <1>12 DEF BSave
  <2> DEFINE item == [copy[f][i] EXCEPT !.val[f] = v]
  <2>2. /\ i \in Items /\ copy[f][i] \in ItemType /\ copy[f][i].ver = "verified"
        /\ row[i].ver = "verified" /\ f \in Fields
    BY DEF IInv, Types, CopyAgrees, Fields
  <2>3. item.ver = "verified" /\ item.val[f] = v
    BY <2>2 DEF ItemType
  <2>4. row' = [row EXCEPT ![i] = item]
    BY <2>1 DEF SaveItem
  <2> HIDE DEF item
  <2>5. row'[i] = item /\ \A j \in Items \ {i} : row'[j] = row[j]
    BY <2>2, <2>4 DEF IInv, Types
  <2>6. \A j \in Items : row'[j].ver = row[j].ver
    BY <2>2, <2>3, <2>5
  <2>7. PICK l \in {"pick", "emit"} : bpc' = [bpc EXCEPT ![f] = l]
    BY <1>12 DEF BSave
  <2>8. bpc[f] = "save" /\ UNCHANGED <<btodo, bcur, webset>> /\ ~BLoad(f) /\ bpc'[f] = l
    BY <1>12, <2>7 DEF BSave, BLoad, FInv, Shapes
  <2>9. \A j \in Unsaved(f) \ Unsaved(f)' : j = i
    BY <2>1, <2>8 DEF Unsaved, BackfillsTell
  <2>10. \A k \in Unsaved(f) \ Unsaved(f)' : row'[k].val[f] # "none"
    BY <2>3, <2>5, <2>9
  <2> QED
    BY <1>1, <1>3, <1>7, <2>6, <2>7, <2>8, <2>10, BackfillGoes
<1> QED
  BY <1>2, <1>5, <1>8, <1>9, <1>10, <1>11, <1>12 DEF BackfillStep, BLoad, BStatus, BClose, BFlip

(* Requests schedule tasks, and whoever attaches schedules its backfill.   *)
LEMMA RequestStepsR ==
  ASSUME IInv, FInv, RInv,
         \/ AddSearch \/ CancelWebset
         \/ \E f \in Late : AddEnrichment(f)
         \/ \E f \in Removable : RemoveEnrichment(f)
  PROVE  RInv'
<1> USE DEF RunFrame, BGoto, locals, pass, statuses, backfill, bounds
<1>1. UNCHANGED <<row, overlapped, crashes, faults, btodo, bcur>> /\ Undisturbed' = Undisturbed
  BY DEF AddSearch, CancelWebset, AddEnrichment, RemoveEnrichment, Undisturbed, Calm
<1>2. CASE AddSearch
  <2>1. /\ UNCHANGED <<webset, enrichment, bpc>> /\ Waiting' = Waiting /\ Attached' = Attached
        /\ \A f \in Late : Unsaved(f)' = Unsaved(f)
    BY <1>1, <1>2 DEF AddSearch, Waiting, Attached, Unsaved
  <2>2. (pc = "off" /\ pc' = "load") \/ UNCHANGED <<pc, mem, known>>
    BY <1>2 DEF AddSearch, Fresh
  <2>3. EnrichmentStates' /\ SkipsUnsettled' /\ RunInStep'
    BY <1>1, <2>1, <2>2 DEF RInv, EnrichmentStates, SkipsUnsettled, RunInStep, Loaded
  <2>4. RunSweeps'
    BY <1>1, <2>1, <2>2 DEF RInv, RunSweeps, JudgedAt, SweptAt, CopyJudged, CopySwept
  <2>5. BackfillSweeps' /\ NothingOwed'
    BY <1>1, <2>1, <2>2 DEF RInv, BackfillSweeps, NothingOwed, Unattended, Loaded, JudgedBut
  <2> QED
    BY <2>3, <2>4, <2>5 DEF RInv
<1>3. CASE CancelWebset
  <2>1. /\ UNCHANGED <<pc, mem, known, enrichment, bpc>> /\ Waiting' = Waiting /\ Attached' = Attached
        /\ webset' = "idle" => webset = "idle"
        /\ webset \in {"cancelled", "failed"} => UNCHANGED webset
        /\ \A f \in Late : Unsaved(f)' = Unsaved(f)
    BY <1>1, <1>3 DEF CancelWebset, Waiting, Attached, Unsaved
  <2>2. EnrichmentStates' /\ SkipsUnsettled' /\ RunInStep'
    BY <1>1, <2>1 DEF RInv, EnrichmentStates, SkipsUnsettled, RunInStep
  <2>3. RunSweeps'
    BY <1>1, <2>1 DEF RInv, RunSweeps, CopyJudged, CopySwept
  <2>4. BackfillSweeps' /\ NothingOwed'
    BY <1>1, <2>1 DEF RInv, BackfillSweeps, NothingOwed, Unattended, JudgedBut
  <2> QED
    BY <2>2, <2>3, <2>4 DEF RInv
<1>4. ASSUME NEW f \in Late, AddEnrichment(f)
      PROVE  RInv'
  <2>1. /\ UNCHANGED <<pc, mem, known, webset>> /\ enrichment[f] = "absent" /\ f \in Fields
        /\ enrichment' = [enrichment EXCEPT ![f] = "running"]
        /\ bpc' = [bpc EXCEPT ![f] = "load"]
    BY <1>4 DEF AddEnrichment, Fields
  <2>2. bpc'[f] = "load" /\ \A g \in Late \ {f} : bpc'[g] = bpc[g]
    BY <2>1 DEF FInv, Shapes
  <2>3. bpc[f] = "off"
    BY <2>1 DEF RInv, EnrichmentStates
  <2>4. EnrichmentStates'
    BY <2>1, <2>2 DEF RInv, EnrichmentStates
  <2>5. Waiting' = Waiting \cup {f} /\ Attached' = Attached \cup {f}
    BY <2>1, <2>2 DEF Waiting, Attached, RInv, EnrichmentStates
  <2>6. \A g \in Late : Loaded(bpc'[g]) => g # f /\ bpc'[g] = bpc[g] /\ Loaded(bpc[g])
                                          /\ Unsaved(g)' = Unsaved(g)
    BY <1>1, <2>2 DEF Loaded, Unsaved
  <2>7. ASSUME NEW S, JudgedBut(S)
        PROVE  \A i \in Items :
                 /\ row[i].ver # "pending"
                 /\ row[i].ver = "verified" => Missing(row[i], Attached \cup {f}) \subseteq S \cup {f}
    BY <2>7 DEF JudgedBut, Missing
  <2>8. SkipsUnsettled' /\ RunInStep' /\ RunSweeps'
    BY <1>1, <2>1, <2>5 DEF RInv, SkipsUnsettled, RunInStep, RunSweeps, CopyJudged, CopySwept
  <2>9. NothingOwed'
    <3> SUFFICES ASSUME Undisturbed, webset = "idle", Unattended'
                 PROVE  JudgedBut(Waiting)'
      BY <1>1, <2>1 DEF NothingOwed
    <3>1. Unattended
      BY <2>1, <2>2, <2>3 DEF Unattended, Loaded
    <3>2. JudgedBut(Waiting)
      BY <3>1 DEF RInv, NothingOwed
    <3> QED
      BY <1>1, <2>5, <2>7, <3>2 DEF JudgedBut
  <2>10. BackfillSweeps'
    <3> SUFFICES ASSUME Undisturbed, webset = "idle", NEW g \in Late, Loaded(bpc'[g])
                 PROVE  /\ JudgedBut(Waiting \cup {g})'
                        /\ \A i \in Items :
                             row'[i].ver = "verified" /\ row'[i].val[g] = "none" => i \in Unsaved(g)'
                        /\ bpc'[g] \in {"status", "close", "flip"} => btodo'[g] = {}
      BY <1>1, <2>1 DEF BackfillSweeps
    <3>1. /\ JudgedBut(Waiting \cup {g})
          /\ \A i \in Items :
               row[i].ver = "verified" /\ row[i].val[g] = "none" => i \in Unsaved(g)
          /\ bpc[g] \in {"status", "close", "flip"} => btodo[g] = {}
      BY <2>6 DEF RInv, BackfillSweeps
    <3>2. JudgedBut(Waiting \cup {g})'
      BY <1>1, <2>5, <2>7, <3>1 DEF JudgedBut
    <3> QED
      BY <1>1, <2>6, <3>1, <3>2
  <2> QED
    BY <2>4, <2>8, <2>9, <2>10 DEF RInv
<1>5. ASSUME NEW f \in Removable, RemoveEnrichment(f)
      PROVE  RInv'
  <2>1. /\ UNCHANGED <<pc, mem, known, webset, bpc>> /\ f \in Attached
        /\ enrichment' = [enrichment EXCEPT ![f] = "removed"]
    BY <1>5 DEF RemoveEnrichment
  <2>2. EnrichmentStates' /\ Attached' \subseteq Attached /\ Waiting' = Waiting
    BY <2>1 DEF RInv, EnrichmentStates, Attached, Waiting
  <2>3. SkipsUnsettled' /\ RunInStep' /\ RunSweeps'
    BY <1>1, <2>1, <2>2 DEF RInv, SkipsUnsettled, RunInStep, RunSweeps, CopyJudged, CopySwept
  <2>4. ASSUME NEW S, JudgedBut(S)
        PROVE  \A i \in Items :
                 /\ row[i].ver # "pending"
                 /\ row[i].ver = "verified" => Missing(row[i], Attached') \subseteq S
    BY <2>2, <2>4 DEF JudgedBut, Missing
  <2>5. NothingOwed'
    <3> SUFFICES ASSUME Undisturbed, webset = "idle", Unattended
                 PROVE  JudgedBut(Waiting)'
      BY <1>1, <2>1 DEF NothingOwed, Unattended
    <3>1. JudgedBut(Waiting)
      BY DEF RInv, NothingOwed
    <3> QED
      BY <1>1, <2>2, <2>4, <3>1 DEF JudgedBut
  <2>6. BackfillSweeps'
    <3> SUFFICES ASSUME Undisturbed, webset = "idle", NEW g \in Late, Loaded(bpc[g])
                 PROVE  /\ JudgedBut(Waiting \cup {g})'
                        /\ \A i \in Items :
                             row'[i].ver = "verified" /\ row'[i].val[g] = "none" => i \in Unsaved(g)'
                        /\ bpc'[g] \in {"status", "close", "flip"} => btodo'[g] = {}
      BY <1>1, <2>1 DEF BackfillSweeps
    <3>1. /\ JudgedBut(Waiting \cup {g})
          /\ \A i \in Items :
               row[i].ver = "verified" /\ row[i].val[g] = "none" => i \in Unsaved(g)
          /\ bpc[g] \in {"status", "close", "flip"} => btodo[g] = {}
      BY DEF RInv, BackfillSweeps
    <3>2. JudgedBut(Waiting \cup {g})'
      BY <1>1, <2>2, <2>4, <3>1 DEF JudgedBut
    <3> QED
      BY <1>1, <2>1, <3>1, <3>2 DEF Unsaved
  <2> QED
    BY <2>2, <2>3, <2>5, <2>6 DEF RInv
<1> QED
  BY <1>2, <1>3, <1>4, <1>5

(* After a mishap nothing is claimed of the table any more.                *)
LEMMA MishapsR ==
  ASSUME FInv, RInv, ~Undisturbed',
         PassFault \/ (\E i \in Items : ItemFault(i)) \/ (\E f \in Late : BackfillFault(f))
           \/ CrashAndResume
  PROVE  RInv'
<1>1. UNCHANGED <<webset, enrichment>>
  BY DEF PassFault, ItemFault, BackfillFault, CrashAndResume, store, statuses
<1>2. \A f \in Late : bpc'[f] # "off" => bpc[f] # "off"
  <2>1. ASSUME NEW g \in Late, BackfillFault(g)
        PROVE  \A f \in Late : bpc'[f] # "off" => bpc[f] # "off"
    BY <2>1 DEF BackfillFault, BReset, BGoto, FInv, Shapes
  <2> QED
    BY <2>1 DEF PassFault, ItemFault, CrashAndResume, backfill
<1>3. pc' = "skip" => pc = "skip"
  BY DEF PassFault, ItemFault, BackfillFault, CrashAndResume, Raise, Raising, Return, Fresh, RunFrame
<1> QED
  BY <1>1, <1>2, <1>3 DEF RInv, EnrichmentStates, SkipsUnsettled, RunInStep, RunSweeps,
     BackfillSweeps, NothingOwed

LEMMA InductiveR ==
  IInv /\ AInv /\ FInv /\ EInv /\ RInv /\ FieldsKept /\ Final /\ [Next]_vars => RInv'
<1> SUFFICES ASSUME IInv, AInv, FInv, EInv, RInv, FieldsKept, Final, [Next]_vars PROVE RInv'
  OBVIOUS
<1>1. CASE UNCHANGED vars
  <2>1. UNCHANGED <<webset, row, enrichment, pc, mem, known, bpc, btodo, bcur, crashes, faults, overlapped>>
    BY <1>1 DEF vars, store, statuses, locals, backfill, bounds
  <2>2. EnrichmentStates' /\ SkipsUnsettled'
    BY <2>1 DEF RInv, EnrichmentStates, SkipsUnsettled
  <2>3. /\ Undisturbed' = Undisturbed /\ Waiting' = Waiting /\ Attached' = Attached
        /\ \A f \in Late : Unsaved(f)' = Unsaved(f)
    BY <2>1 DEF Undisturbed, Calm, Waiting, Attached, Unsaved
  <2>4. RunInStep' /\ RunSweeps'
    BY <2>1, <2>3 DEF RInv, RunInStep, RunSweeps, CopyJudged, CopySwept
  <2>5. BackfillSweeps' /\ NothingOwed'
    BY <2>1, <2>3 DEF RInv, BackfillSweeps, NothingOwed, Unattended, JudgedBut
  <2> QED
    BY <2>2, <2>4, <2>5 DEF RInv
<1>2. CASE Next
  <2>1. Undisturbed' => Undisturbed
    BY <1>2, Disturbing
  <2>2. CASE RunStep
    <3>1. CASE Load
      BY <2>1, <3>1, LoadR
    <3>2. CASE ~Load /\ Return
      BY <2>2, <3>2, EndsR
    <3>3. CASE ~Load /\ ~Return
      <4>1. ASSUME pc = "load" PROVE \E i \in Items : ItemStep(i)
        BY <2>2, <3>3, <4>1 DEF RunStep, PickSearch, SearchesDone, LeaveVariants, Recall, BatchDone,
           SettleSearch, SettlePendingItems, SettleMissingFields, Finalize, ListDefs, WriteDef,
           DefsSettled, DriveNewcomers, SetIdle, Fail, SetFailed
      <4> QED
        BY <2>2, <3>3, <4>1, ItemStepsR, PassStepsR, SweepsR DEF RunStep
    <3> QED
      BY <3>1, <3>2, <3>3
  <2>3. ASSUME NEW f \in Late, BackfillStep(f)
        PROVE  RInv'
    BY <2>1, <2>3, BackfillStepsR DEF EInv
  <2>4. CASE PassFault \/ (\E i \in Items : ItemFault(i)) \/ (\E f \in Late : BackfillFault(f))
               \/ CrashAndResume
    BY <1>2, <2>4, Disturbing, MishapsR
  <2> QED
    BY <1>2, <2>2, <2>3, <2>4, RequestStepsR DEF Next
<1> QED
  BY <1>1, <1>2

(* An idle webset with no task scheduled is fully settled, when nothing    *)
(* has failed and no run and backfill have overlapped: whatever was        *)
(* attached, detached, refreshed or cancelled on the way.                  *)
THEOREM IdleRestsComplete == Spec => []RestingIdleIsComplete
<1>1. Init => IInv /\ AInv /\ FInv /\ EInv /\ RInv
  BY Initial0, InitialA, InitialF, InitialE, InitialR
<1>2. IInv /\ AInv /\ FInv /\ EInv /\ RInv /\ [Next]_vars =>
        IInv' /\ AInv' /\ FInv' /\ EInv' /\ RInv'
  BY Inductive, InductiveA, InductiveF, InductiveE, InductiveR, VerdictStep
<1>3. FInv /\ RInv => RestingIdleIsComplete
  <2> SUFFICES ASSUME FInv, RInv, webset = "idle", ~Alive, crashes = 0, faults = 0, ~overlapped
               PROVE  Complete
    BY DEF RestingIdleIsComplete
  <2>1. Undisturbed /\ Unattended /\ Waiting = {}
    BY DEF Undisturbed, Calm, Unattended, Alive, Loaded, Waiting
  <2>2. JudgedBut({})
    BY <2>1 DEF RInv, NothingOwed
  <2> QED
    BY <2>2 DEF JudgedBut, Complete, NeedsWork
<1> QED
  BY <1>1, <1>2, <1>3, PTL DEF Spec
=============================================================================
