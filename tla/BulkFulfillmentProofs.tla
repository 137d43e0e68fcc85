----------------------- MODULE BulkFulfillmentProofs -----------------------
(***************************************************************************)
(* What holds of BulkFulfillment for every set of orders, every limit and  *)
(* every number of batches, restarts, crashes and expired ticks.           *)
(***************************************************************************)
EXTENDS BulkFulfillment, FiniteSetTheorems, WellFoundedInduction, TLAPS

USE DEF batchVars, orderVars, localVars, boundVars

----------------------------------------------------------------------------
(* Sets of orders.                                                         *)

\* Sets of orders are finite.
LEMMA OrderSets ==
    ASSUME NEW S \in SUBSET Orders
    PROVE  IsFiniteSet(S) /\ Cardinality(S) \in Nat
BY BatchAssumption, FS_Subset, FS_CardinalityType

\* A set of numbers that is not empty has a least element.
LEMMA LeastExists ==
    ASSUME NEW S, S \subseteq Nat, S # {}
    PROVE  \E o \in S : \A x \in S : o <= x
<1> DEFINE R == OpToRel(<, Nat)
<1>1. IsWellFoundedOn(R, Nat)
  BY NatLessThanWellFounded
<1>2. \A x, y \in Nat : y < x => <<y, x>> \in R
  BY DEF OpToRel
<1> HIDE DEF R
<1>3. PICK o \in S : \A y \in S : ~(<<y, o>> \in R)
  BY <1>1, WFMin
<1>4. \A x \in S : ~(x < o)
  BY <1>2, <1>3
<1>5. \A x \in S : o <= x
  BY <1>4
<1> QED  BY <1>5

\* First picks an element.
LEMMA FirstIn ==
    ASSUME NEW S \in SUBSET Orders, S # {}
    PROVE  First(S) \in S
<1>1. \E o \in S : \A x \in S : o <= x
  BY BatchAssumption, LeastExists
<1> QED  BY <1>1 DEF First

----------------------------------------------------------------------------
(* Type correctness, with what the worker's labels say of its variables.   *)

InHand ==
    /\ pc = "poll" => poll # {}
    /\ pc = "pending" => todo # {}
    /\ pc \in {"order", "count", "enqueue", "skip", "insert", "mark", "stop"} => cur \in Orders
    /\ pc \in {"enqueue", "insert", "mark"} => cur \in todo

\* Finish writes counters that are numbers and statuses of items and batches.
LEMMA FinishType ==
    ASSUME TypeOK, NEW st \in {"succeeded", "failed"}, Finish(st)
    PROVE  /\ batch' \in [Modes -> BatchRow]
           /\ items' \in [Modes -> [Orders -> ItemStatus]]
           /\ recent' \in Modes
<1> DEFINE after == [items EXCEPT ![mode][cur] =
                        IF items[mode][cur] \in {"pending", "running"} THEN st ELSE @]
           N(set) == Cardinality({o \in Orders : after[mode][o] \in set})
<1>1. \A set : N(set) \in Nat
  BY OrderSets
<1>2. items' = after /\ recent' = mode
  BY DEF Finish
<1> DEFINE row == [batch[mode] EXCEPT !.succeeded = N({"succeeded"}), !.failed = N({"failed"}),
                      !.status = IF N({"pending", "running"}) > 0 THEN "running" ELSE "completed"]
<1>3. batch' = [batch EXCEPT ![mode] = row]
  BY DEF Finish
<1>4. items' \in [Modes -> [Orders -> ItemStatus]]
  BY <1>2 DEF TypeOK, ItemStatus
<1>5. batch' \in [Modes -> BatchRow]
  <2>1. batch[mode] \in BatchRow
    BY DEF TypeOK
  <2>2. row \in BatchRow
    <3> HIDE DEF N
    <3> QED  BY <1>1, <2>1 DEF BatchRow
  <2> QED  BY <1>3, <2>2 DEF TypeOK
<1> QED  BY <1>2, <1>4, <1>5 DEF TypeOK

\* FirstOf picks elements.
LEMMA FirstOfIn == \A S, n : FirstOf(S, n) \subseteq S
BY DEF FirstOf

\* Every step keeps the types and what the labels say.
LEMMA TypeStep == TypeOK /\ InHand /\ Next => TypeOK' /\ InHand'
<1> SUFFICES ASSUME TypeOK, InHand, Next PROVE TypeOK' /\ InHand'
  OBVIOUS
<1>1. CASE LoadRunning
  BY <1>1, FirstOfIn DEF LoadRunning, TypeOK, InHand, ItemsIn
<1>2. CASE NothingLeft
  BY <1>2 DEF NothingLeft, TypeOK, InHand
<1>3. CASE LoadPending
  BY <1>3, FirstOfIn DEF LoadPending, TypeOK, InHand, ItemsIn, NextPoll, NextPending
<1>4. CASE PollJob
  <2>1. First(poll) \in Orders
    BY <1>4, FirstIn DEF PollJob, TypeOK, InHand
  <2> QED  BY <1>4, <2>1 DEF PollJob, TypeOK, InHand, NextPoll, JobVerdict
<1>5. CASE PollOrder
  BY <1>5 DEF PollOrder, TypeOK, InHand
<1>6. CASE CountItem
  <2>1. Finish("succeeded")
    BY <1>6 DEF CountItem
  <2> QED  BY <1>6, <2>1, FinishType DEF CountItem, TypeOK, InHand, NextPoll
<1>7. CASE CheckOrder
  <2>1. First(todo) \in todo
    BY <1>7, FirstIn DEF CheckOrder, TypeOK, InHand
  <2> QED  BY <1>7, <2>1 DEF CheckOrder, TypeOK, InHand
<1>8. CASE RecheckOrder
  BY <1>8 DEF RecheckOrder, TypeOK, InHand
<1>9. CASE SkipItem
  <2>1. Finish("succeeded")
    BY <1>9 DEF SkipItem
  <2> QED  BY <1>9, <2>1, FinishType DEF SkipItem, TypeOK, InHand, NextPending
<1>10. CASE InsertJob
  BY <1>10 DEF InsertJob, TypeOK, InHand
<1>11. CASE MarkItem
  <2>1. items' \in [Modes -> [Orders -> ItemStatus]]
    <3>1. items' = items \/ items' = [items EXCEPT ![mode][cur] = "running"]
      BY <1>11 DEF MarkItem
    <3>2. [items[mode] EXCEPT ![cur] = "running"] \in [Orders -> ItemStatus]
      BY DEF TypeOK, ItemStatus
    <3> QED  BY <3>1, <3>2 DEF TypeOK
  <2>2. recent' \in Modes /\ todo' \subseteq Orders /\ pc' \in {"stop", "idle", "pending"}
    BY <1>11 DEF MarkItem, TypeOK, NextPending
  <2>3. (pc' = "pending" => todo' # {}) /\ cur' \in Orders
    BY <1>11 DEF MarkItem, TypeOK, InHand, NextPending
  <2> QED  BY <1>11, <2>1, <2>2, <2>3 DEF MarkItem, TypeOK, InHand
<1>12. CASE StopItem
  <2>1. Finish("failed")
    BY <1>12 DEF StopItem
  <2> QED  BY <1>12, <2>1, FinishType DEF StopItem, TypeOK, InHand
<1>13. CASE Expire
  <2>1. pc = "poll" => First(poll) \in Orders
    BY FirstIn DEF TypeOK, InHand
  <2>2. pc = "pending" => First(todo) \in Orders
    BY FirstIn DEF TypeOK, InHand
  <2> QED  BY <1>13, <2>1, <2>2 DEF Expire, TypeOK, InHand
<1>14. CASE Interrupt
  BY <1>14 DEF Interrupt, TypeOK, InHand
<1>15. ASSUME NEW m \in Modes, SelectOrders(m) PROVE TypeOK' /\ InHand'
  BY <1>15 DEF SelectOrders, Eligible, TypeOK, InHand
<1>16. ASSUME NEW m \in Modes, InsertBatch(m) PROVE TypeOK' /\ InHand'
  <2>1. Cardinality(creating[m]) \in Nat
    BY OrderSets DEF TypeOK
  <2> QED  BY <1>16, <2>1 DEF InsertBatch, BatchRow, TypeOK, InHand, ItemStatus
<1>17. ASSUME NEW m \in Modes, Restart(m) PROVE TypeOK' /\ InHand'
  <2>1. Cardinality(ItemsIn(m, "succeeded")) \in Nat
    BY OrderSets DEF ItemsIn
  <2> DEFINE row == [batch[m] EXCEPT !.succeeded = Cardinality(ItemsIn(m, "succeeded")),
                                     !.failed = 0]
  <2>2. row \in BatchRow
    BY <2>1 DEF BatchRow, TypeOK
  <2>3. batch' = [batch EXCEPT ![m] = row]
    BY <1>17 DEF Restart
  <2>4. items' \in [Modes -> [Orders -> ItemStatus]]
    BY <1>17 DEF Restart, TypeOK, ItemStatus
  <2>5. job' \in [Orders -> {"none", "active", "settled", "failed"}]
    BY <1>17 DEF Restart, RestartedJob, TypeOK
  <2> HIDE DEF row
  <2> QED  BY <1>17, <2>2, <2>3, <2>4, <2>5 DEF Restart, TypeOK, InHand
<1>18. ASSUME NEW o \in Orders, JobMoves(o) PROVE TypeOK' /\ InHand'
  BY <1>18 DEF JobMoves, TypeOK, InHand
<1>19. ASSUME NEW o \in Orders, OrderChanges(o) PROVE TypeOK' /\ InHand'
  BY <1>19 DEF OrderChanges, TypeOK, InHand
<1> QED
  BY <1>1, <1>2, <1>3, <1>4, <1>5, <1>6, <1>7, <1>8, <1>9, <1>10, <1>11, <1>12, <1>13,
     <1>14, <1>15, <1>16, <1>17, <1>18, <1>19 DEF Next, Worker

\* The rows of the batch tables and the worker's variables keep their types.
THEOREM TypeCorrect == Spec => [](TypeOK /\ InHand)
<1>1. Init => TypeOK /\ InHand
  <2> SUFFICES ASSUME Init PROVE TypeOK /\ InHand
    OBVIOUS
  <2>1. NoBatch \in BatchRow
    BY DEF NoBatch, BatchRow
  <2>2. items \in [Modes -> [Orders -> ItemStatus]]
    BY DEF Init, ItemStatus
  <2>3. batch \in [Modes -> BatchRow]
    BY <2>1 DEF Init
  <2>4. /\ job \in [Orders -> {"none", "active", "settled", "failed"}]
        /\ ship \in [Orders -> Rows \cup {"none"}]
        /\ hold \in [Orders -> {"none", "review", "label"}]
    BY DEF Init
  <2>5. creating \in [Modes -> SUBSET Orders] /\ open \subseteq Orders
    BY DEF Init
  <2>6. /\ recent \in Modes /\ mode \in Modes /\ pc = "idle"
        /\ poll = {} /\ todo = {} /\ cur = 0 /\ counted = FALSE
        /\ requests = 0 /\ faults = 0
    BY DEF Init
  <2>7. TypeOK
    BY <2>2, <2>3, <2>4, <2>5, <2>6 DEF TypeOK
  <2> QED  BY <2>6, <2>7 DEF InHand
<1>2. TypeOK /\ InHand /\ UNCHANGED vars => TypeOK' /\ InHand'
  BY DEF TypeOK, InHand, vars
<1> QED  BY <1>1, <1>2, TypeStep, PTL DEF Spec

----------------------------------------------------------------------------
(* Items and jobs.                                                         *)

\* Most steps leave the items alone; Finish only takes them out of "running".
LEMMA FinishItems ==
    ASSUME TypeOK, NEW st \in {"succeeded", "failed"}, Finish(st),
           NEW m \in Modes, NEW o \in Orders
    PROVE  items'[m][o] = items[m][o] \/ (items'[m][o] = st /\ m = mode /\ o = cur
               /\ items[m][o] \in {"pending", "running"})
BY DEF Finish, TypeOK

JobBeforeMark ==
    /\ RunningItemHasJob
    /\ pc = "mark" => job[cur] # "none"

\* Every step keeps the job in front of the running item.
LEMMA JobStep == TypeOK /\ InHand /\ JobBeforeMark /\ Next => JobBeforeMark'
<1> SUFFICES ASSUME TypeOK, InHand, JobBeforeMark, Next PROVE JobBeforeMark'
  OBVIOUS
<1> DEFINE Kept == /\ items' = items /\ UNCHANGED job
                   /\ pc' # "mark"
<1>0. Kept => JobBeforeMark'
  BY DEF JobBeforeMark, RunningItemHasJob, ItemsIn
<1>1. ASSUME NEW st \in {"succeeded", "failed"}, Finish(st), UNCHANGED job, pc' # "mark"
      PROVE  JobBeforeMark'
  BY <1>1, FinishItems DEF JobBeforeMark, RunningItemHasJob, ItemsIn
<1>2. CASE CountItem \/ SkipItem \/ StopItem
  BY <1>1, <1>2 DEF CountItem, SkipItem, StopItem, NextPoll, NextPending
<1>3. CASE \/ LoadRunning \/ NothingLeft \/ LoadPending \/ PollJob \/ PollOrder
           \/ CheckOrder \/ RecheckOrder \/ Expire \/ Interrupt
  BY <1>0, <1>3 DEF LoadRunning, NothingLeft, LoadPending, PollJob, PollOrder, CheckOrder,
     RecheckOrder, Expire, Interrupt, NextPoll, NextPending, JobVerdict
<1>4. CASE InsertJob
  <2>1. job'[cur] # "none" /\ \A o \in Orders \ {cur} : job'[o] = job[o]
    BY <1>4 DEF InsertJob, TypeOK, InHand
  <2> QED  BY <1>4, <2>1 DEF InsertJob, JobBeforeMark, RunningItemHasJob, ItemsIn, TypeOK, InHand
<1>5. CASE MarkItem
  <2>1. \A m \in Modes, o \in Orders : items'[m][o] = items[m][o] \/ o = cur
    BY <1>5 DEF MarkItem, TypeOK
  <2>2. job' = job /\ pc' # "mark" /\ job[cur] # "none"
    BY <1>5 DEF MarkItem, NextPending, JobBeforeMark
  <2> QED  BY <2>1, <2>2 DEF JobBeforeMark, RunningItemHasJob, ItemsIn
<1>6. ASSUME NEW m \in Modes, SelectOrders(m) PROVE JobBeforeMark'
  BY <1>6 DEF SelectOrders, JobBeforeMark, RunningItemHasJob, ItemsIn
<1>7. ASSUME NEW m \in Modes, InsertBatch(m) PROVE JobBeforeMark'
  <2>1. \A n \in Modes, o \in Orders : items'[n][o] = "running" => items[n][o] = "running"
    BY <1>7 DEF InsertBatch, TypeOK
  <2> QED  BY <1>7, <2>1 DEF InsertBatch, JobBeforeMark, RunningItemHasJob, ItemsIn
<1>8. ASSUME NEW m \in Modes, Restart(m) PROVE JobBeforeMark'
  <2>1. \A n \in Modes, o \in Orders : items'[n][o] = "running" => items[n][o] = "running"
    BY <1>8 DEF Restart, TypeOK
  <2>2. \A o \in Orders : job[o] # "none" => job'[o] # "none"
    BY <1>8 DEF Restart, RestartedJob, TypeOK
  <2>3. pc' = pc /\ cur' = cur
    BY <1>8 DEF Restart
  <2> QED  BY <2>1, <2>2, <2>3 DEF JobBeforeMark, RunningItemHasJob, ItemsIn, InHand
<1>9. ASSUME NEW o \in Orders, JobMoves(o) PROVE JobBeforeMark'
  <2>1. \A x \in Orders : job[x] # "none" => job'[x] # "none"
    BY <1>9 DEF JobMoves, TypeOK
  <2> QED  BY <1>9, <2>1 DEF JobMoves, JobBeforeMark, RunningItemHasJob, ItemsIn, InHand
<1>10. ASSUME NEW o \in Orders, OrderChanges(o) PROVE JobBeforeMark'
  BY <1>10 DEF OrderChanges, JobBeforeMark, RunningItemHasJob, ItemsIn
<1> QED
  BY <1>2, <1>3, <1>4, <1>5, <1>6, <1>7, <1>8, <1>9, <1>10 DEF Next, Worker

\* No crash, expired tick, restart or concurrent batch leaves a running item
\* without a completion job.
THEOREM RunningItemsHaveJobs == Spec => []RunningItemHasJob
<1>1. Init => JobBeforeMark
  BY DEF Init, JobBeforeMark, RunningItemHasJob, ItemsIn
<1>2. JobBeforeMark /\ UNCHANGED vars => JobBeforeMark'
  BY DEF JobBeforeMark, RunningItemHasJob, ItemsIn, vars
<1>3. JobBeforeMark => RunningItemHasJob
  BY DEF JobBeforeMark
<1> QED  BY <1>1, <1>2, <1>3, JobStep, TypeCorrect, PTL DEF Spec

----------------------------------------------------------------------------
(* Batches and items.                                                      *)

Report ==
    /\ BatchReportsItems
    /\ \A m \in Modes : creating[m] # {} => batch[m].status # "running"

\* A batch whose row and kinds of items stay reports them still.
LEMMA SameReport ==
    ASSUME NEW m \in Modes, ReportsItems(m),
           batch'[m].succeeded = batch[m].succeeded, batch'[m].failed = batch[m].failed,
           batch'[m].status = batch[m].status,
           \A o \in Orders : \/ items'[m][o] = items[m][o]
                             \/ {items[m][o], items'[m][o]} \subseteq {"pending", "running"}
    PROVE  ReportsItems(m)'
<1>1. ItemsIn(m, "succeeded")' = ItemsIn(m, "succeeded")
  BY DEF ItemsIn
<1>2. ItemsIn(m, "failed")' = ItemsIn(m, "failed")
  BY DEF ItemsIn
<1>3. (ItemsIn(m, "pending") \cup ItemsIn(m, "running"))'
        = ItemsIn(m, "pending") \cup ItemsIn(m, "running")
  BY DEF ItemsIn
<1> QED  BY <1>1, <1>2, <1>3 DEF ReportsItems

\* Finish makes its batch report the items as it leaves them, and starts no batch
\* that had ended.
LEMMA FinishReport ==
    ASSUME TypeOK, Report, NEW st \in {"succeeded", "failed"}, Finish(st), UNCHANGED creating
    PROVE  Report'
<1>0. PICK b \in Modes : b = mode
  BY DEF TypeOK
<1> DEFINE after == [items EXCEPT ![mode][cur] =
                        IF items[mode][cur] \in {"pending", "running"} THEN st ELSE @]
           N(set) == Cardinality({o \in Orders : after[mode][o] \in set})
           left == {o \in Orders : after[b][o] \in {"pending", "running"}}
           row == [batch[b] EXCEPT !.succeeded = N({"succeeded"}), !.failed = N({"failed"}),
                      !.status = IF N({"pending", "running"}) > 0 THEN "running" ELSE "completed"]
<1>1. items' = after /\ batch' = [batch EXCEPT ![b] = row]
  BY <1>0 DEF Finish
<1>2. batch[b] \in BatchRow /\ batch \in [Modes -> BatchRow]
  BY DEF TypeOK
<1>3. /\ N({"succeeded"}) = Cardinality(ItemsIn(b, "succeeded")')
      /\ N({"failed"}) = Cardinality(ItemsIn(b, "failed")')
      /\ N({"pending", "running"}) = Cardinality(left)
      /\ left = (ItemsIn(b, "pending") \cup ItemsIn(b, "running"))'
  <2> HIDE DEF after
  <2>1. /\ {o \in Orders : after[b][o] \in {"succeeded"}} = ItemsIn(b, "succeeded")'
        /\ {o \in Orders : after[b][o] \in {"failed"}} = ItemsIn(b, "failed")'
        /\ left = (ItemsIn(b, "pending") \cup ItemsIn(b, "running"))'
    BY <1>1 DEF ItemsIn
  <2> QED  BY <2>1, <1>0
<1>4. N({"pending", "running"}) > 0 <=> left # {}
  <2>1. IsFiniteSet(left) /\ Cardinality(left) \in Nat
    BY OrderSets
  <2> HIDE DEF N, left
  <2> QED  BY <1>3, <2>1, FS_EmptySet
<1>5. ReportsItems(b)'
  <2>1. batch'[b] = row
    <3> HIDE DEF row
    <3> QED  BY <1>1, <1>2
  <2>2. /\ row.succeeded = N({"succeeded"}) /\ row.failed = N({"failed"})
        /\ row.status = IF N({"pending", "running"}) > 0 THEN "running" ELSE "completed"
    <3> HIDE DEF N
    <3> QED  BY <1>2 DEF BatchRow
  <2> HIDE DEF row, N, left
  <2>3. batch'[b].succeeded = Cardinality(ItemsIn(b, "succeeded")')
        /\ batch'[b].failed = Cardinality(ItemsIn(b, "failed")')
    BY <1>3, <2>1, <2>2
  <2>4. batch'[b].status = "running" <=> (ItemsIn(b, "pending") \cup ItemsIn(b, "running"))' # {}
    BY <1>3, <1>4, <2>1, <2>2
  <2> QED  BY <2>3, <2>4 DEF ReportsItems
<1>6. ASSUME NEW m \in Modes \ {b} PROVE ReportsItems(m)'
  <2>1. batch'[m] = batch[m]
    BY <1>1, <1>2
  <2>2. \A o \in Orders : items'[m][o] = items[m][o]
    BY <1>0, <1>1 DEF TypeOK
  <2>3. ReportsItems(m)
    BY DEF Report, BatchReportsItems
  <2> QED  BY <2>1, <2>2, <2>3, SameReport
<1>7. ASSUME NEW m \in Modes, batch[m].status # "running" PROVE batch'[m].status # "running"
  <2>1. CASE m = b
    <3>1. ItemsIn(b, "pending") \cup ItemsIn(b, "running") = {}
      BY <1>7, <2>1 DEF Report, BatchReportsItems, ReportsItems
    <3>2. \A o \in Orders : items'[b][o] = items[b][o]
                            \/ items'[b][o] \in {"succeeded", "failed"}
      BY FinishItems
    <3>3. (ItemsIn(b, "pending") \cup ItemsIn(b, "running"))' = {}
      BY <3>1, <3>2 DEF ItemsIn
    <3> QED  BY <1>5, <2>1, <3>3 DEF ReportsItems
  <2>2. CASE m # b
    <3>1. batch'[m] = batch[m]
      <4> HIDE DEF row
      <4> QED  BY <1>1, <1>2, <2>2
    <3> QED  BY <1>7, <3>1
  <2> QED  BY <2>1, <2>2
<1> HIDE DEF after, N, left, row
<1>8. \A m \in Modes : creating'[m] # {} => batch'[m].status # "running"
  BY <1>7 DEF Report
<1>9. BatchReportsItems'
  BY <1>5, <1>6 DEF BatchReportsItems
<1> QED  BY <1>8, <1>9 DEF Report

\* Every step leaves the report of every batch right.
LEMMA ReportStep == TypeOK /\ InHand /\ Report /\ Next => Report'
<1> SUFFICES ASSUME TypeOK, InHand, Report, Next PROVE Report'
  OBVIOUS
<1>1. CASE CountItem \/ SkipItem \/ StopItem
  BY <1>1, FinishReport DEF CountItem, SkipItem, StopItem
<1>2. CASE \/ LoadRunning \/ NothingLeft \/ LoadPending \/ PollJob \/ PollOrder
           \/ CheckOrder \/ RecheckOrder \/ InsertJob \/ Expire \/ Interrupt
  <2>1. UNCHANGED <<batch, items, creating>>
    BY <1>2 DEF LoadRunning, NothingLeft, LoadPending, PollJob, PollOrder, CheckOrder,
       RecheckOrder, InsertJob, Expire, Interrupt
  <2> QED  BY <2>1, SameReport DEF Report, BatchReportsItems
<1>3. CASE MarkItem
  <2>1. UNCHANGED <<batch, creating>>
    BY <1>3 DEF MarkItem
  <2>2. \A m \in Modes, o \in Orders : \/ items'[m][o] = items[m][o]
                                       \/ {items[m][o], items'[m][o]} \subseteq {"pending", "running"}
    BY <1>3 DEF MarkItem, TypeOK
  <2> QED  BY <2>1, <2>2, SameReport DEF Report, BatchReportsItems
<1>4. ASSUME NEW m \in Modes, SelectOrders(m) PROVE Report'
  <2>1. UNCHANGED <<batch, items>>
    BY <1>4 DEF SelectOrders
  <2>2. \A n \in Modes : creating'[n] # {} => batch[n].status # "running"
    BY <1>4 DEF SelectOrders, Report, TypeOK
  <2> QED  BY <2>1, <2>2, SameReport DEF Report, BatchReportsItems
<1>5. ASSUME NEW m \in Modes, InsertBatch(m) PROVE Report'
  <2> DEFINE row == [status |-> "running", total |-> Cardinality(creating[m]),
                     succeeded |-> 0, failed |-> 0]
             new == [o \in Orders |-> IF o \in creating[m] THEN "pending" ELSE "none"]
  <2>1. /\ batch' = [batch EXCEPT ![m] = row] /\ items' = [items EXCEPT ![m] = new]
        /\ creating' = [creating EXCEPT ![m] = {}] /\ creating[m] # {}
    BY <1>5 DEF InsertBatch
  <2>2. batch'[m] = row /\ items'[m] = new /\ creating[m] \subseteq Orders
    BY <2>1 DEF TypeOK
  <2>3. /\ ItemsIn(m, "succeeded")' = {} /\ ItemsIn(m, "failed")' = {}
        /\ ItemsIn(m, "pending")' # {}
    BY <2>1, <2>2 DEF ItemsIn
  <2>4. ReportsItems(m)'
    BY <2>2, <2>3, FS_EmptySet DEF ReportsItems
  <2>5. ASSUME NEW n \in Modes \ {m} PROVE ReportsItems(n)'
    <3>1. batch'[n] = batch[n] /\ items'[n] = items[n]
      BY <2>1 DEF TypeOK
    <3> QED  BY <3>1, SameReport DEF Report, BatchReportsItems
  <2>6. \A n \in Modes : creating'[n] # {} => batch'[n].status # "running"
    BY <2>1 DEF Report, TypeOK
  <2> QED  BY <2>4, <2>5, <2>6 DEF Report, BatchReportsItems
<1>6. ASSUME NEW m \in Modes, Restart(m) PROVE Report'
  <2> DEFINE row == [batch[m] EXCEPT !.succeeded = Cardinality(ItemsIn(m, "succeeded")),
                                     !.failed = 0]
  <2>1. /\ batch' = [batch EXCEPT ![m] = row] /\ creating' = creating
        /\ batch[m].status = "running"
    BY <1>6 DEF Restart
  <2>2. /\ row.succeeded = Cardinality(ItemsIn(m, "succeeded")) /\ row.failed = 0
        /\ row.status = "running"
    BY <2>1 DEF TypeOK, BatchRow
  <2>3. \A o \in Orders : items'[m][o] =
            IF items[m][o] \in {"running", "failed"} THEN "pending" ELSE items[m][o]
    BY <1>6 DEF Restart, TakenBack, ItemsIn, TypeOK
  <2>4. /\ ItemsIn(m, "succeeded")' = ItemsIn(m, "succeeded") /\ ItemsIn(m, "failed")' = {}
        /\ ItemsIn(m, "pending") \cup ItemsIn(m, "running") \subseteq ItemsIn(m, "pending")'
    BY <2>3 DEF ItemsIn
  <2>5. ItemsIn(m, "pending") \cup ItemsIn(m, "running") # {}
    BY <2>1 DEF Report, BatchReportsItems, ReportsItems
  <2>6. batch'[m] = row
    BY <2>1 DEF TypeOK
  <2>7. ReportsItems(m)'
    <3> HIDE DEF row
    <3> QED  BY <2>2, <2>4, <2>5, <2>6, FS_EmptySet DEF ReportsItems
  <2>8. ASSUME NEW n \in Modes \ {m} PROVE ReportsItems(n)'
    <3>1. batch'[n] = batch[n] /\ items'[n] = items[n]
      BY <1>6, <2>1 DEF Restart, TypeOK
    <3> QED  BY <3>1, SameReport DEF Report, BatchReportsItems
  <2>9. \A n \in Modes : creating'[n] # {} => batch'[n].status # "running"
    BY <2>1 DEF Report, TypeOK
  <2> QED  BY <2>7, <2>8, <2>9 DEF Report, BatchReportsItems
<1>7. ASSUME NEW o \in Orders, JobMoves(o) \/ OrderChanges(o) PROVE Report'
  <2>1. UNCHANGED <<batch, items, creating>>
    BY <1>7 DEF JobMoves, OrderChanges
  <2> QED  BY <2>1, SameReport DEF Report, BatchReportsItems
<1> QED
  BY <1>1, <1>2, <1>3, <1>4, <1>5, <1>6, <1>7 DEF Next, Worker

\* The invariant behind the two theorems that follow.
LEMMA ReportInvariance == Spec => []Report
<1>1. Init => Report
  <2> SUFFICES ASSUME Init PROVE Report
    OBVIOUS
  <2>1. \A m \in Modes : batch[m] = NoBatch /\ creating[m] = {}
                         /\ \A o \in Orders : items[m][o] = "none"
    BY DEF Init
  <2>2. \A m \in Modes, s \in {"pending", "running", "succeeded", "failed"} : ItemsIn(m, s) = {}
    BY <2>1 DEF ItemsIn
  <2> QED  BY <2>1, <2>2, FS_EmptySet DEF NoBatch, Report, BatchReportsItems, ReportsItems
<1>2. Report /\ UNCHANGED vars => Report'
  <2> SUFFICES ASSUME Report, UNCHANGED vars PROVE Report'
    OBVIOUS
  <2>1. UNCHANGED <<batch, items, creating>>
    BY DEF vars
  <2> QED  BY <2>1, SameReport DEF Report, BatchReportsItems
<1> QED  BY <1>1, <1>2, ReportStep, TypeCorrect, PTL DEF Spec

\* The counters and the status of a batch are those of its items, whatever
\* restarts, crashes and expired ticks come between.
THEOREM BatchesReportItems == Spec => []BatchReportsItems
<1>1. Report => BatchReportsItems
  BY DEF Report
<1> QED  BY <1>1, ReportInvariance, PTL

\* A succeeded item stays succeeded as long as its batch runs: Finish takes only
\* unfinished items, Restart only running and failed ones, and a new batch never
\* replaces a running one.
THEOREM SucceededItemsStay == Spec => SucceededStays
<1> DEFINE Kept == \A m \in Modes : \A o \in ItemsIn(m, "succeeded") :
                       items'[m][o] = "succeeded" \/ batch[m].status # "running"
<1>1. TypeOK /\ Report /\ [Next]_vars => Kept
  <2> SUFFICES ASSUME TypeOK, Report, [Next]_vars,
                      NEW m \in Modes, NEW o \in Orders, items[m][o] = "succeeded",
                      batch[m].status = "running"
               PROVE  items'[m][o] = "succeeded"
    BY DEF ItemsIn
  <2>1. ASSUME NEW st \in {"succeeded", "failed"}, Finish(st) PROVE items'[m][o] = "succeeded"
    BY <2>1, FinishItems
  <2>2. CASE CountItem \/ SkipItem \/ StopItem
    BY <2>1, <2>2 DEF CountItem, SkipItem, StopItem
  <2>3. CASE MarkItem
    BY <2>3 DEF MarkItem, TypeOK
  <2>4. ASSUME NEW n \in Modes, InsertBatch(n) PROVE items'[m][o] = "succeeded"
    <3>1. n # m
      BY <2>4 DEF InsertBatch, Report
    <3> QED  BY <2>4, <3>1 DEF InsertBatch, TypeOK
  <2>5. ASSUME NEW n \in Modes, Restart(n) PROVE items'[m][o] = "succeeded"
    BY <2>5 DEF Restart, TakenBack, ItemsIn, TypeOK
  <2>6. CASE UNCHANGED items
    BY <2>6
  <2>7. CASE \/ LoadRunning \/ NothingLeft \/ LoadPending \/ PollJob \/ PollOrder
             \/ CheckOrder \/ RecheckOrder \/ InsertJob \/ Expire \/ Interrupt
             \/ (\E n \in Modes : SelectOrders(n))
             \/ (\E x \in Orders : JobMoves(x) \/ OrderChanges(x)) \/ UNCHANGED vars
    BY <2>6, <2>7 DEF LoadRunning, NothingLeft, LoadPending, PollJob, PollOrder, CheckOrder,
       RecheckOrder, InsertJob, Expire, Interrupt, SelectOrders, JobMoves, OrderChanges, vars
  <2> QED  BY <2>2, <2>3, <2>4, <2>5, <2>7 DEF Next, Worker
<1> QED  BY <1>1, ReportInvariance, TypeCorrect, PTL DEF SucceededStays, Spec

----------------------------------------------------------------------------
(* The concurrency limit.                                                  *)

\* A set of orders that is not empty has a greatest one: the one with the fewest
\* above it.
LEMMA GreatestExists ==
    ASSUME NEW S \in SUBSET Orders, S # {}
    PROVE  \E o \in S : \A x \in S : x <= o
<1> DEFINE Above(o) == {x \in S : x > o}
           Sizes == {Cardinality(Above(o)) : o \in S}
<1>1. \A o \in S : Above(o) \in SUBSET Orders /\ IsFiniteSet(Above(o))
                  /\ Cardinality(Above(o)) \in Nat
  <2> SUFFICES ASSUME NEW o \in S
               PROVE  Above(o) \in SUBSET Orders /\ IsFiniteSet(Above(o))
                      /\ Cardinality(Above(o)) \in Nat
    OBVIOUS
  <2>1. Above(o) \in SUBSET Orders
    OBVIOUS
  <2> QED  BY <2>1, OrderSets
<1>2. PICK o \in S : \A y \in S : Cardinality(Above(o)) <= Cardinality(Above(y))
  <2>1. Sizes \subseteq Nat /\ Sizes # {}
    BY <1>1
  <2>2. PICK n \in Sizes : \A k \in Sizes : n <= k
    <3> HIDE DEF Sizes
    <3> QED  BY <2>1, LeastExists
  <2> QED  BY <2>2
<1>3. ASSUME NEW y \in S, y > o PROVE FALSE
  <2>0. S \subseteq Nat
    BY BatchAssumption
  <2>1. Above(y) \subseteq Above(o) /\ y \in Above(o) /\ y \notin Above(y)
    <3>1. \A x \in S : x > y => x > o
      BY <1>3, <2>0
    <3>2. ~(y > y)
      BY <1>3, <2>0
    <3> QED  BY <1>3, <3>1, <3>2
  <2> HIDE DEF Above
  <2>2. /\ Cardinality(Above(y)) <= Cardinality(Above(o))
        /\ Cardinality(Above(o)) = Cardinality(Above(y)) => Above(o) = Above(y)
    BY <1>1, <2>1, FS_Subset
  <2> QED  BY <1>1, <1>2, <2>1, <2>2
<1> QED  BY <1>3, BatchAssumption

\* FirstOf(S, n) is LIMIT n: at most n orders of S, all of them if there are no
\* more.
LEMMA FirstOfBound ==
    ASSUME NEW S \in SUBSET Orders, NEW n \in Nat
    PROVE  /\ FirstOf(S, n) \subseteq S
           /\ Cardinality(FirstOf(S, n)) <= n
           /\ Cardinality(S) <= n => FirstOf(S, n) = S
<1> DEFINE T == FirstOf(S, n)
           Below(R, o) == {x \in R : x < o}
<1>1. T \subseteq S
  BY DEF FirstOf
<1>2. \A R \in SUBSET Orders : \A o : Below(R, o) \in SUBSET Orders
         /\ IsFiniteSet(Below(R, o)) /\ Cardinality(Below(R, o)) \in Nat
  <2> SUFFICES ASSUME NEW R \in SUBSET Orders, NEW o
               PROVE  Below(R, o) \in SUBSET Orders
                      /\ IsFiniteSet(Below(R, o)) /\ Cardinality(Below(R, o)) \in Nat
    OBVIOUS
  <2>1. Below(R, o) \in SUBSET Orders
    OBVIOUS
  <2> QED  BY <2>1, OrderSets
<1>3. Cardinality(T) <= n
  <2>0. T \in SUBSET Orders /\ IsFiniteSet(T) /\ Cardinality(T) \in Nat
    BY <1>1, OrderSets
  <2>1. CASE T = {}
    BY <2>1, FS_EmptySet
  <2>2. CASE T # {}
    <3>1. PICK o \in T : \A x \in T : x <= o
      <4> HIDE DEF T
      <4> QED  BY <2>0, <2>2, GreatestExists
    <3>2. Cardinality(Below(S, o)) < n
      BY <3>1 DEF FirstOf
    <3>3. T \ {o} \subseteq Below(S, o)
      <4>1. S \subseteq Nat
        BY BatchAssumption
      <4> HIDE DEF T
      <4>2. o \in Nat
        BY <1>1, <3>1, <4>1
      <4>3. \A x \in S : x <= o /\ x # o => x < o
        BY <4>1, <4>2
      <4> QED  BY <1>1, <3>1, <4>3
    <3>4. Cardinality(T \ {o}) = Cardinality(T) - 1
      <4> HIDE DEF T
      <4> QED  BY <2>0, <3>1, FS_RemoveElement
    <3>5. Cardinality(T \ {o}) <= Cardinality(Below(S, o))
      <4> HIDE DEF T, Below
      <4> QED  BY <1>2, <3>3, FS_Subset
    <3>6. Cardinality(Below(S, o)) \in Nat
      BY <1>2
    <3> HIDE DEF T, Below
    <3> QED  BY <2>0, <3>2, <3>4, <3>5, <3>6
  <2> QED  BY <2>1, <2>2
<1>4. ASSUME Cardinality(S) <= n, NEW o \in S PROVE o \in T
  <2>1. IsFiniteSet(S) /\ Cardinality(S) \in Nat
    BY OrderSets
  <2>2. Below(S, o) \subseteq S /\ o \notin Below(S, o)
    BY BatchAssumption
  <2>3. Cardinality(Below(S, o)) < Cardinality(S)
    <3> HIDE DEF Below
    <3>1. /\ Cardinality(Below(S, o)) <= Cardinality(S)
          /\ Cardinality(S) = Cardinality(Below(S, o)) => S = Below(S, o)
      BY <2>1, <2>2, FS_Subset
    <3> QED  BY <1>2, <2>1, <2>2, <3>1
  <2>4. Cardinality(Below(S, o)) < n
    <3> HIDE DEF Below
    <3> QED  BY <1>2, <1>4, <2>1, <2>3
  <2> QED  BY <2>4 DEF FirstOf
<1> QED  BY <1>1, <1>3, <1>4

LimitKept ==
    /\ RunningWithinLimit
    /\ pc = "load" => ItemsIn(mode, "running") \subseteq poll /\ Cardinality(poll) <= Limit
    /\ pc \notin {"idle", "reload", "load"} =>
           Cardinality(ItemsIn(mode, "running") \cup todo) <= Limit

\* A subset of a set of at most Limit orders has at most Limit.
LEMMA FewerOrders ==
    ASSUME NEW S \in SUBSET Orders, NEW T, T \subseteq S, Cardinality(S) <= Limit
    PROVE  Cardinality(T) <= Limit
<1>1. /\ IsFiniteSet(S) /\ Cardinality(S) \in Nat
      /\ Cardinality(T) \in Nat /\ Cardinality(T) <= Cardinality(S)
  BY OrderSets, FS_Subset
<1> QED  BY <1>1, BatchAssumption

\* A step that starts no item and leaves the worker with no more to start keeps
\* the limit.
LEMMA NoStartKeepsLimit ==
    ASSUME TypeOK, LimitKept,
           \A m \in Modes : ItemsIn(m, "running")' \subseteq ItemsIn(m, "running"),
           \/ pc' \in {"idle", "reload"}
           \/ pc' = "load" /\ pc = "load" /\ UNCHANGED <<mode, poll>>
           \/ /\ pc \notin {"idle", "reload", "load"} /\ pc' # "load"
              /\ mode' = mode /\ todo' \subseteq todo
    PROVE  LimitKept'
<1>1. RunningWithinLimit'
  <2> SUFFICES ASSUME NEW m \in Modes PROVE Cardinality(ItemsIn(m, "running")') <= Limit
    BY DEF RunningWithinLimit
  <2>1. ItemsIn(m, "running") \in SUBSET Orders /\ Cardinality(ItemsIn(m, "running")) <= Limit
    BY DEF ItemsIn, LimitKept, RunningWithinLimit
  <2> QED  BY <2>1, FewerOrders
<1>2. mode \in Modes /\ ItemsIn(mode, "running") \in SUBSET Orders /\ todo \in SUBSET Orders
  BY DEF TypeOK, ItemsIn
<1>3. PICK b \in Modes : b = mode
  BY <1>2
<1>4. CASE pc' \in {"idle", "reload"}
  BY <1>1, <1>4 DEF LimitKept
<1>5. CASE pc' = "load" /\ pc = "load" /\ UNCHANGED <<mode, poll>>
  <2>1. ItemsIn(b, "running")' \subseteq poll' /\ Cardinality(poll') <= Limit /\ b = mode'
    BY <1>3, <1>5 DEF LimitKept
  <2> QED  BY <1>1, <1>5, <2>1 DEF LimitKept, ItemsIn
<1>6. CASE /\ pc \notin {"idle", "reload", "load"} /\ pc' # "load"
           /\ mode' = mode /\ todo' \subseteq todo
  <2>1. ItemsIn(b, "running")' \cup todo' \subseteq ItemsIn(mode, "running") \cup todo
    BY <1>3, <1>6
  <2>2. Cardinality(ItemsIn(mode, "running") \cup todo) <= Limit
    BY <1>6 DEF LimitKept
  <2>3. Cardinality(ItemsIn(b, "running")' \cup todo') <= Limit
    BY <1>2, <2>1, <2>2, FewerOrders
  <2> QED  BY <1>1, <1>3, <1>6, <2>3 DEF LimitKept, ItemsIn
<1> QED  BY <1>4, <1>5, <1>6

\* No step starts more items than the limit leaves room for.
LEMMA LimitStep == TypeOK /\ InHand /\ LimitKept /\ Next => LimitKept'
<1> SUFFICES ASSUME TypeOK, InHand, LimitKept, Next PROVE LimitKept'
  OBVIOUS
<1>0. Limit \in Nat
  BY BatchAssumption
<1>1. ASSUME NEW st \in {"succeeded", "failed"}, Finish(st),
             pc \in {"count", "skip", "stop"}, pc' # "load",
             mode' = mode, todo' \subseteq todo
      PROVE  LimitKept'
  <2>1. \A m \in Modes : ItemsIn(m, "running")' \subseteq ItemsIn(m, "running")
    BY <1>1, FinishItems DEF ItemsIn
  <2> QED  BY <1>1, <2>1, NoStartKeepsLimit
<1>2. CASE CountItem \/ SkipItem \/ StopItem
  BY <1>1, <1>2 DEF CountItem, SkipItem, StopItem, NextPoll, NextPending
<1>3. CASE NothingLeft \/ PollJob \/ PollOrder \/ CheckOrder \/ RecheckOrder \/ InsertJob
           \/ Expire \/ Interrupt
  <2>1. UNCHANGED <<items, mode, todo>>
    BY <1>3 DEF NothingLeft, PollJob, PollOrder, CheckOrder, RecheckOrder, InsertJob, Expire, Interrupt
  <2>2. \A m \in Modes : ItemsIn(m, "running")' \subseteq ItemsIn(m, "running")
    BY <2>1 DEF ItemsIn
  <2>3. pc' = "idle" \/ (pc \notin {"idle", "reload", "load"} /\ pc' # "load")
    BY <1>3 DEF NothingLeft, PollJob, PollOrder, CheckOrder, RecheckOrder, InsertJob, Expire,
       Interrupt, NextPoll, JobVerdict
  <2> QED  BY <2>1, <2>2, <2>3, NoStartKeepsLimit
<1>4. CASE LoadRunning
  <2>1. PICK m \in Modes : mode' = m /\ poll' = FirstOf(ItemsIn(m, "running"), Limit)
    BY <1>4 DEF LoadRunning
  <2>2. UNCHANGED items /\ pc' = "load"
    BY <1>4 DEF LoadRunning
  <2>3. ItemsIn(m, "running") \in SUBSET Orders /\ Cardinality(ItemsIn(m, "running")) <= Limit
    BY DEF ItemsIn, LimitKept, RunningWithinLimit
  <2>4. poll' = ItemsIn(m, "running") /\ Cardinality(poll') <= Limit
    BY <1>0, <2>1, <2>3, FirstOfBound
  <2>5. RunningWithinLimit'
    BY <2>2 DEF LimitKept, RunningWithinLimit, ItemsIn
  <2> QED  BY <2>1, <2>2, <2>4, <2>5 DEF LimitKept, ItemsIn
<1>5. CASE LoadPending
  <2> DEFINE running == ItemsIn(mode, "running")
             pending == ItemsIn(mode, "pending")
  <2>1. /\ UNCHANGED <<items, mode>> /\ pc = "load" /\ pc' # "load"
        /\ todo' = FirstOf(pending, FreeSlots)
    BY <1>5 DEF LoadPending, NextPoll, NextPending
  <2>2. running \subseteq poll /\ Cardinality(poll) <= Limit /\ poll \in SUBSET Orders
    BY <2>1 DEF LimitKept, TypeOK
  <2>3. pending \in SUBSET Orders
    BY DEF ItemsIn
  <2> HIDE DEF running, pending
  <2>4. IsFiniteSet(poll) /\ Cardinality(poll) \in Nat
    BY <2>2, OrderSets
  <2>5. FreeSlots \in Nat /\ FreeSlots = Limit - Cardinality(poll)
    BY <1>0, <2>2, <2>4 DEF FreeSlots
  <2>6. todo' \in SUBSET Orders /\ Cardinality(todo') <= FreeSlots
    BY <2>1, <2>3, <2>5, FirstOfBound
  <2>7. IsFiniteSet(todo') /\ Cardinality(todo') \in Nat
    BY <2>6, OrderSets
  <2>8. Cardinality(poll \cup todo') <= Limit
    <3>1. Cardinality(poll \cup todo')
            = Cardinality(poll) + Cardinality(todo') - Cardinality(poll \cap todo')
      BY <2>4, <2>7, FS_Union
    <3>2. Cardinality(poll \cap todo') \in Nat
      BY <2>4, FS_Intersection, FS_CardinalityType
    <3> QED  BY <1>0, <2>4, <2>5, <2>6, <2>7, <3>1, <3>2
  <2>9. Cardinality(running \cup todo') <= Limit
    <3>1. running \cup todo' \subseteq poll \cup todo' /\ poll \cup todo' \in SUBSET Orders
      BY <2>2, <2>6
    <3> QED  BY <2>8, <3>1, FewerOrders
  <2>10. (ItemsIn(mode, "running") \cup todo)' = running \cup todo'
    BY <2>1 DEF running, ItemsIn
  <2>11. RunningWithinLimit'
    BY <2>1 DEF LimitKept, RunningWithinLimit, ItemsIn
  <2> QED  BY <2>1, <2>9, <2>10, <2>11 DEF LimitKept
<1>6. CASE MarkItem /\ items[mode][cur] = "pending"
  <2> DEFINE running == ItemsIn(mode, "running")
  <2>1. /\ items' = [items EXCEPT ![mode][cur] = "running"] /\ mode' = mode
        /\ todo' = todo \ {cur} /\ cur \in todo
        /\ pc \notin {"idle", "reload", "load"} /\ pc' \in {"idle", "pending"}
    BY <1>6 DEF MarkItem, InHand, NextPending
  <2>2. mode \in Modes /\ cur \in Orders
    BY <2>1 DEF TypeOK
  <2>3. running \cup todo \in SUBSET Orders /\ Cardinality(running \cup todo) <= Limit
    BY <2>1 DEF LimitKept, TypeOK, ItemsIn
  <2>4. ItemsIn(mode, "running")' = running \cup {cur}
    BY <2>1, <2>2 DEF TypeOK, ItemsIn
  <2>5. (ItemsIn(mode, "running") \cup todo)' = running \cup todo
    BY <2>1, <2>4
  <2>6. ASSUME NEW m \in Modes PROVE Cardinality(ItemsIn(m, "running")') <= Limit
    <3>1. CASE m = mode
      <4>1. ItemsIn(m, "running")' \subseteq running \cup todo
        BY <2>1, <2>2, <3>1 DEF TypeOK, ItemsIn
      <4> QED  BY <2>3, <4>1, FewerOrders
    <3>2. CASE m # mode
      <4>1. ItemsIn(m, "running")' = ItemsIn(m, "running")
        BY <2>1, <2>2, <3>2 DEF TypeOK, ItemsIn
      <4> QED  BY <4>1 DEF LimitKept, RunningWithinLimit
    <3> QED  BY <3>1, <3>2
  <2> HIDE DEF running
  <2> QED  BY <2>1, <2>3, <2>5, <2>6 DEF LimitKept, RunningWithinLimit
<1>7. CASE MarkItem /\ items[mode][cur] # "pending"
  <2>1. UNCHANGED <<items, mode, todo>> /\ pc = "mark" /\ pc' = "stop"
    BY <1>7 DEF MarkItem
  <2>2. \A m \in Modes : ItemsIn(m, "running")' \subseteq ItemsIn(m, "running")
    BY <2>1 DEF ItemsIn
  <2> QED  BY <2>1, <2>2, NoStartKeepsLimit
<1>8. ASSUME NEW m \in Modes, SelectOrders(m) \/ InsertBatch(m) \/ Restart(m) PROVE LimitKept'
  <2>1. \A n \in Modes, o \in Orders : items'[n][o] = "running" => items[n][o] = "running"
    <3>1. CASE SelectOrders(m)
      BY <3>1 DEF SelectOrders
    <3>2. CASE InsertBatch(m)
      BY <3>2 DEF InsertBatch, TypeOK
    <3>3. CASE Restart(m)
      BY <3>3 DEF Restart, TypeOK
    <3> QED  BY <1>8, <3>1, <3>2, <3>3
  <2>2. \A n \in Modes : ItemsIn(n, "running")' \subseteq ItemsIn(n, "running")
    BY <2>1 DEF ItemsIn
  <2>3. UNCHANGED <<pc, mode, poll, todo>>
    BY <1>8 DEF SelectOrders, InsertBatch, Restart
  <2> QED  BY <2>2, <2>3, NoStartKeepsLimit
<1>9. ASSUME NEW o \in Orders, JobMoves(o) \/ OrderChanges(o) PROVE LimitKept'
  <2>1. UNCHANGED <<items, pc, mode, poll, todo>>
    BY <1>9 DEF JobMoves, OrderChanges
  <2>2. \A n \in Modes : ItemsIn(n, "running")' \subseteq ItemsIn(n, "running")
    BY <2>1 DEF ItemsIn
  <2> QED  BY <2>1, <2>2, NoStartKeepsLimit
<1> QED
  BY <1>2, <1>3, <1>4, <1>5, <1>6, <1>7, <1>8, <1>9 DEF Next, Worker

\* The worker never has more than Limit items of a batch running, whatever
\* restarts and new batches come between its queries.
THEOREM BatchesKeepLimit == Spec => []RunningWithinLimit
<1>1. Init => LimitKept
  <2> SUFFICES ASSUME Init PROVE LimitKept
    OBVIOUS
  <2>1. \A m \in Modes : ItemsIn(m, "running") = {}
    BY DEF Init, ItemsIn
  <2> QED  BY <2>1, BatchAssumption, FS_EmptySet DEF Init, LimitKept, RunningWithinLimit
<1>2. TypeOK /\ LimitKept /\ UNCHANGED vars => LimitKept'
  <2> SUFFICES ASSUME TypeOK, LimitKept, UNCHANGED vars PROVE LimitKept'
    OBVIOUS
  <2>1. UNCHANGED <<items, pc, mode, poll, todo>>
    BY DEF vars
  <2>2. \A n \in Modes : ItemsIn(n, "running")' \subseteq ItemsIn(n, "running")
    BY <2>1 DEF ItemsIn
  <2> QED  BY <2>1, <2>2, NoStartKeepsLimit
<1>3. LimitKept => RunningWithinLimit
  BY DEF LimitKept
<1> QED  BY <1>1, <1>2, <1>3, LimitStep, TypeCorrect, PTL DEF Spec
============================================================================
