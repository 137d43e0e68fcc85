-------------------------- MODULE OrderSyncProofs --------------------------
(***************************************************************************)
(* What holds of OrderSync for every set of orders and handlers, every     *)
(* answer of XLWMS, every size of a page and every bound.                  *)
(***************************************************************************)
EXTENDS OrderSync, FiniteSetTheorems, TLAPS

USE DEF remote, ledger, SyncUnchanged, HandlerUnchanged

(***************************************************************************)
(* The statements that write a review.                                     *)
(***************************************************************************)

\* A review whose outcome is recorded is completed and no longer active: a
\* statement that only looks at active reviews leaves it alone.
Sound(r) ==
    \/ r = NoReview
    \/ /\ r \in Review
       /\ r.outcome => r.status = "resolved" /\ ~r.active

Several(r) ==
    /\ r # NoReview
    /\ \/ Completed(r)
       \/ r.active /\ "multi_item" \in r.reasons

\* An order with several items is found, and what is found are reasons.
LEMMA FoundReasons ==
    /\ \A lines, merged : classifyOrder(lines, merged) \subseteq Reasons
    /\ \A lines, merged : lines.multi => "multi_item" \in classifyOrder(lines, merged)
    /\ \A d, q : Categories(d, q) \subseteq Reasons
BY DEF classifyOrder, Categories, Reasons, Found, Blocking, Recheckable

\* A review that is reopened is active and keeps what blocks it.
LEMMA ReopenedReview ==
    ASSUME NEW r \in Review, NEW reasons \in SUBSET Reasons, NEW hard \in BOOLEAN,
           Sound(r), ~Completed(r)
    PROVE  LET s == Reopened(r, reasons, hard)
           IN  /\ Sound(s)
               /\ AddressBlocked(r) => AddressBlocked(s)
               /\ "multi_item" \in reasons => Several(s)
<1> DEFINE s == Reopened(r, reasons, hard)
<1>1. /\ s \in Review /\ s.active /\ s.reasons = reasons \cup Kept(r)
      /\ s.outcome = r.outcome
  BY DEF Reopened, Review, Kept
<1>2. r # NoReview /\ s # NoReview
  BY <1>1, SyncAssumption
<1>3. ~r.outcome
  BY <1>2 DEF Sound, Completed
<1>4. AddressBlocked(r) => Address \in Kept(r)
  BY DEF AddressBlocked, Kept, Dynamic
<1> HIDE DEF s
<1>5. Sound(s)
  BY <1>1, <1>3 DEF Sound
<1>6. AddressBlocked(r) => AddressBlocked(s)
  BY <1>1, <1>2, <1>4 DEF AddressBlocked
<1>7. "multi_item" \in reasons => Several(s)
  BY <1>1, <1>2 DEF Several
<1> QED  BY <1>5, <1>6, <1>7 DEF s

\* A review that is new has just the reasons it was made for.
LEMMA DetectedReview ==
    ASSUME NEW reasons \in SUBSET Reasons
    PROVE  /\ Sound(Detected(reasons))
           /\ "multi_item" \in reasons => Several(Detected(reasons))
<1>1. Detected(reasons) \in Review
  BY DEF Detected, Review
<1>2. Detected(reasons) # NoReview
  BY <1>1, SyncAssumption
<1> QED  BY <1>1, <1>2 DEF Sound, Several, Detected

\* UpsertManualReview.
LEMMA UpsertReview ==
    ASSUME NEW r, Sound(r), NEW reasons \in SUBSET Reasons
    PROVE  LET s == UpsertManualReview(r, reasons)
           IN  /\ Sound(s)
               /\ Completed(r) => Completed(s)
               /\ AddressBlocked(r) => AddressBlocked(s)
               /\ "multi_item" \in reasons => Several(s)
<1>1. CASE reasons = {}
  BY <1>1 DEF UpsertManualReview
<1>2. CASE reasons # {} /\ r = NoReview
  BY <1>2, DetectedReview DEF UpsertManualReview, Completed, AddressBlocked
<1>3. CASE reasons # {} /\ Completed(r)
  <2>1. UpsertManualReview(r, reasons) = r
    BY <1>3 DEF UpsertManualReview, Completed
  <2>2. Several(r)
    BY <1>3 DEF Several, Completed
  <2> QED  BY <1>3, <2>1, <2>2
<1>4. CASE reasons # {} /\ r # NoReview /\ ~Completed(r)
  <2>1. r \in Review  BY <1>4 DEF Sound
  <2>2. (Hard(reasons) \/ Hard(Kept(r))) \in BOOLEAN  BY DEF Hard
  <2> QED  BY <1>4, <2>1, <2>2, ReopenedReview DEF UpsertManualReview
<1> QED  BY <1>1, <1>2, <1>3, <1>4

\* The part of ReplaceOpenOrders about an order that was read.
LEMMA ReplaceReviewed ==
    ASSUME NEW r, Sound(r), NEW reasons \in SUBSET Reasons
    PROVE  LET s == ReplaceReview(r, reasons)
           IN  /\ Sound(s)
               /\ Completed(r) => Completed(s)
               /\ AddressBlocked(r) => AddressBlocked(s)
               /\ "multi_item" \in reasons => Several(s)
<1>1. CASE r = NoReview
  BY <1>1, DetectedReview DEF ReplaceReview, Sound, Completed, AddressBlocked
<1>2. CASE r # NoReview /\ reasons # {} /\ Completed(r)
  <2>1. ReplaceReview(r, reasons) = r
    BY <1>2 DEF ReplaceReview, Completed
  <2>2. Several(r)
    BY <1>2 DEF Several, Completed
  <2> QED  BY <1>2, <2>1, <2>2
<1>3. CASE r # NoReview /\ reasons # {} /\ ~Completed(r)
  <2>1. r \in Review  BY <1>3 DEF Sound
  <2>2. (Hard(reasons) \/ Hard(r.reasons)) \in BOOLEAN  BY DEF Hard
  <2> QED  BY <1>3, <2>1, <2>2, ReopenedReview DEF ReplaceReview
<1>4. CASE r # NoReview /\ reasons = {} /\ ~r.active
  BY <1>4 DEF ReplaceReview
<1>5. CASE r # NoReview /\ reasons = {} /\ r.active
  <2>1. r \in Review /\ ~r.outcome /\ ~Completed(r)
    BY <1>5 DEF Sound, Completed
  <2> DEFINE s == ReplaceReview(r, reasons)
  <2>2. /\ s \in Review /\ s.outcome = r.outcome /\ s.reasons = r.reasons
        /\ s.active = Hard(r.reasons)
    BY <1>5, <2>1 DEF ReplaceReview, Review, Hard
  <2>3. AddressBlocked(r) => Hard(r.reasons)
    BY DEF AddressBlocked, Hard, Dynamic
  <2> HIDE DEF s
  <2>4. s # NoReview  BY <2>2, SyncAssumption
  <2>5. Sound(s) /\ (AddressBlocked(r) => AddressBlocked(s))
    BY <2>1, <2>2, <2>3, <2>4 DEF Sound, AddressBlocked
  <2> QED  BY <1>5, <2>1, <2>5 DEF s
<1> QED  BY <1>1, <1>2, <1>3, <1>4, <1>5

\* The part of ReplaceOpenOrders about an order that was not.
LEMMA CloseReviewed ==
    ASSUME NEW r, Sound(r)
    PROVE  /\ Sound(CloseReview(r))
           /\ Completed(r) => Completed(CloseReview(r))
BY SyncAssumption DEF Sound, CloseReview, Completed, Review

\* ClearManualReviewReason.
LEMMA ClearReview ==
    ASSUME NEW r, Sound(r), NEW reason \in Recheckable
    PROVE  LET s == ClearManualReviewReason(r, reason)
           IN  /\ Sound(s)
               /\ Completed(r) => Completed(s)
               /\ AddressBlocked(r) => AddressBlocked(s)
               /\ Several(r) => Several(s)
<1> DEFINE s == ClearManualReviewReason(r, reason)
<1>1. CASE r = NoReview \/ Completed(r) \/ reason \notin r.reasons
  BY <1>1 DEF ClearManualReviewReason
<1>2. CASE r # NoReview /\ ~Completed(r) /\ reason \in r.reasons
  <2>1. r \in Review /\ ~r.outcome
    BY <1>2 DEF Sound, Completed
  <2>2. /\ s \in Review /\ s.outcome = r.outcome /\ s.reasons = r.reasons \ {reason}
        /\ s.active = (r.reasons \ {reason} # {})
    BY <1>2, <2>1 DEF ClearManualReviewReason, Review
  <2>3. reason # Address /\ reason # "multi_item"
    BY DEF Recheckable, Address
  <2> HIDE DEF s
  <2>4. s # NoReview  BY <2>2, SyncAssumption
  <2>5. Sound(s) /\ (AddressBlocked(r) => AddressBlocked(s)) /\ (Several(r) => Several(s))
    BY <1>2, <2>1, <2>2, <2>3, <2>4 DEF Sound, AddressBlocked, Several
  <2> QED  BY <1>2, <2>5 DEF s
<1> QED  BY <1>1, <1>2

\* UpdateManualReview: no transition takes a completed review.
LEMMA UpdateReview ==
    ASSUME NEW r, Sound(r), NEW status \in {"approved", "resolved", "manual_pending"},
           Updatable(r, status)
    PROVE  LET s == UpdateManualReview(r, status)
           IN  /\ Sound(s)
               /\ ~Completed(r)
               /\ AddressBlocked(r) => AddressBlocked(s) \/ Completed(s)
               /\ Several(r) => Several(s)
BY SyncAssumption DEF Sound, UpdateManualReview, Updatable, Completed, AddressBlocked,
   Several, Review

(***************************************************************************)
(* Types.                                                                  *)
(***************************************************************************)

\* Temu's list stays a list of orders when one of them moves.
LEMMA ListType ==
    ASSUME NEW s \in Seq(Orders), NEW i \in DOMAIN s
    PROVE  Without(s, i) \in Seq(Orders) /\ s[i] \in Orders
<1>1. i \in Nat \ {0} /\ i <= Len(s) /\ s[i] \in Orders
  OBVIOUS
<1>2. SubSeq(s, 1, i - 1) \in Seq(Orders)
  BY <1>1
<1>3. SubSeq(s, i + 1, Len(s)) \in Seq(Orders)
  BY <1>1
<1> QED  BY <1>1, <1>2, <1>3 DEF Without

\* So does it when an order goes to one of its ends.
LEMMA EndsType ==
    ASSUME NEW s \in Seq(Orders), NEW o \in Orders, NEW e \in Ends(s, o)
    PROVE  e \in Seq(Orders)
<1>1. Append(s, o) \in Seq(Orders)
  OBVIOUS
<1>2. <<o>> \o s \in Seq(Orders)
  <2>1. <<o>> \in Seq(Orders)
    OBVIOUS
  <2> QED  BY <2>1
<1>3. e = Append(s, o) \/ e = <<o>> \o s
  BY DEF Ends
<1> QED  BY <1>1, <1>2, <1>3

\* An empty ledger, whatever Temu lists.
LEMMA InitType == Init => TypeOK
<1> SUFFICES ASSUME Init PROVE TypeOK
  OBVIOUS
<1>1. RemoteTypes
  <2>1. listed \in Seq(Orders)
    <3>1. Cardinality(Orders) \in Nat
      BY SyncAssumption, FS_CardinalityType
    <3> QED  BY <3>1 DEF Init
  <2>2. content \in [Orders -> Content]
    BY SyncAssumption DEF Init, Content, Lines, Versions
  <2> QED  BY <2>1, <2>2, SyncAssumption DEF Init, RemoteTypes
<1>2. LedgerTypes
  BY DEF Init, LedgerTypes
<1>3. SyncTypes
  <2>1. << >> \in [{} -> Content]
    OBVIOUS
  <2>2. sync \in [at : {"idle", "page", "replace"}, page : Nat \ {0}, count : Nat,
                  first : [{} -> Content], last : [{} -> Content]]
    BY <2>1 DEF Init, NoSync
  <2> QED  BY <2>2 DEF SyncTypes
<1>4. TaskTypes
  BY DEF Init, TaskTypes
<1> QED  BY <1>1, <1>2, <1>3, <1>4 DEF TypeOK

\* Temu and XLWMS change nothing but their own state.
LEMMA ChangeType == TypeOK /\ Change => TypeOK'
<1> SUFFICES ASSUME TypeOK, Change PROVE TypeOK'
  OBVIOUS
<1>1. changes' \in 0 .. MaxChanges /\ requests' = requests /\ faults' = faults
  BY SyncAssumption DEF Change, TypeOK, RemoteTypes
<1>2. listed' \in Seq(Orders)
  <2>1. CASE \E i \in DOMAIN listed : listed' = Without(listed, i)
    BY <2>1, ListType DEF TypeOK, RemoteTypes
  <2>2. CASE \E o \in Orders : listed' \in Ends(listed, o)
    BY <2>2, EndsType DEF TypeOK, RemoteTypes
  <2>3. CASE \E i \in DOMAIN listed : listed' \in Ends(Without(listed, i), listed[i])
    <3>1. PICK i \in DOMAIN listed : listed' \in Ends(Without(listed, i), listed[i])
      BY <2>3
    <3>2. Without(listed, i) \in Seq(Orders) /\ listed[i] \in Orders
      BY ListType DEF TypeOK, RemoteTypes
    <3> QED  BY <3>1, <3>2, EndsType
  <2>4. CASE listed' = listed
    BY <2>4 DEF TypeOK, RemoteTypes
  <2> QED  BY <2>1, <2>2, <2>3, <2>4 DEF Change
<1>3. content' \in [Orders -> Content]
  <2>1. CASE content' = content
    BY <2>1 DEF TypeOK, RemoteTypes
  <2>2. CASE \E i \in DOMAIN listed, c \in Contents :
                content' = [content EXCEPT ![listed[i]] =
                      [lines |-> [unbound |-> c.unbound, multi |-> c.multi,
                                  version |-> changes + 1],
                       merged |-> c.merged]]
    <3>1. changes + 1 \in Versions
      BY SyncAssumption DEF Change, TypeOK, RemoteTypes, Versions
    <3> QED  BY <2>2, <3>1, SyncAssumption DEF TypeOK, RemoteTypes, Content, Lines
  <2> QED  BY <2>1, <2>2 DEF Change
<1>4. UNCHANGED <<ledger, sync, task, dropped>>
  BY DEF Change
<1>5. LedgerTypes' /\ SyncTypes' /\ TaskTypes'
  BY <1>4 DEF TypeOK, LedgerTypes, SyncTypes, TaskTypes
<1> QED  BY <1>1, <1>2, <1>3, <1>5 DEF TypeOK, RemoteTypes

\* The orders of a page are orders.
LEMMA PageType ==
    ASSUME listed \in Seq(Orders), NEW n \in Nat \ {0}
    PROVE  Page(n) \in Seq(Orders) /\ ElementsOf(Page(n)) \subseteq Orders
<1> DEFINE end == IF n * PageSize < Len(listed) THEN n * PageSize ELSE Len(listed)
<1>1. PageSize \in Nat \ {0}
  BY SyncAssumption
<1>2. n * PageSize \in Nat /\ (n - 1) * PageSize \in Nat
  BY <1>1
<1>3. end \in Nat /\ end <= Len(listed)
  BY <1>2
<1> DEFINE start == (n - 1) * PageSize + 1
<1>4. start \in Nat /\ start >= 1
  BY <1>2
<1>5. Page(n) = SubSeq(listed, start, end)
  BY DEF Page
<1> HIDE DEF start, end
<1>6. Page(n) \in Seq(Orders)
  BY <1>3, <1>4, <1>5
<1> QED  BY <1>6 DEF ElementsOf

\* A page adds orders, as Temu has them, to what was read.
LEMMA OrderPageType == TypeOK /\ OrderPage => TypeOK'
<1> SUFFICES ASSUME TypeOK, OrderPage PROVE TypeOK'
  OBVIOUS
<1>1. PICK old \in SUBSET Orders :
        sync \in [at : {"idle", "page", "replace"}, page : Nat \ {0}, count : Nat,
                 first : [old -> Content], last : [old -> Content]]
  BY DEF TypeOK, SyncTypes
<1> DEFINE page == Page(sync.page)
           read == ElementsOf(page)
           count == sync.count + Len(page)
           ended == Len(page) < PageSize \/ count >= Len(listed)
           first == [o \in DOMAIN sync.first \cup read |->
                        IF o \in DOMAIN sync.first THEN sync.first[o] ELSE content[o]]
           last == [o \in DOMAIN sync.first \cup read |->
                        IF o \in read THEN content[o] ELSE sync.last[o]]
<1>2. page \in Seq(Orders) /\ read \subseteq Orders
  BY <1>1, PageType DEF TypeOK, RemoteTypes
<1>3. sync' = [at |-> IF ended THEN "replace" ELSE "page",
               page |-> IF ended THEN 1 ELSE sync.page + 1,
               count |-> IF ended THEN 0 ELSE count, first |-> first, last |-> last]
  BY DEF OrderPage
<1>4. count \in Nat /\ sync.page + 1 \in Nat \ {0}
  BY <1>1, <1>2
<1>5. content \in [Orders -> Content]
  BY DEF TypeOK, RemoteTypes
<1> HIDE DEF page, read
<1>6. first \in [old \cup read -> Content] /\ last \in [old \cup read -> Content]
  BY <1>1, <1>2, <1>5
<1> HIDE DEF count, ended, first, last
<1>7. sync' \in [at : {"idle", "page", "replace"}, page : Nat \ {0}, count : Nat,
                first : [old \cup read -> Content], last : [old \cup read -> Content]]
  BY <1>3, <1>4, <1>6
<1>8. SyncTypes'
  <2>1. old \cup read \in SUBSET Orders
    BY <1>1, <1>2
  <2> QED  BY <1>7, <2>1 DEF SyncTypes
<1>9. RemoteTypes' /\ LedgerTypes' /\ TaskTypes'
  BY DEF OrderPage, TypeOK, RemoteTypes, LedgerTypes, TaskTypes
<1> QED  BY <1>8, <1>9 DEF TypeOK

(***************************************************************************)
(* The strengthening: reviews are sound, and an order that is not in the   *)
(* ledger has none.                                                        *)
(***************************************************************************)

Inv ==
    /\ TypeOK
    /\ \A o \in Orders : Sound(review[o])
    /\ \A o \in Orders : row[o] = NoRow => review[o] = NoReview

\* What one synchronisation makes of the review of one order.
LEMMA ReplacedReview ==
    ASSUME Inv, NEW o \in Orders
    PROVE  /\ Sound(Replaced(o))
           /\ Completed(review[o]) => Completed(Replaced(o))
           /\ o \in DOMAIN sync.first =>
                /\ AddressBlocked(review[o]) => AddressBlocked(Replaced(o))
                /\ sync.last[o].lines.multi => Several(Replaced(o))
           /\ o \notin DOMAIN sync.first /\ row[o] = NoRow => Replaced(o) = NoReview
<1>1. Sound(review[o]) /\ (row[o] = NoRow => review[o] = NoReview)
  BY DEF Inv
<1>2. CASE o \notin DOMAIN sync.first
  BY <1>1, <1>2, CloseReviewed DEF Replaced, CloseReview
<1>3. CASE o \in DOMAIN sync.first
  <2> DEFINE a == classifyOrder(sync.first[o].lines, sync.first[o].merged)
             b == classifyOrder(sync.last[o].lines, sync.last[o].merged)
             s == ReplaceReview(review[o], a)
  <2>1. a \in SUBSET Reasons /\ b \in SUBSET Reasons
        /\ (sync.last[o].lines.multi => "multi_item" \in b)
    BY FoundReasons
  <2>2. Replaced(o) = ReplaceReview(s, b)
    BY <1>3 DEF Replaced
  <2> HIDE DEF a, b
  <2>3. Sound(s) /\ (Completed(review[o]) => Completed(s))
        /\ (AddressBlocked(review[o]) => AddressBlocked(s))
    BY <1>1, <2>1, ReplaceReviewed
  <2> HIDE DEF s
  <2>4. Sound(ReplaceReview(s, b)) /\ (Completed(s) => Completed(ReplaceReview(s, b)))
        /\ (AddressBlocked(s) => AddressBlocked(ReplaceReview(s, b)))
        /\ ("multi_item" \in b => Several(ReplaceReview(s, b)))
    BY <2>1, <2>3, ReplaceReviewed
  <2> QED  BY <1>3, <2>1, <2>2, <2>3, <2>4
<1> QED  BY <1>2, <1>3

(***************************************************************************)
(* Every step keeps the invariant.                                         *)
(***************************************************************************)

\* What a handler carries while it works.
LEMMA TaskFields ==
    ASSUME Inv, NEW p \in Handlers, task[p] # Idle
    PROVE  /\ task[p] \in Task /\ task[p].order \in Orders
           /\ row[task[p].order] # NoRow /\ row[task[p].order] \in Row
           /\ review[task[p].order] \in Review \cup {NoReview}
           /\ Sound(review[task[p].order])
           /\ task[p].lines \in Lines /\ task[p].verdict \in SUBSET Reasons
           /\ task[p].todo \in Seq(Recheckable)
BY DEF Inv, TypeOK, LedgerTypes, TaskTypes, Task

\* A step that writes no review.
LEMMA ReviewsStay ==
    ASSUME Inv, row' = row, review' = review, TypeOK'
    PROVE  Inv'
BY DEF Inv

\* A statement of a handler on the review of the order it works on.
LEMMA ReviewWritten ==
    ASSUME Inv, NEW o \in Orders, row[o] # NoRow, NEW s, Sound(s),
           review' = [review EXCEPT ![o] = s], row' = row
    PROVE  /\ review' \in [Orders -> Review \cup {NoReview}]
           /\ \A x \in Orders : Sound(review'[x])
           /\ \A x \in Orders : row'[x] = NoRow => review'[x] = NoReview
<1>1. s \in Review \cup {NoReview}
  BY DEF Sound
<1>2. review \in [Orders -> Review \cup {NoReview}]
  BY DEF Inv, TypeOK, LedgerTypes
<1>3. \A x \in Orders : review'[x] = IF x = o THEN s ELSE review[x]
  BY <1>2
<1> QED  BY <1>1, <1>2, <1>3 DEF Inv

\* The transaction of a synchronisation.
LEMMA ReplaceInv == Inv /\ ReplaceOpenOrders => Inv'
<1> SUFFICES ASSUME Inv, ReplaceOpenOrders PROVE Inv'
  OBVIOUS
<1>1. PICK read \in SUBSET Orders :
        sync \in [at : {"idle", "page", "replace"}, page : Nat \ {0}, count : Nat,
                 first : [read -> Content], last : [read -> Content]]
  BY DEF Inv, TypeOK, SyncTypes
<1>2. \A o \in Orders :
        /\ row'[o] \in Row \cup {NoRow}
        /\ row[o] # NoRow => row'[o] # NoRow
        /\ row'[o] = NoRow => o \notin DOMAIN sync.first /\ row[o] = NoRow
  <2> TAKE o \in Orders
  <2>1. row[o] \in Row \cup {NoRow}
    BY DEF Inv, TypeOK, LedgerTypes
  <2>2. CASE o \in DOMAIN sync.first
    <3>1. sync.last[o].lines \in Lines
      BY <1>1, <2>2 DEF Content
    <3>2. row'[o] = [open |-> TRUE, lines |-> sync.last[o].lines]
      BY <2>2 DEF ReplaceOpenOrders
    <3>3. row'[o] \in Row
      BY <3>1, <3>2 DEF Row
    <3> QED  BY <2>2, <3>3, RowAssumption
  <2>3. CASE o \notin DOMAIN sync.first /\ row[o] = NoRow
    BY <2>3 DEF ReplaceOpenOrders
  <2>4. CASE o \notin DOMAIN sync.first /\ row[o] # NoRow
    <3>1. row'[o] = [row[o] EXCEPT !.open = FALSE]
      BY <2>4 DEF ReplaceOpenOrders
    <3>2. row'[o] \in Row
      BY <2>1, <2>4, <3>1 DEF Row
    <3> QED  BY <2>4, <3>2, RowAssumption
  <2> QED  BY <2>2, <2>3, <2>4
<1>3. \A o \in Orders : review'[o] = Replaced(o)
  BY DEF ReplaceOpenOrders
<1>4. \A o \in Orders : Sound(review'[o]) /\ (row'[o] = NoRow => review'[o] = NoReview)
  BY <1>2, <1>3, ReplacedReview
<1>5. row' \in [Orders -> Row \cup {NoRow}] /\ review' \in [Orders -> Review \cup {NoReview}]
  <2>1. row' = [o \in Orders |-> row'[o]] /\ review' = [o \in Orders |-> review'[o]]
    BY DEF ReplaceOpenOrders
  <2>2. \A o \in Orders : review'[o] \in Review \cup {NoReview}
    BY <1>4 DEF Sound
  <2> QED  BY <1>2, <2>1, <2>2
<1>6. LedgerTypes'
  BY <1>5 DEF ReplaceOpenOrders, Inv, TypeOK, LedgerTypes
<1>7. RemoteTypes'
  BY DEF ReplaceOpenOrders, Inv, TypeOK, RemoteTypes
<1>8. SyncTypes'
  <2>1. << >> \in [{} -> Content]
    OBVIOUS
  <2>2. sync' \in [at : {"idle", "page", "replace"}, page : Nat \ {0}, count : Nat,
                  first : [{} -> Content], last : [{} -> Content]]
    BY <2>1 DEF ReplaceOpenOrders, NoSync
  <2> QED  BY <2>2 DEF SyncTypes
<1>9. TaskTypes'
  <2>1. task' = task
    BY DEF ReplaceOpenOrders
  <2>2. \A p \in Handlers : task[p] # Idle => task[p].order \in Orders
    BY TaskFields
  <2> QED  BY <1>2, <2>1, <2>2 DEF Inv, TypeOK, TaskTypes
<1> QED  BY <1>4, <1>6, <1>7, <1>8, <1>9 DEF Inv, TypeOK

\* A handler goes on to another record of its task, on the same order.
LEMMA TaskWritten ==
    ASSUME Inv, NEW p \in Handlers, row' = row, NEW u \in Task \cup {Idle},
           u # Idle => row[u.order] # NoRow /\ (u.at = "clear" => u.todo # << >>),
           task' = [task EXCEPT ![p] = u]
    PROVE  TaskTypes'
<1>1. task \in [Handlers -> Task \cup {Idle}]
  BY DEF Inv, TypeOK, TaskTypes
<1>2. \A q \in Handlers : task'[q] = IF q = p THEN u ELSE task[q]
  BY <1>1
<1>3. task' \in [Handlers -> Task \cup {Idle}]
  BY <1>1
<1> QED  BY <1>2, <1>3 DEF Inv, TypeOK, TaskTypes

\* It ends.
LEMMA EndType ==
    ASSUME Inv, NEW p \in Handlers, row' = row, End(p)
    PROVE  TaskTypes'
BY TaskWritten DEF End

\* It goes on to another step.
LEMMA GotoType ==
    ASSUME Inv, NEW p \in Handlers, row' = row, task[p] # Idle,
           NEW step \in Steps \ {"clear"}, Goto(p, step)
    PROVE  TaskTypes'
<1> DEFINE u == [task[p] EXCEPT !.at = step]
<1>1. u \in Task /\ u.at = step /\ u.order = task[p].order
  BY TaskFields DEF Task
<1>2. task' = [task EXCEPT ![p] = u]
  BY DEF Goto
<1> HIDE DEF u
<1>3. u # Idle => row[u.order] # NoRow /\ (u.at = "clear" => u.todo # << >>)
  BY <1>1, TaskFields
<1> QED  BY <1>1, <1>2, <1>3, TaskWritten

\* Upsert keeps the invariant; like Clear and Update it writes one review.
LEMMA UpsertInv == ASSUME NEW p \in Handlers, Inv, Upsert(p) PROVE Inv'
<1> DEFINE t == task[p]
           s == UpsertManualReview(review[t.order], Written(t))
<1>1. t # Idle
  BY DEF Upsert, At
<1>2. Written(t) \in SUBSET Reasons
  BY <1>1, FoundReasons, TaskFields DEF Written
<1>3. Sound(s)
  BY <1>1, <1>2, TaskFields, UpsertReview
<1>4. review' = [review EXCEPT ![t.order] = s] /\ row' = row
  BY DEF Upsert
<1>5. TaskTypes'
  <2>1. End(p) \/ Goto(p, "check") \/ Goto(p, "update")
    BY DEF Upsert
  <2>2. {"check", "update"} \subseteq Steps \ {"clear"}
    BY DEF Steps
  <2> QED  BY <1>1, <1>4, <2>1, <2>2, EndType, GotoType
<1> HIDE DEF s
<1>6. /\ review' \in [Orders -> Review \cup {NoReview}]
      /\ \A x \in Orders : Sound(review'[x])
      /\ \A x \in Orders : row'[x] = NoRow => review'[x] = NoReview
  BY <1>1, <1>3, <1>4, TaskFields, ReviewWritten
<1>7. LedgerTypes'
  BY <1>1, <1>6, TaskFields DEF Upsert, Inv, TypeOK, LedgerTypes
<1>8. RemoteTypes' /\ SyncTypes'
  BY DEF Upsert, Inv, TypeOK, RemoteTypes, SyncTypes
<1> QED  BY <1>5, <1>6, <1>7, <1>8 DEF Inv, TypeOK

\* The next reason an eligible classification clears.
LEMMA ClearStep ==
    ASSUME NEW p \in Handlers, Inv, Clear(p)
    PROVE  /\ task[p] # Idle /\ Head(task[p].todo) \in Recheckable
           /\ Tail(task[p].todo) \in Seq(Recheckable)
           /\ Len(task[p].todo) # 1 => Tail(task[p].todo) # << >>
<1> DEFINE todo == task[p].todo
<1>1. task[p] # Idle /\ task[p].at = "clear"
  BY DEF Clear, At
<1>2. todo \in Seq(Recheckable) /\ todo # << >>
  BY <1>1, TaskFields DEF Inv, TypeOK, TaskTypes
<1> HIDE DEF todo
<1>3. Head(todo) \in Recheckable /\ Tail(todo) \in Seq(Recheckable)
      /\ (Len(todo) # 1 => Tail(todo) # << >>)
  <2>1. Len(todo) \in Nat \ {0}
    BY <1>2
  <2>2. Head(todo) \in Recheckable
    BY <1>2, <2>1
  <2>3. Tail(todo) \in Seq(Recheckable)
    BY <1>2, <2>1
  <2>4. Len(Tail(todo)) = Len(todo) - 1
    BY <1>2, <2>1
  <2>5. ASSUME Tail(todo) = << >> PROVE Len(todo) = 1
    BY <2>1, <2>4, <2>5
  <2> QED  BY <2>2, <2>3, <2>5
<1> QED  BY <1>1, <1>3 DEF todo

\* Clear keeps the invariant.
LEMMA ClearInv == ASSUME NEW p \in Handlers, Inv, Clear(p) PROVE Inv'
<1> DEFINE t == task[p]
           s == ClearManualReviewReason(review[t.order], Head(t.todo))
           u == [t EXCEPT !.todo = Tail(t.todo)]
<1>1. t # Idle
  BY ClearStep
<1>2. Sound(s)
  BY <1>1, ClearStep, TaskFields, ClearReview
<1>3. review' = [review EXCEPT ![t.order] = s] /\ row' = row
  BY DEF Clear
<1>4. TaskTypes'
  <2>1. End(p) \/ (task' = [task EXCEPT ![p] = u] /\ Len(t.todo) # 1)
    BY DEF Clear
  <2>2. u \in Task /\ u.order = t.order /\ u.todo = Tail(t.todo)
    BY <1>1, TaskFields, ClearStep DEF Task
  <2> HIDE DEF u
  <2>3. Len(t.todo) # 1 => u.todo # << >>
    BY <2>2, ClearStep
  <2>4. row[u.order] # NoRow
    BY <1>1, <2>2, TaskFields
  <2> QED  BY <1>3, <2>1, <2>2, <2>3, <2>4, EndType, TaskWritten
<1> HIDE DEF s
<1>5. /\ review' \in [Orders -> Review \cup {NoReview}]
      /\ \A x \in Orders : Sound(review'[x])
      /\ \A x \in Orders : row'[x] = NoRow => review'[x] = NoReview
  BY <1>1, <1>2, <1>3, TaskFields, ReviewWritten
<1>6. LedgerTypes' /\ RemoteTypes' /\ SyncTypes'
  BY <1>5 DEF Clear, Inv, TypeOK, LedgerTypes, RemoteTypes, SyncTypes
<1> QED  BY <1>4, <1>5, <1>6 DEF Inv, TypeOK

\* Update keeps the invariant.
LEMMA UpdateInv == ASSUME NEW p \in Handlers, Inv, Update(p) PROVE Inv'
<1> DEFINE t == task[p]
           s == UpdateManualReview(review[t.order], Target(t))
<1>1. t # Idle /\ row' = row /\ End(p)
  BY DEF Update, At
<1>2. Target(t) \in {"approved", "resolved", "manual_pending"}
  BY DEF Target
<1>3. Updatable(review[t.order], Target(t)) => Sound(s)
  BY <1>1, <1>2, TaskFields, UpdateReview
<1>4. \/ review' = review
      \/ review' = [review EXCEPT ![t.order] = s] /\ Sound(s)
  BY <1>3 DEF Update
<1> HIDE DEF s
<1>5. /\ review' \in [Orders -> Review \cup {NoReview}]
      /\ \A x \in Orders : Sound(review'[x])
      /\ \A x \in Orders : row'[x] = NoRow => review'[x] = NoReview
  <2>1. CASE review' = review
    BY <1>1, <2>1 DEF Inv, TypeOK, LedgerTypes
  <2>2. CASE review' = [review EXCEPT ![t.order] = s] /\ Sound(s)
    BY <1>1, <2>2, TaskFields, ReviewWritten
  <2> QED  BY <1>4, <2>1, <2>2
<1>6. LedgerTypes' /\ RemoteTypes' /\ SyncTypes'
  BY <1>5 DEF Update, Inv, TypeOK, LedgerTypes, RemoteTypes, SyncTypes
<1>7. TaskTypes'
  BY <1>1, EndType
<1> QED  BY <1>5, <1>6, <1>7 DEF Inv, TypeOK

\* Classify and Request give a handler an order of the ledger.
LEMMA BeginType ==
    ASSUME Inv, row' = row, NEW p \in Handlers, NEW o \in Orders, row[o] # NoRow,
           NEW op \in AllRequests \cup {"classify"}, NEW at \in Steps \ {"clear"},
           NEW verdict \in SUBSET Reasons, Begin(p, op, at, o, verdict)
    PROVE  TaskTypes'
<1> DEFINE u == [op |-> op, at |-> at, order |-> o, lines |-> row[o].lines,
                 verdict |-> verdict, todo |-> << >>]
<1>1. row[o].lines \in Lines
  BY DEF Inv, TypeOK, LedgerTypes, Row
<1>2. << >> \in Seq(Recheckable)
  OBVIOUS
<1>3. u \in Task /\ u.order = o /\ u.at # "clear"
  BY <1>1, <1>2 DEF Task
<1>4. task' = [task EXCEPT ![p] = u]
  BY DEF Begin
<1> HIDE DEF u
<1> QED  BY <1>3, <1>4, TaskWritten

\* The beginnings write nothing but the task and the count of requests.
LEMMA ClassifyType ==
    ASSUME Inv, NEW o \in Orders, Classify(o)
    PROVE  TypeOK' /\ row' = row /\ review' = review
<1>1. row[o] # NoRow /\ Background \in Handlers
  BY DEF Classify, Candidate, Awaiting, Handlers
<1>2. {"query", "save"} \subseteq Steps \ {"clear"}
      /\ {"sku_unbound"} \in SUBSET Reasons
  BY DEF Steps, Reasons, Found
<1>3. TaskTypes'
  <2>1. CASE Begin(Background, "classify", "save", o, {"sku_unbound"})
    BY <1>1, <1>2, <2>1, BeginType DEF Classify
  <2>2. CASE Begin(Background, "classify", "query", o, {})
    BY <1>1, <1>2, <2>2, BeginType DEF Classify
  <2> QED  BY <2>1, <2>2 DEF Classify
<1>4. RemoteTypes' /\ LedgerTypes' /\ SyncTypes'
  BY DEF Classify, Inv, TypeOK, RemoteTypes, LedgerTypes, SyncTypes
<1> QED  BY <1>3, <1>4 DEF Classify, TypeOK

\* Likewise a request.
LEMMA RequestType ==
    ASSUME Inv, NEW p \in Operators, NEW o \in Orders, Request(p, o)
    PROVE  TypeOK' /\ row' = row /\ review' = review
<1>1. row[o] # NoRow /\ p \in Handlers /\ row' = row
  BY DEF Request, Handlers
<1>2. {"query", "detail", "check", "upsert", "buy"} \subseteq Steps \ {"clear"}
      /\ {} \in SUBSET Reasons /\ {Address} \in SUBSET Reasons
  BY DEF Steps, Reasons, Blocking
<1>3. TaskTypes'
  <2>1. CASE Begin(p, "preview", "query", o, {})
    BY <1>1, <1>2, <2>1, BeginType DEF AllRequests
  <2>2. CASE \E op \in {"refresh", "pend", "approve"} : Begin(p, op, "detail", o, {})
    BY <1>1, <1>2, <2>2, BeginType DEF AllRequests
  <2>3. CASE Begin(p, "resolve", "check", o, {})
    BY <1>1, <1>2, <2>3, BeginType DEF AllRequests
  <2>4. CASE Begin(p, "reject", "upsert", o, {Address})
    BY <1>1, <1>2, <2>4, BeginType DEF AllRequests
  <2>5. CASE Begin(p, "buy", "buy", o, {})
    BY <1>1, <1>2, <2>5, BeginType DEF AllRequests
  <2> QED  BY <2>1, <2>2, <2>3, <2>4, <2>5 DEF Request
<1>4. requests' \in 0 .. MaxRequests
  BY SyncAssumption DEF Request, Inv, TypeOK, RemoteTypes
<1>5. RemoteTypes' /\ LedgerTypes' /\ SyncTypes'
  BY <1>4 DEF Request, Inv, TypeOK, RemoteTypes, LedgerTypes, SyncTypes
<1> QED  BY <1>3, <1>5 DEF Request, TypeOK

\* What XLWMS says and what is saved of it.
LEMMA QueryType ==
    ASSUME Inv, NEW p \in Handlers, Query(p) \/ Save(p) \/ OrderDetail(p)
    PROVE  TypeOK' /\ row' = row /\ review' = review
<1>1. task[p] # Idle /\ row' = row /\ review' = review /\ task[p] \in Task
  BY TaskFields DEF Query, Save, OrderDetail, At
<1>2. PICK at \in Steps, verdict \in SUBSET Reasons, todo \in Seq(Recheckable) :
        /\ at = "clear" => todo # << >>
        /\ task' = [task EXCEPT ![p] = [task[p] EXCEPT !.at = at, !.verdict = verdict,
                                                       !.todo = todo]]
  <2>1. task \in [Handlers -> Task \cup {Idle}]
    BY DEF Inv, TypeOK, TaskTypes
  <2>2. CASE Query(p)
    <3>1. Categories(decision, Quantities) \in SUBSET Reasons
      BY FoundReasons
    <3>2. task' = [task EXCEPT ![p] =
              [task[p] EXCEPT !.at = "save",
                              !.verdict = Categories(decision, Quantities),
                              !.todo = task[p].todo]]
      BY <1>1, <2>1, <2>2 DEF Query, Task
    <3>3. "save" \in Steps /\ task[p].todo \in Seq(Recheckable)
      BY <1>1, TaskFields DEF Steps
    <3> QED  BY <3>1, <3>2, <3>3
  <2>3. CASE OrderDetail(p)
    <3> DEFINE found == IF content[task[p].order].merged THEN {"merge_candidate"} ELSE {}
    <3>1. task' = [task EXCEPT ![p] =
              [task[p] EXCEPT !.at = "upsert", !.verdict = found,
                              !.todo = task[p].todo]]
      BY <1>1, <2>1, <2>3 DEF OrderDetail, Task
    <3>2. "upsert" \in Steps /\ task[p].todo \in Seq(Recheckable)
          /\ found \in SUBSET Reasons
      BY <1>1, TaskFields DEF Steps, Reasons, Found
    <3> HIDE DEF found
    <3> QED  BY <3>1, <3>2
  <2>4. CASE Save(p)
    <3>1. ClearOrder \in Seq(Recheckable) /\ ClearOrder # << >>
      BY DEF ClearOrder, Recheckable
    <3>2. << >> \in Seq(Recheckable) /\ {"upsert", "clear"} \subseteq Steps
          /\ task[p].verdict \in SUBSET Reasons
      BY <1>1, TaskFields DEF Steps
    <3>3. CASE task[p].verdict = {}
      <4>1. task' = [task EXCEPT ![p] =
              [task[p] EXCEPT !.at = "clear", !.verdict = task[p].verdict,
                              !.todo = ClearOrder]]
        BY <1>1, <2>1, <2>4, <3>3 DEF Save, Task
      <4> QED  BY <3>1, <3>2, <4>1
    <3>4. CASE task[p].verdict # {}
      <4>1. task' = [task EXCEPT ![p] =
              [task[p] EXCEPT !.at = "upsert", !.verdict = task[p].verdict,
                              !.todo = << >>]]
        BY <1>1, <2>1, <2>4, <3>4 DEF Save, Task
      <4> QED  BY <3>2, <4>1
    <3> QED  BY <3>3, <3>4
  <2> QED  BY <2>2, <2>3, <2>4
<1> DEFINE u == [task[p] EXCEPT !.at = at, !.verdict = verdict, !.todo = todo]
<1>3. u \in Task /\ u.order = task[p].order /\ u.at = at /\ u.todo = todo
  BY <1>1 DEF Task
<1>4. task' = [task EXCEPT ![p] = u]
  BY <1>2
<1> HIDE DEF u
<1>5. TaskTypes'
  <2>0. row[u.order] # NoRow
    BY <1>1, <1>3, TaskFields
  <2>1. u # Idle => row[u.order] # NoRow /\ (u.at = "clear" => u.todo # << >>)
    BY <1>2, <1>3, <2>0
  <2> QED  BY <1>1, <1>3, <1>4, <2>1, TaskWritten
<1>6. LedgerTypes'
  <2>1. CASE Query(p) \/ OrderDetail(p)
    BY <2>1 DEF Query, OrderDetail, Inv, TypeOK, LedgerTypes
  <2>2. CASE Save(p)
    <3>1. task[p].lines.version \in Versions
      BY <1>1, TaskFields DEF Lines
    <3> QED  BY <2>2, <3>1 DEF Save, Inv, TypeOK, LedgerTypes
  <2> QED  BY <2>1, <2>2
<1>7. RemoteTypes' /\ SyncTypes'
  BY DEF Query, Save, OrderDetail, Inv, TypeOK, RemoteTypes, SyncTypes
<1> QED  BY <1>1, <1>5, <1>6, <1>7 DEF TypeOK

\* The other steps of the handlers write no review either.
LEMMA QuietWork ==
    ASSUME Inv, NEW p \in Handlers,
           CheckTransition(p) \/ Buy(p) \/ FailQuery(p) \/ Abort(p)
    PROVE  TypeOK' /\ row' = row /\ review' = review
<1>1. task[p] # Idle /\ row' = row /\ review' = review
  BY DEF CheckTransition, Buy, FailQuery, Abort, At
<1>2. TaskTypes'
  <2>1. End(p) \/ Goto(p, "update")
    BY DEF CheckTransition, Buy, FailQuery, Abort
  <2>2. "update" \in Steps \ {"clear"}
    BY DEF Steps
  <2> QED  BY <1>1, <2>1, <2>2, EndType, GotoType
<1>3. faults' \in 0 .. MaxFaults
  <2>1. faults' = faults \/ (faults < MaxFaults /\ faults' = faults + 1)
    BY DEF CheckTransition, Buy, FailQuery, Abort
  <2> QED  BY <2>1, SyncAssumption DEF Inv, TypeOK, RemoteTypes
<1>4. check' \in [Orders -> [status : {"eligible", "manual", "failed"},
                             version : Versions, fresh : BOOLEAN] \cup {NoRow}]
  <2>1. task[p].lines.version \in Versions
    BY <1>1, TaskFields DEF Lines
  <2>2. CASE check' = check
    BY <2>2 DEF Inv, TypeOK, LedgerTypes
  <2>3. CASE FailQuery(p)
    BY <2>1, <2>3 DEF FailQuery, Inv, TypeOK, LedgerTypes
  <2> QED  BY <2>2, <2>3 DEF CheckTransition, Buy, Abort
<1>5. shipped' \subseteq Orders /\ dropped' = dropped
  BY <1>1, TaskFields DEF CheckTransition, Buy, FailQuery, Abort, Inv, TypeOK, LedgerTypes
<1>6. UNCHANGED <<remote, requests, sync>>
  BY DEF CheckTransition, Buy, FailQuery, Abort
<1>7. RemoteTypes' /\ SyncTypes'
  BY <1>3, <1>6 DEF Inv, TypeOK, RemoteTypes, SyncTypes
<1>8. LedgerTypes'
  BY <1>1, <1>4, <1>5 DEF Inv, TypeOK, LedgerTypes
<1> QED  BY <1>1, <1>2, <1>7, <1>8 DEF TypeOK

\* A failed synchronisation, a restart and the passing of time.
LEMMA QuietSystem ==
    ASSUME Inv, FailSync \/ Restart \/ \E o \in Orders : Age(o)
    PROVE  TypeOK' /\ row' = row /\ review' = review
<1>1. row' = row /\ review' = review
  BY DEF FailSync, Restart, Age
<1>2. RemoteTypes'
  <2>1. faults' = faults \/ (faults < MaxFaults /\ faults' = faults + 1)
    BY DEF FailSync, Restart, Age
  <2>2. faults' \in 0 .. MaxFaults
    BY <2>1, SyncAssumption DEF Inv, TypeOK, RemoteTypes
  <2> QED  BY <2>2 DEF FailSync, Restart, Age, Inv, TypeOK, RemoteTypes
<1>3. LedgerTypes'
  <2>1. CASE UNCHANGED <<row, review, check, shipped, dropped>>
    BY <2>1 DEF Inv, TypeOK, LedgerTypes
  <2>2. ASSUME NEW o \in Orders, Age(o) PROVE LedgerTypes'
    <3> DEFINE aged == [check[o] EXCEPT !.fresh = FALSE]
    <3>1. aged \in [status : {"eligible", "manual", "failed"}, version : Versions,
                    fresh : BOOLEAN]
      BY <2>2 DEF Age, Inv, TypeOK, LedgerTypes
    <3>2. check' = [check EXCEPT ![o] = aged]
      BY <2>2 DEF Age
    <3>3. UNCHANGED <<row, review, shipped, dropped>>
      BY <2>2 DEF Age
    <3> HIDE DEF aged
    <3> QED  BY <3>1, <3>2, <3>3 DEF Inv, TypeOK, LedgerTypes
  <2> QED  BY <2>1, <2>2 DEF FailSync, Restart
<1>4. SyncTypes'
  <2>1. NoSync \in [at : {"idle", "page", "replace"}, page : Nat \ {0}, count : Nat,
                    first : [{} -> Content], last : [{} -> Content]]
    <3>1. << >> \in [{} -> Content]
      OBVIOUS
    <3> QED  BY <3>1 DEF NoSync
  <2>2. sync' = sync \/ sync' = NoSync
    BY DEF FailSync, Restart, Age
  <2>3. CASE sync' = sync
    BY <2>3 DEF Inv, TypeOK, SyncTypes
  <2>4. CASE sync' = NoSync
    BY <2>1, <2>4 DEF SyncTypes
  <2> QED  BY <2>2, <2>3, <2>4
<1>5. TaskTypes'
  BY DEF FailSync, Restart, Age, Inv, TypeOK, TaskTypes
<1> QED  BY <1>1, <1>2, <1>3, <1>4, <1>5 DEF TypeOK

\* The steps that write a review, and the others.
Writes ==
    \/ ReplaceOpenOrders
    \/ \E p \in Handlers : Upsert(p) \/ Clear(p) \/ Update(p)

\* Every step is one or the other.
LEMMA WritesOrNot ==
    ASSUME Inv, [Next]_vars
    PROVE  Writes \/ (TypeOK' /\ row' = row /\ review' = review)
<1>1. CASE Change \/ OrderPage
  <2>1. TypeOK
    BY DEF Inv
  <2> QED  BY <1>1, <2>1, ChangeType, OrderPageType DEF Change, OrderPage
<1>2. CASE FailSync \/ Restart \/ \E o \in Orders : Age(o)
  BY <1>2, QuietSystem
<1>3. CASE \E o \in Orders : Classify(o)
  BY <1>3, ClassifyType
<1>4. CASE \E p \in Operators, o \in Orders : Request(p, o)
  BY <1>4, RequestType
<1>5. CASE \E p \in Handlers : Query(p) \/ Save(p) \/ OrderDetail(p)
  BY <1>5, QueryType
<1>6. CASE \E p \in Handlers : CheckTransition(p) \/ Buy(p) \/ FailQuery(p) \/ Abort(p)
  BY <1>6, QuietWork
<1>7. CASE UNCHANGED vars
  BY <1>7 DEF vars, Inv, TypeOK, RemoteTypes, LedgerTypes, SyncTypes, TaskTypes
<1> QED  BY <1>1, <1>2, <1>3, <1>4, <1>5, <1>6, <1>7 DEF Next, Sync, Work, Writes

\* The invariant is inductive.
LEMMA NextInv == ASSUME Inv, [Next]_vars PROVE Inv'
<1>1. CASE Writes
  BY <1>1, ReplaceInv, UpsertInv, ClearInv, UpdateInv DEF Writes
<1>2. CASE TypeOK' /\ row' = row /\ review' = review
  BY <1>2, ReviewsStay
<1> QED  BY <1>1, <1>2, WritesOrNot

\* It holds of the empty ledger.
LEMMA InitInv == Init => Inv
<1> SUFFICES ASSUME Init PROVE Inv
  OBVIOUS
<1>1. TypeOK
  BY InitType
<1>2. \A o \in Orders : review[o] = NoReview
  BY DEF Init
<1> QED  BY <1>1, <1>2 DEF Inv, Sound

\* And so throughout.
LEMMA InvHolds == Spec => []Inv
BY InitInv, NextInv, PTL DEF Spec

(***************************************************************************)
(* The theorems.                                                           *)
(***************************************************************************)

\* The rows of the ledger, the synchronisation and the tasks are of their
\* types: a handler only works on orders of the ledger, and one that clears
\* reasons has some left.
THEOREM TypeCorrect == Spec => []TypeOK
<1>1. Inv => TypeOK
  BY DEF Inv
<1> QED  BY <1>1, InvHolds, PTL

\* What each writing step does to one review.
LEMMA ReviewStep ==
    ASSUME Inv, [Next]_vars, NEW o \in Orders
    PROVE  /\ Completed(review[o]) => Completed(review'[o])
           /\ AddressBlocked(review[o]) /\ row'[o].open =>
                AddressBlocked(review'[o]) \/ Completed(review'[o])
<1> DEFINE Goal == /\ Completed(review[o]) => Completed(review'[o])
                   /\ AddressBlocked(review[o]) /\ row'[o].open =>
                        AddressBlocked(review'[o]) \/ Completed(review'[o])
<1>1. CASE review' = review
  BY <1>1
<1>2. CASE ReplaceOpenOrders
  <2>1. review'[o] = Replaced(o)
    BY <1>2 DEF ReplaceOpenOrders
  <2>2. CASE o \in DOMAIN sync.first
    BY <2>1, <2>2, ReplacedReview
  <2>3. CASE o \notin DOMAIN sync.first
    <3>1. row[o] = NoRow => ~AddressBlocked(review[o])
      BY DEF Inv, AddressBlocked
    <3>2. row[o] # NoRow => ~row'[o].open
      <4>1. row[o] # NoRow => row[o] \in Row
        BY DEF Inv, TypeOK, LedgerTypes
      <4>2. row[o] # NoRow => row'[o] = [row[o] EXCEPT !.open = FALSE]
        BY <1>2, <2>3 DEF ReplaceOpenOrders
      <4> QED  BY <4>1, <4>2 DEF Row
    <3> QED  BY <2>1, <3>1, <3>2, ReplacedReview
  <2> QED  BY <2>2, <2>3
<1>3. ASSUME NEW p \in Handlers, Upsert(p) \/ Clear(p) \/ Update(p)
      PROVE  Goal
  <2> DEFINE t == task[p]
  <2>1. task[p] # Idle
    BY <1>3 DEF Upsert, Clear, Update, At
  <2>2. review \in [Orders -> Review \cup {NoReview}] /\ t.order \in Orders
        /\ Sound(review[t.order])
    BY <2>1, TaskFields DEF Inv, TypeOK, LedgerTypes
  <2>3. CASE o # t.order
    <3>1. review'[o] = review[o]
      BY <1>3, <2>2, <2>3 DEF Upsert, Clear, Update
    <3> QED  BY <3>1
  <2>4. CASE o = t.order /\ Upsert(p)
    <3>1. review'[o] = UpsertManualReview(review[o], Written(t))
      BY <2>2, <2>4 DEF Upsert
    <3>2. Written(t) \in SUBSET Reasons
      BY <2>1, FoundReasons, TaskFields DEF Written
    <3> QED  BY <2>2, <2>4, <3>1, <3>2, UpsertReview
  <2>5. CASE o = t.order /\ Clear(p)
    <3>1. review'[o] = ClearManualReviewReason(review[o], Head(t.todo))
      BY <2>2, <2>5 DEF Clear
    <3> QED  BY <2>2, <2>5, <3>1, ClearStep, ClearReview
  <2>6. CASE o = t.order /\ Update(p)
    <3>1. CASE ~Updatable(review[o], Target(t))
      <4>1. review' = review
        BY <2>6, <3>1 DEF Update
      <4> QED  BY <4>1
    <3>2. CASE Updatable(review[o], Target(t))
      <4>1. review'[o] = UpdateManualReview(review[o], Target(t))
        BY <2>2, <2>6, <3>2 DEF Update
      <4>2. Target(t) \in {"approved", "resolved", "manual_pending"}
        BY DEF Target
      <4> QED  BY <2>2, <2>6, <3>2, <4>1, <4>2, UpdateReview
    <3> QED  BY <3>1, <3>2
  <2> QED  BY <1>3, <2>3, <2>4, <2>5, <2>6
<1> QED  BY <1>1, <1>2, <1>3, WritesOrNot DEF Writes

\* A review that a person has completed stays completed, whatever writes it.
THEOREM CompletedStays == Spec => CompletedIsFinal
<1>1. Inv /\ [Next]_vars =>
        [\A o \in Orders : Completed(review[o]) => Completed(review'[o])]_vars
  BY ReviewStep
<1> QED  BY <1>1, InvHolds, PTL DEF Spec, CompletedIsFinal

\* Of an open order only a person who completes it ends the block on an
\* address that Temu rejected.
THEOREM AddressKeepsBlocking == Spec => AddressStays
<1>1. Inv /\ [Next]_vars =>
        [\A o \in Orders :
            AddressBlocked(review[o]) /\ row'[o].open =>
               AddressBlocked(review'[o]) \/ Completed(review'[o])]_vars
  BY ReviewStep
<1> QED  BY <1>1, InvHolds, PTL DEF Spec, AddressStays

\* What each writing step does to the review of an order of several items.
LEMMA SeveralStep ==
    ASSUME Inv, [Next]_vars, SeveralItemsReviewed
    PROVE  SeveralItemsReviewed'
<1> DEFINE Held(o) == row[o] # NoRow /\ row[o].open /\ row[o].lines.multi =>
                         Several(review[o])
<1>1. \A o \in Orders \ dropped : Held(o)
  BY DEF SeveralItemsReviewed, Several, Awaiting
<1>2. SUFFICES ASSUME NEW o \in Orders \ dropped',
                      row'[o] # NoRow /\ row'[o].open /\ row'[o].lines.multi
               PROVE  Several(review'[o])
  BY DEF SeveralItemsReviewed, Several, Awaiting
<1>3. CASE review' = review /\ row' = row /\ dropped' = dropped
  BY <1>1, <1>2, <1>3
<1>4. CASE ReplaceOpenOrders
  <2>1. review'[o] = Replaced(o)
    BY <1>2, <1>4 DEF ReplaceOpenOrders
  <2>2. CASE o \in DOMAIN sync.first
    <3>1. row'[o] = [open |-> TRUE, lines |-> sync.last[o].lines]
      BY <1>2, <1>4, <2>2 DEF ReplaceOpenOrders
    <3>2. sync.last[o].lines.multi
      BY <1>2, <3>1
    <3> QED  BY <2>1, <2>2, <3>2, ReplacedReview
  <2>3. CASE o \notin DOMAIN sync.first
    <3>1. row[o] # NoRow => row[o] \in Row
      BY DEF Inv, TypeOK, LedgerTypes
    <3>2. row'[o] = IF row[o] = NoRow THEN NoRow ELSE [row[o] EXCEPT !.open = FALSE]
      BY <1>2, <1>4, <2>3 DEF ReplaceOpenOrders
    <3> QED  BY <1>2, <3>1, <3>2 DEF Row
  <2> QED  BY <2>2, <2>3
<1>5. ASSUME NEW p \in Handlers, Upsert(p) \/ Clear(p) \/ Update(p)
      PROVE  Several(review'[o])
  <2> DEFINE t == task[p]
  <2>1. task[p] # Idle /\ row' = row
    BY <1>5 DEF Upsert, Clear, Update, At
  <2>2. review \in [Orders -> Review \cup {NoReview}] /\ t.order \in Orders
        /\ Sound(review[t.order])
    BY <2>1, TaskFields DEF Inv, TypeOK, LedgerTypes
  <2>3. CASE o \notin dropped /\ o # t.order
    <3>1. review'[o] = review[o]
      BY <1>5, <2>2, <2>3 DEF Upsert, Clear, Update
    <3> QED  BY <1>1, <1>2, <2>1, <2>3, <3>1
  <2>4. CASE Upsert(p) /\ o = t.order
    <3>1. review'[o] = UpsertManualReview(review[o], Written(t))
      BY <2>2, <2>4 DEF Upsert
    <3>2. Written(t) \in SUBSET Reasons
      BY <2>1, FoundReasons, TaskFields DEF Written
    <3>3. t.lines = row[o].lines
      <4>1. ASSUME t.lines # row[o].lines PROVE FALSE
        <5>1. dropped' = dropped \cup {o}
          BY <2>4, <4>1 DEF Upsert
        <5> QED  BY <1>2, <5>1
      <4> QED  BY <4>1
    <3>4. "multi_item" \in Written(t)
      BY <1>2, <2>1, <3>3, FoundReasons DEF Written
    <3> QED  BY <2>2, <2>4, <3>1, <3>2, <3>4, UpsertReview
  <2>5. CASE Clear(p) /\ o \notin dropped /\ o = t.order
    <3>1. review'[o] = ClearManualReviewReason(review[o], Head(t.todo))
      BY <2>2, <2>5 DEF Clear
    <3>2. Several(review[o])
      BY <1>1, <1>2, <2>1, <2>5
    <3> QED  BY <2>2, <2>5, <3>1, <3>2, ClearStep, ClearReview
  <2>6. CASE Update(p) /\ o \notin dropped /\ o = t.order
    <3>1. Several(review[o])
      BY <1>1, <1>2, <2>1, <2>6
    <3>2. CASE ~Updatable(review[o], Target(t))
      <4>1. review' = review
        BY <2>6, <3>2 DEF Update
      <4> QED  BY <3>1, <4>1
    <3>3. CASE Updatable(review[o], Target(t))
      <4>1. review'[o] = UpdateManualReview(review[o], Target(t))
        BY <2>2, <2>6, <3>3 DEF Update
      <4>2. Target(t) \in {"approved", "resolved", "manual_pending"}
        BY DEF Target
      <4> QED  BY <2>2, <2>6, <3>1, <3>3, <4>1, <4>2, UpdateReview
    <3> QED  BY <3>2, <3>3
  <2>7. dropped \subseteq dropped'
    BY <1>5 DEF Upsert, Clear, Update
  <2> QED  BY <1>2, <1>5, <2>3, <2>4, <2>5, <2>6, <2>7
<1>6. \/ review' = review /\ row' = row /\ dropped' = dropped
      \/ Writes
  <2>1. CASE ~Writes
    <3>1. row' = row /\ review' = review
      BY <2>1, WritesOrNot
    <3>2. dropped' = dropped
      <4>1. CASE UNCHANGED vars
        BY <4>1 DEF vars
      <4>2. CASE Next
        BY <2>1, <4>2 DEF Next, Writes, Change, Sync, FailSync, Restart, OrderPage,
           Classify, Age, Request, Work, Query, Save, OrderDetail, CheckTransition,
           Buy, FailQuery, Abort
      <4> QED  BY <4>1, <4>2
    <3> QED  BY <3>1, <3>2
  <2> QED  BY <2>1
<1> QED  BY <1>3, <1>4, <1>5, <1>6 DEF Writes

\* An open order of several items is under review, with that reason, until a
\* person approves or completes it, except where a handler has written its
\* review from outdated lines.
THEOREM SeveralItemsAreReviewed == Spec => []SeveralItemsReviewed
<1>1. Init => SeveralItemsReviewed
  BY DEF Init, SeveralItemsReviewed, Awaiting
<1>2. Inv /\ [Next]_vars /\ SeveralItemsReviewed => SeveralItemsReviewed'
  BY SeveralStep
<1> QED  BY <1>1, <1>2, InvHolds, PTL DEF Spec
=============================================================================
