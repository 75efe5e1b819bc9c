---------------------------- MODULE Pages_proof -----------------------------
(***************************************************************************)
(* Proofs about the pages of Pages, one section for each (the lists and    *)
(* forms of staff and stock items are in AdminPages_proof).  A section     *)
(* states what the page keeps to beyond its properties, its inductive      *)
(* invariant, proves that the page starts with it and that each of its     *)
(* steps keeps it, and draws the properties from it.  The last section     *)
(* puts the pages side by side: they share no variable, so PagesSpec has   *)
(* the properties of each.                                                 *)
(***************************************************************************)
EXTENDS Pages, TLAPS, FiniteSetTheorems

-----------------------------------------------------------------------------
(* TakeOrder: the page that takes orders.                                  *)

SnapshotRow == [id : Take!Id, items : Int, status : {"NONE", "PARKED", "COMPLETED"}]
RequestRow ==
  [op : {"create", "add", "remove", "complete", "void"}, id : Take!Id, void : Take!Id \cup {0},
   reply : {"none", "ok", "refused"}, result : SUBSET SnapshotRow]
OrderRow == [items : Int, status : {"NONE", "PARKED", "COMPLETED"}, voids : SUBSET Take!Id]
PageRow ==
  [clientGeneratedId : Take!Id, order : SUBSET SnapshotRow, parkedOrders : SUBSET SnapshotRow,
   voidId : SUBSET Take!Id, tried : SUBSET Take!Id, pending : SUBSET RequestRow]

(* The types. *)
TakeTypes ==
  /\ orders \in [Take!Id -> OrderRow] /\ orderIds \in Nat
  /\ orderPage \in [Tablet -> PageRow]

(* What a tablet's page keeps to by itself. *)
PageIsSound(p, n) ==
  /\ p.clientGeneratedId <= n
  /\ \A o \in p.order : o.id = p.clientGeneratedId
  /\ \A o \in p.parkedOrders : o.id <= n
  /\ p.tried \subseteq p.voidId /\ \A v, w \in p.voidId : v = w /\ v <= n
  /\ \A q, r \in p.pending : q = r
  /\ \A r \in p.pending :
       /\ r.id = p.clientGeneratedId /\ (r.op = "create" <=> p.order = {})
       /\ \A o \in r.result : o.id = r.id
       /\ r.op = "create" /\ r.reply # "none" => r.reply = "ok" /\ r.result # {}
       /\ r.op = "void" => p.voidId = {r.void}

OrdersAreSound ==
  \A i \in Take!Id :
    /\ i > orderIds => orders[i] = Take!NoOrder
    /\ \A v, w \in orders[i].voids : v = w
    /\ orders[i].status # "COMPLETED" => orders[i].voids = {}

(* The next item of the tablet's page starts an order under the id. *)
PageClaims(p, i) ==
  /\ p.clientGeneratedId = i
  /\ \/ p.order = {} /\ \A r \in p.pending : r.op = "create" => r.reply = "none"
     \/ \E r \in p.pending : r.reply = "ok" /\ r.result = {}

Claims(t, i) == PageClaims(orderPage[t], i)

ClaimsAreSingle ==
  \A i \in Take!Id \ unsure : \A t \in Tablet :
    Claims(t, i) => orders[i] = Take!NoOrder /\ \A u \in Tablet : Claims(u, i) => u = t

VoidIdsAreApart == \A t, u \in Tablet : t # u => orderPage[t].voidId \cap orderPage[u].voidId = {}

TakeInv ==
  /\ TakeTypes /\ \A t \in Tablet : PageIsSound(orderPage[t], orderIds)
  /\ OrdersAreSound /\ ClaimsAreSingle /\ VoidIdsAreApart /\ Take!VoidsAreReplayed

(* The tablets' numbers are ids, and so is what a bounded counter reaches. *)
LEMMA TabletsInIds == Tablet \subseteq Take!Id /\ MaxId \in Nat /\ \A n \in Nat : n <= MaxId /\ n > 0 => n \in Take!Id
  BY TabletAssumption DEF Take!TabletsAreNumbered, Take!Id

(* The pages' cardinality is that of finite sets.                          *)
LEMMA TakeCardinality == \A S : Take!Cardinality(S) = Cardinality(S)
BY DEF Take!Cardinality, Cardinality

(* The schedule page's cardinality is that of finite sets.                 *)
LEMMA ScheduleCardinality == \A S : Schedule!Cardinality(S) = Cardinality(S)
BY DEF Schedule!Cardinality, Cardinality

(* Every tablet's number is among the ids that are given at first, of      *)
(* which there are no more than MaxId.                                     *)
LEMMA CountOfTablets ==
  Take!Cardinality(Tablet) \in 0 .. MaxId /\ \A t \in Tablet : t \in 1 .. Take!Cardinality(Tablet)
<1>1. PICK n \in 0 .. MaxId : Tablet = 1 .. n  BY TabletAssumption DEF Take!TabletsAreNumbered
<1>2. n \in Nat /\ 1 - 1 <= n  BY TabletAssumption DEF Take!TabletsAreNumbered
<1>3. Cardinality(1 .. n) = IF 1 > n THEN 0 ELSE n - 1 + 1  BY <1>2, FS_Interval
<1>4. Take!Cardinality(Tablet) = n  BY <1>1, <1>2, <1>3, TakeCardinality
<1> QED BY <1>1, <1>4

(* The pages as they are first opened, each with an id of its own and no   *)
(* order.                                                                  *)
LEMMA TakeInit == Take!Init => TakeInv
<1> SUFFICES ASSUME Take!Init PROVE TakeInv OBVIOUS
<1>1. TakeTypes
  BY CountOfTablets, TabletsInIds DEF Take!Init, TakeTypes, OrderRow, Take!NoOrder, PageRow, Take!Fresh
<1>2. \A t \in Tablet : orderPage[t] = Take!Fresh(t) BY DEF Take!Init
<1>3. \A t \in Tablet : PageIsSound(orderPage[t], orderIds)
  <2> SUFFICES ASSUME NEW t \in Tablet PROVE PageIsSound(Take!Fresh(t), orderIds) BY <1>2
  <2>1. t \in 1 .. Take!Cardinality(Tablet) /\ orderIds = Take!Cardinality(Tablet) BY CountOfTablets DEF Take!Init
  <2> QED BY <2>1 DEF PageIsSound, Take!Fresh
<1>4. OrdersAreSound BY DEF OrdersAreSound, Take!Init, Take!NoOrder
<1>5. ClaimsAreSingle
  BY <1>2 DEF ClaimsAreSingle, Claims, PageClaims, Take!Fresh, Take!Init
<1>6. \A t \in Tablet : orderPage[t].voidId = {} /\ orderPage[t].pending = {}
  <2> SUFFICES ASSUME NEW t \in Tablet PROVE orderPage[t].voidId = {} /\ orderPage[t].pending = {} OBVIOUS
  <2>1. Take!Fresh(t).voidId = {} /\ Take!Fresh(t).pending = {} BY DEF Take!Fresh
  <2> QED BY <1>2, <2>1
<1>7. VoidIdsAreApart /\ Take!VoidsAreReplayed
  BY <1>6 DEF VoidIdsAreApart, Take!VoidsAreReplayed
<1> QED BY <1>1, <1>3, <1>4, <1>5, <1>7 DEF TakeInv

(* A step that changes one page and no order. *)
LEMMA OnePageChanges ==
  ASSUME TakeInv, NEW t \in Tablet, NEW p \in PageRow,
         orderPage' = [orderPage EXCEPT ![t] = p], orders' = orders,
         orderIds' \in Nat, orderIds' >= orderIds,
         unsure \subseteq unsure',
         PageIsSound(p, orderIds'),
         \A i \in Take!Id \ unsure' : PageClaims(p, i) => Claims(t, i) \/ i > orderIds,
         \A v \in p.voidId : v \in orderPage[t].voidId \/ v > orderIds,
         \A r \in p.pending : r.op = "void" /\ r.reply = "refused"
           => r \in orderPage[t].pending /\ p.tried = orderPage[t].tried
  PROVE  TakeInv'
<1>1. \A u \in Tablet : orderPage'[u] = IF u = t THEN p ELSE orderPage[u]
  BY DEF TakeInv, TakeTypes
<1>2. TakeTypes'
  BY DEF TakeInv, TakeTypes
<1>3. \A u \in Tablet : PageIsSound(orderPage[u], orderIds) /\ orderPage[u] \in PageRow  BY DEF TakeInv, TakeTypes
<1>4. \A u \in Tablet : PageIsSound(orderPage'[u], orderIds')
  <2> TAKE u \in Tablet
  <2>1. CASE u = t BY <2>1, <1>1
  <2>2. CASE u # t
    <3>1. orderPage'[u] = orderPage[u] BY <1>1, <2>2
    <3>2. PageIsSound(orderPage[u], orderIds')
      BY <1>3 DEF PageIsSound, PageRow, SnapshotRow, Take!Id, TakeInv, TakeTypes
    <3> QED BY <3>1, <3>2
  <2> QED BY <2>1, <2>2
<1>5. OrdersAreSound' BY DEF TakeInv, OrdersAreSound, Take!Id, TakeTypes
<1>6. ClaimsAreSingle'
  <2> SUFFICES ASSUME NEW i \in Take!Id \ unsure', NEW u \in Tablet, PageClaims(orderPage'[u], i)
               PROVE  orders[i] = Take!NoOrder /\ \A w \in Tablet : PageClaims(orderPage'[w], i) => w = u
    BY DEF ClaimsAreSingle, Claims
  <2>1. i \in Take!Id \ unsure OBVIOUS
  <2>2. ASSUME NEW w \in Tablet, PageClaims(orderPage'[w], i) PROVE Claims(w, i) \/ (w = t /\ i > orderIds)
    BY <2>2, <1>1 DEF Claims
  <2>3. \A w \in Tablet : ~(i > orderIds /\ Claims(w, i))
    BY <1>3 DEF Claims, PageClaims, PageIsSound, Take!Id, TakeInv, TakeTypes
  <2>4. orders[i] = Take!NoOrder BY <2>1, <2>2 DEF TakeInv, ClaimsAreSingle, OrdersAreSound
  <2> QED BY <2>1, <2>2, <2>3, <2>4 DEF TakeInv, ClaimsAreSingle
<1>7. VoidIdsAreApart'
  <2> SUFFICES ASSUME NEW u \in Tablet, NEW w \in Tablet, u # w, NEW v \in orderPage'[u].voidId,
                        v \in orderPage'[w].voidId
               PROVE  FALSE
    BY DEF VoidIdsAreApart
  <2>1. \A x \in Tablet : \A y \in orderPage[x].voidId : y <= orderIds /\ y \in Nat
    BY <1>3 DEF PageIsSound, PageRow, Take!Id
  <2>2. CASE u = t BY <2>1, <2>2, <1>1 DEF TakeInv, VoidIdsAreApart, TakeTypes
  <2>3. CASE w = t BY <2>1, <2>3, <1>1 DEF TakeInv, VoidIdsAreApart, TakeTypes
  <2>4. CASE u # t /\ w # t BY <2>4, <1>1 DEF TakeInv, VoidIdsAreApart
  <2> QED BY <2>2, <2>3, <2>4
<1>8. Take!VoidsAreReplayed'
  <2> SUFFICES ASSUME NEW u \in Tablet, NEW r \in orderPage'[u].pending, r.op = "void", r.reply = "refused"
               PROVE  orders[r.id].voids \cap orderPage'[u].tried = {}
    BY DEF Take!VoidsAreReplayed
  <2> QED BY <1>1 DEF TakeInv, Take!VoidsAreReplayed
<1> QED BY <1>2, <1>4, <1>5, <1>6, <1>7, <1>8 DEF TakeInv

(* A request for the order a page shows is sent, with nothing else on its  *)
(* way; a void has a new id or the one kept.                               *)
LEMMA TakeSend ==
  ASSUME TakeInv, NEW t \in Tablet, NEW op \in {"create", "add", "remove", "complete", "void"},
         NEW v \in Take!Id \cup {0}, Take!Send(t, op, orderPage[t].clientGeneratedId, v),
         op = "create" <=> orderPage[t].order = {},
         op = "void" => v \in Take!Id /\ (orderPage[t].voidId = {v} \/ (orderPage[t].voidId = {} /\ v > orderIds)) /\
           orderIds' = IF v > orderIds THEN v ELSE orderIds,
         op # "void" => orderIds' = orderIds
  PROVE  TakeInv'
<1> DEFINE i == orderPage[t].clientGeneratedId
           r == [op |-> op, id |-> i, void |-> v, reply |-> "none", result |-> {}]
           vid == IF op = "void" THEN {v} ELSE orderPage[t].voidId
           all == IF op = "void" THEN orderPage[t].tried \cup {v} ELSE orderPage[t].tried
           p == [orderPage[t] EXCEPT !.pending = {r}, !.voidId = vid, !.tried = all]
<1>1. orderPage[t] \in PageRow /\ PageIsSound(orderPage[t], orderIds) /\ orderIds \in Nat BY DEF TakeInv, TakeTypes
<1>2. orderPage' = [orderPage EXCEPT ![t] = p] BY DEF Take!Send
<1>3. r \in RequestRow BY <1>1 DEF RequestRow, PageRow
<1>5. orderIds' \in Nat /\ orderIds' >= orderIds BY <1>1, TabletsInIds DEF Take!Id
<1>14. vid \subseteq Take!Id /\ all \subseteq Take!Id BY <1>1 DEF PageRow
<1>15. r.op = op /\ r.id = i /\ r.void = v /\ r.reply = "none" /\ r.result = {} OBVIOUS
<1>16. /\ vid = (IF op = "void" THEN {v} ELSE orderPage[t].voidId)
       /\ all = (IF op = "void" THEN orderPage[t].tried \cup {v} ELSE orderPage[t].tried) OBVIOUS
<1> HIDE DEF r, vid, all
<1>4. p \in PageRow BY <1>1, <1>3, <1>14 DEF PageRow
<1>17. /\ p.clientGeneratedId = i /\ p.order = orderPage[t].order /\ p.parkedOrders = orderPage[t].parkedOrders
       /\ p.voidId = vid /\ p.tried = all /\ p.pending = {r}
  BY <1>1 DEF PageRow
<1>6. /\ p.clientGeneratedId = i /\ p.order = orderPage[t].order /\ p.parkedOrders = orderPage[t].parkedOrders
      /\ p.voidId = (IF op = "void" THEN {v} ELSE orderPage[t].voidId)
      /\ p.tried = (IF op = "void" THEN orderPage[t].tried \cup {v} ELSE orderPage[t].tried)
      /\ p.pending = {r} /\ r.op = op /\ r.id = i /\ r.void = v /\ r.reply = "none" /\ r.result = {}
  BY <1>15, <1>16, <1>17
<1> HIDE DEF p
<1>7. \A o \in orderPage[t].parkedOrders : o.id \in Nat BY <1>1 DEF PageRow, SnapshotRow, Take!Id
<1>8. i \in Nat /\ \A w \in orderPage[t].voidId : w \in Nat BY <1>1 DEF PageRow, Take!Id
<1>9. PageIsSound(p, orderIds')
  <2>1. p.clientGeneratedId <= orderIds' /\ \A o \in p.order : o.id = p.clientGeneratedId
    BY <1>1, <1>5, <1>6, <1>8 DEF PageIsSound
  <2>2. \A o \in p.parkedOrders : o.id <= orderIds'
    BY <1>1, <1>5, <1>6, <1>7 DEF PageIsSound
  <2>3. p.tried \subseteq p.voidId /\ \A x, y \in p.voidId : x = y /\ x <= orderIds'
    <3>1. CASE op = "void"
      <4>1. v \in Nat /\ v <= orderIds' BY <3>1, <1>1, <1>5, TabletsInIds DEF Take!Id, PageIsSound
      <4>2. p.voidId = {v} /\ p.tried = orderPage[t].tried \cup {v} BY <1>6, <3>1
      <4>3. orderPage[t].tried \subseteq {v} BY <1>1, <3>1 DEF PageIsSound
      <4> QED BY <4>1, <4>2, <4>3
    <3>2. CASE op # "void" BY <3>2, <1>1, <1>6, <1>8, <1>5 DEF PageIsSound
    <3> QED BY <3>1, <3>2
  <2>4. \A x \in p.pending :
          /\ x.id = p.clientGeneratedId /\ (x.op = "create" <=> p.order = {})
          /\ \A o \in x.result : o.id = x.id
          /\ x.op = "create" /\ x.reply # "none" => x.reply = "ok" /\ x.result # {}
          /\ x.op = "void" => p.voidId = {x.void}
    BY <1>6
  <2>5. \A x, y \in p.pending : x = y BY <1>6
  <2> QED BY <2>1, <2>2, <2>3, <2>4, <2>5 DEF PageIsSound
<1>10. \A j \in Take!Id : PageClaims(p, j) => Claims(t, j)
  <2>1. orderPage[t].pending = {} BY DEF Take!Send, Take!IsIdle
  <2> QED BY <1>6, <2>1 DEF PageClaims, Claims
<1>11. \A x \in p.voidId : x \in orderPage[t].voidId \/ x > orderIds BY <1>6
<1>12. \A x \in p.pending : x.reply # "refused" BY <1>6
<1>13. orders' = orders /\ unsure' = unsure BY DEF Take!Send
<1> QED BY <1>2, <1>4, <1>5, <1>9, <1>10, <1>11, <1>12, <1>13, OnePageChanges

(* What the parked list shows are orders under ids that were given.        *)
LEMMA ParkedSnapshots == TakeTypes /\ OrdersAreSound => Take!Parked \subseteq SnapshotRow /\ \A o \in Take!Parked :
  o.id \in Take!Id /\ o.id <= orderIds
<1> SUFFICES ASSUME TakeTypes, OrdersAreSound, NEW o \in Take!Parked
             PROVE o \in SnapshotRow /\ o.id \in Take!Id /\ o.id <= orderIds
  OBVIOUS
<1>1. PICK i \in Take!Id : orders[i].status = "PARKED" /\ o = Take!Snapshot(i) BY DEF Take!Parked
<1>2. orders[i] \in OrderRow BY DEF TakeTypes
<1>3. o \in SnapshotRow /\ o.id = i BY <1>1, <1>2 DEF Take!Snapshot, SnapshotRow, OrderRow
<1>4. orders[i] # Take!NoOrder BY <1>1 DEF Take!NoOrder
<1>5. i <= orderIds BY <1>4 DEF OrdersAreSound, TakeTypes, Take!Id
<1> QED BY <1>3, <1>5

(* A page that has let go of its order starts with a new id.               *)
LEMMA TakeNewDraft ==
  ASSUME TakeInv, NEW t \in Tablet, Take!NewDraft(t), UNCHANGED <<orders, taps, unsure>>
  PROVE  TakeInv'
<1>1. PICK rows \in {orderPage[t].parkedOrders, Take!Parked} :
        /\ Take!NextId \in Take!Id /\ orderIds' = Take!NextId
        /\ orderPage' = [orderPage EXCEPT ![t] = [Take!Fresh(Take!NextId) EXCEPT !.parkedOrders = rows]]
  BY DEF Take!NewDraft
<1> DEFINE p == [Take!Fresh(Take!NextId) EXCEPT !.parkedOrders = rows]
<1>2. orderPage[t] \in PageRow /\ PageIsSound(orderPage[t], orderIds) /\ orderIds \in Nat BY DEF TakeInv, TakeTypes
<1>3. \A o \in rows : o \in SnapshotRow /\ o.id <= orderIds
  BY <1>2, ParkedSnapshots DEF TakeInv, PageRow, PageIsSound
<1>4. p = [clientGeneratedId |-> Take!NextId, order |-> {}, parkedOrders |-> rows, voidId |-> {}, tried |-> {},
        pending |-> {}]
  BY DEF Take!Fresh
<1>5. /\ p.clientGeneratedId = Take!NextId /\ p.order = {} /\ p.parkedOrders = rows /\ p.voidId = {} /\ p.tried = {}
      /\ p.pending = {}
  BY <1>4
<1>6. p \in PageRow BY <1>1, <1>3, <1>4 DEF PageRow
<1> HIDE DEF p
<1>7. orderIds' = orderIds + 1 BY <1>1 DEF Take!NextId
<1>8. PageIsSound(p, orderIds')
  <2>1. \A o \in rows : o.id \in Nat BY <1>3 DEF SnapshotRow, Take!Id
  <2> QED BY <1>2, <1>3, <1>5, <1>7, <2>1 DEF PageIsSound, Take!NextId
<1>9. \A i \in Take!Id : PageClaims(p, i) => i > orderIds BY <1>2, <1>5 DEF PageClaims, Take!NextId
<1>10. orderPage' = [orderPage EXCEPT ![t] = p] BY <1>1 DEF p
<1>11. orderIds' \in Nat /\ orderIds' >= orderIds BY <1>2, <1>7
<1>12. orders' = orders /\ unsure' = unsure OBVIOUS
<1>13. \A v \in p.voidId : v \in orderPage[t].voidId \/ v > orderIds BY <1>5
<1>14. \A r \in p.pending : r.reply # "refused" BY <1>5
<1> QED BY <1>6, <1>8, <1>9, <1>10, <1>11, <1>12, <1>13, <1>14, OnePageChanges

(* A parked order is taken over with its own id.                           *)
LEMMA TakeResume ==
  ASSUME TakeInv, NEW t \in Tablet, Take!Resume(t)
  PROVE  TakeInv'
<1>1. PICK o \in orderPage[t].parkedOrders :
        orderPage' = [orderPage EXCEPT ![t] = [@ EXCEPT !.order = {o}, !.clientGeneratedId = o.id]]
  BY DEF Take!Resume, Take!ResumedId
<1> DEFINE p == [orderPage[t] EXCEPT !.order = {o}, !.clientGeneratedId = o.id]
<1>2. orderPage[t] \in PageRow /\ PageIsSound(orderPage[t], orderIds) /\ orderIds \in Nat /\ orderPage[t].pending = {}
  BY DEF TakeInv, TakeTypes, Take!Resume, Take!IsIdle
<1>3. o \in SnapshotRow /\ o.id \in Take!Id /\ o.id <= orderIds BY <1>2 DEF PageIsSound, PageRow, SnapshotRow
<1>4. p \in PageRow BY <1>2, <1>3 DEF PageRow
<1>5. /\ p.clientGeneratedId = o.id /\ p.order = {o} /\ p.parkedOrders = orderPage[t].parkedOrders
      /\ p.voidId = orderPage[t].voidId /\ p.tried = orderPage[t].tried /\ p.pending = {}
  BY <1>2 DEF PageRow
<1>6. orderPage' = [orderPage EXCEPT ![t] = p] BY <1>1
<1> HIDE DEF p
<1>7. PageIsSound(p, orderIds) BY <1>2, <1>3, <1>5 DEF PageIsSound
<1>8. \A i \in Take!Id : ~PageClaims(p, i) BY <1>5 DEF PageClaims
<1>20. orderIds' \in Nat /\ orderIds' >= orderIds BY <1>2 DEF Take!Resume
<1>21. orders' = orders /\ unsure \subseteq unsure' BY DEF Take!Resume
<1>22. \A v \in p.voidId : v \in orderPage[t].voidId \/ v > orderIds BY <1>5
<1>23. \A x \in p.pending : x.reply # "refused" BY <1>5
<1>24. orderIds' = orderIds BY DEF Take!Resume
<1> QED BY <1>4, <1>6, <1>7, <1>8, <1>20, <1>21, <1>22, <1>23, <1>24, OnePageChanges

(* An answer is applied to the order it was asked for.                     *)
LEMMA TakeAnswered ==
  ASSUME TakeInv, NEW t \in Tablet, Take!Answered(t)
  PROVE  TakeInv'
<1>1. PICK r \in orderPage[t].pending :
        /\ r.reply # "none"
        /\ orderPage' = [orderPage EXCEPT ![t] = [@ EXCEPT !.pending = {}, !.order = IF r.reply = "ok" THEN r.result
             ELSE orderPage[t].order]]
  BY DEF Take!Answered
<1> DEFINE new == IF r.reply = "ok" THEN r.result ELSE orderPage[t].order
           p == [orderPage[t] EXCEPT !.pending = {}, !.order = new]
<1>2. orderPage[t] \in PageRow /\ PageIsSound(orderPage[t], orderIds) /\ orderIds \in Nat BY DEF TakeInv, TakeTypes
<1>3. r \in RequestRow BY <1>2 DEF PageRow
<1>4. new \subseteq SnapshotRow BY <1>2, <1>3 DEF PageRow, RequestRow
<1>5. orderPage' = [orderPage EXCEPT ![t] = p] BY <1>1
<1>6. new = (IF r.reply = "ok" THEN r.result ELSE orderPage[t].order) OBVIOUS
<1> HIDE DEF new
<1>7. p \in PageRow BY <1>2, <1>4 DEF PageRow
<1>8. /\ p.clientGeneratedId = orderPage[t].clientGeneratedId /\ p.order = new
      /\ p.parkedOrders = orderPage[t].parkedOrders
      /\ p.voidId = orderPage[t].voidId /\ p.tried = orderPage[t].tried /\ p.pending = {}
  BY <1>2 DEF PageRow
<1> HIDE DEF p
<1>9. r.id = orderPage[t].clientGeneratedId /\ \A o \in new : o.id = r.id BY <1>2, <1>6 DEF PageIsSound
<1>10. PageIsSound(p, orderIds) BY <1>2, <1>8, <1>9 DEF PageIsSound
<1>11. \A i \in Take!Id : PageClaims(p, i) => Claims(t, i)
  <2> SUFFICES ASSUME NEW i \in Take!Id, PageClaims(p, i) PROVE Claims(t, i) OBVIOUS
  <2>1. orderPage[t].clientGeneratedId = i /\ new = {} BY <1>8 DEF PageClaims
  <2>2. CASE r.reply = "ok" BY <2>1, <2>2, <1>6 DEF Claims, PageClaims
  <2>3. CASE r.reply # "ok"
    <3>1. orderPage[t].order = {} BY <2>1, <2>3, <1>6
    <3> QED BY <2>3, <3>1, <1>1, <1>2 DEF PageIsSound
  <2> QED BY <2>2, <2>3
<1>20. orderIds' \in Nat /\ orderIds' >= orderIds BY <1>2 DEF Take!Answered
<1>21. orders' = orders /\ unsure \subseteq unsure' BY DEF Take!Answered
<1>22. \A v \in p.voidId : v \in orderPage[t].voidId \/ v > orderIds BY <1>8
<1>23. \A x \in p.pending : x.reply # "refused" BY <1>8
<1>24. orderIds' = orderIds BY DEF Take!Answered
<1> QED BY <1>5, <1>7, <1>10, <1>11, <1>20, <1>21, <1>22, <1>23, <1>24, OnePageChanges

(* A request or its answer is lost, and the page keeps the id.             *)
LEMMA TakeLost ==
  ASSUME TakeInv, NEW t \in Tablet, Take!Lost(t)
  PROVE  TakeInv'
<1>1. PICK r \in orderPage[t].pending :
        /\ orderPage' = [orderPage EXCEPT ![t].pending = {}]
        /\ unsure' = IF r.op = "create" THEN unsure \cup {r.id} ELSE unsure
        /\ UNCHANGED <<orders, orderIds, taps>>
  BY DEF Take!Lost
<1> DEFINE p == [orderPage[t] EXCEPT !.pending = {}]
<1>2. orderPage[t] \in PageRow /\ PageIsSound(orderPage[t], orderIds) /\ orderIds \in Nat BY DEF TakeInv, TakeTypes
<1>5. orderPage' = [orderPage EXCEPT ![t] = p] BY <1>1
<1>7. p \in PageRow BY <1>2 DEF PageRow
<1>8. /\ p.clientGeneratedId = orderPage[t].clientGeneratedId /\ p.order = orderPage[t].order
      /\ p.parkedOrders = orderPage[t].parkedOrders
      /\ p.voidId = orderPage[t].voidId /\ p.tried = orderPage[t].tried /\ p.pending = {}
  BY <1>2 DEF PageRow
<1> HIDE DEF p
<1>10. PageIsSound(p, orderIds) BY <1>2, <1>8 DEF PageIsSound
<1>11. \A i \in Take!Id \ unsure' : ~PageClaims(p, i)
  <2> SUFFICES ASSUME NEW i \in Take!Id \ unsure', PageClaims(p, i) PROVE FALSE OBVIOUS
  <2>1. orderPage[t].clientGeneratedId = i /\ orderPage[t].order = {} BY <1>8 DEF PageClaims
  <2>2. r.op = "create" /\ r.id = i BY <2>1, <1>2 DEF PageIsSound
  <2> QED BY <2>2, <1>1
<1>20. orderIds' \in Nat /\ orderIds' >= orderIds BY <1>2, <1>1
<1>21. orders' = orders /\ unsure \subseteq unsure' BY <1>1
<1>22. \A v \in p.voidId : v \in orderPage[t].voidId \/ v > orderIds BY <1>8
<1>23. \A x \in p.pending : x.reply # "refused" BY <1>8
<1>24. orderIds' = orderIds BY <1>1
<1> QED BY <1>5, <1>7, <1>10, <1>11, <1>20, <1>21, <1>22, <1>23, <1>24, OnePageChanges

(* What the server stores for a request it allows.                         *)
LEMMA ChangedRow ==
  ASSUME TakeTypes, OrdersAreSound, NEW r \in RequestRow, Take!IsAllowed(r), r.op = "void" => r.void \in Take!Id
  PROVE  /\ Take!Changed(r) \in OrderRow
         /\ r.op = "create" => Take!Changed(r) # Take!NoOrder
         /\ r.op # "create" => orders[r.id] # Take!NoOrder
         /\ \A v, w \in Take!Changed(r).voids : v = w
         /\ Take!Changed(r).status # "COMPLETED" => Take!Changed(r).voids = {}
         /\ Take!Changed(r).voids \subseteq orders[r.id].voids \cup (IF r.op = "void" THEN {r.void} ELSE {})
<1> DEFINE s == orders[r.id]
           c == Take!Changed(r)
<1>1. s \in OrderRow /\ r.id \in Take!Id BY DEF TakeTypes, RequestRow
<1>2. (\A v, w \in s.voids : v = w) /\ (s.status # "COMPLETED" => s.voids = {})
  BY <1>1 DEF OrdersAreSound
<1>3. Take!NoOrder \in OrderRow /\ Take!NoOrder.status = "NONE" /\ Take!NoOrder.voids = {} BY DEF Take!NoOrder,
     OrderRow
<1>4. r.op \in {"create", "add", "remove", "complete", "void"} BY DEF RequestRow
<1>5. CASE r.op = "create"
  <2>1. CASE s = Take!NoOrder
    <3>1. c = [Take!NoOrder EXCEPT !.items = 1, !.status = "PARKED"] BY <1>5, <2>1 DEF Take!Changed
    <3>2. c = [items |-> 1, status |-> "PARKED", voids |-> {}] BY <3>1 DEF Take!NoOrder
    <3>3. c \in OrderRow /\ c.status = "PARKED" /\ c.voids = {} BY <3>2 DEF OrderRow
    <3> HIDE DEF c
    <3>4. c # Take!NoOrder BY <3>3, <1>3
    <3> QED BY <3>3, <3>4, <1>5 DEF c
  <2>2. CASE s # Take!NoOrder
    <3>1. c = s BY <1>5, <2>2 DEF Take!Changed
    <3> HIDE DEF c, s
    <3> QED BY <3>1, <2>2, <1>1, <1>2, <1>5 DEF c, s
  <2> QED BY <2>1, <2>2
<1>6. CASE r.op = "add"
  <2>1. s.status = "PARKED" BY <1>6 DEF Take!IsAllowed
  <2>2. c = s \/ c = [s EXCEPT !.items = @ + 1] BY <1>6 DEF Take!Changed
  <2> HIDE DEF c, s
  <2>3. c \in OrderRow /\ c.status = s.status /\ c.voids = s.voids BY <1>1, <2>2 DEF OrderRow
  <2> QED BY <2>1, <2>3, <1>2, <1>3, <1>6 DEF c, s
<1>7. CASE r.op = "remove"
  <2>1. s.status = "PARKED" BY <1>7 DEF Take!IsAllowed
  <2>2. c = Take!NoOrder \/ c = [s EXCEPT !.items = @ - 1] BY <1>7 DEF Take!Changed
  <2> HIDE DEF c, s
  <2>3. c \in OrderRow /\ c.voids \subseteq s.voids /\ s.voids = {} BY <1>1, <1>2, <1>3, <2>1, <2>2 DEF OrderRow
  <2> QED BY <2>1, <2>3, <1>3, <1>7 DEF c, s
<1>8. CASE r.op = "complete"
  <2>1. s # Take!NoOrder BY <1>8 DEF Take!IsAllowed
  <2>2. c = [s EXCEPT !.status = "COMPLETED"] BY <1>8 DEF Take!Changed
  <2> HIDE DEF c, s
  <2>3. c \in OrderRow /\ c.status = "COMPLETED" /\ c.voids = s.voids BY <1>1, <2>2 DEF OrderRow
  <2> QED BY <2>1, <2>3, <1>2, <1>8 DEF c, s
<1>9. CASE r.op = "void"
  <2>1. s.status = "COMPLETED" /\ s.voids \subseteq {r.void} BY <1>9 DEF Take!IsAllowed
  <2>2. c = [s EXCEPT !.voids = @ \cup {r.void}] BY <1>9 DEF Take!Changed
  <2> HIDE DEF c, s
  <2>3. c \in OrderRow /\ c.status = "COMPLETED" /\ c.voids = s.voids \cup {r.void} BY <1>1, <1>9, <2>1, <2>2
       DEF OrderRow
  <2> QED BY <2>1, <2>3, <1>3, <1>9 DEF c, s
<1> QED BY <1>4, <1>5, <1>6, <1>7, <1>8, <1>9

(* The server creates the order once, changes it while it is open, and     *)
(* records one void.                                                       *)
LEMMA TakeServe ==
  ASSUME TakeInv, NEW t \in Tablet, Take!Serve(t)
  PROVE  TakeInv'
<1> USE DEF TakeTypes
<1>1. PICK r \in orderPage[t].pending :
        /\ r.reply = "none"
        /\ orders' = IF Take!IsAllowed(r) THEN [orders EXCEPT ![r.id] = Take!Changed(r)] ELSE orders
        /\ orderPage' = [orderPage EXCEPT ![t].pending =
                {[r EXCEPT !.reply = IF Take!IsAllowed(r) THEN "ok" ELSE "refused",
                           !.result = IF orders'[r.id] = Take!NoOrder THEN {}
                                      ELSE {[id |-> r.id, items |-> orders'[r.id].items,
                                        status |-> orders'[r.id].status]}]}]
        /\ UNCHANGED <<orderIds, taps, unsure>>
  BY DEF Take!Serve
<1> DEFINE i == r.id
           ok == Take!IsAllowed(r)
           res == IF orders'[i] = Take!NoOrder THEN {}
                  ELSE {[id |-> i, items |-> orders'[i].items, status |-> orders'[i].status]}
           rep == IF ok THEN "ok" ELSE "refused"
           q == [r EXCEPT !.reply = rep, !.result = res]
           p == [orderPage[t] EXCEPT !.pending = {q}]
<1>2. orderPage[t] \in PageRow /\ PageIsSound(orderPage[t], orderIds) /\ orderIds \in Nat BY DEF TakeInv
<1>3. r \in RequestRow /\ i \in Take!Id BY <1>2 DEF PageRow, RequestRow
<1>4. r.op = "void" => r.void \in Take!Id BY <1>2 DEF PageIsSound, PageRow
<1>5. OrdersAreSound /\ TakeTypes BY DEF TakeInv
<1>6. ok => /\ Take!Changed(r) \in OrderRow
            /\ r.op = "create" => Take!Changed(r) # Take!NoOrder
            /\ r.op # "create" => orders[i] # Take!NoOrder
            /\ \A v, w \in Take!Changed(r).voids : v = w
            /\ Take!Changed(r).status # "COMPLETED" => Take!Changed(r).voids = {}
            /\ Take!Changed(r).voids \subseteq orders[i].voids \cup (IF r.op = "void" THEN {r.void} ELSE {})
  BY <1>3, <1>4, <1>5, ChangedRow
<1>7. orderPage' = [orderPage EXCEPT ![t] = p] BY <1>1
<1>8. r.op = "create" => ok BY DEF Take!IsAllowed
<1>9. \A j \in Take!Id : orders'[j] = IF ok /\ j = i THEN Take!Changed(r) ELSE orders[j] BY <1>1, <1>3, <1>5
<1>10. orders' \in [Take!Id -> OrderRow] BY <1>1, <1>3, <1>5, <1>6
<1>11. res \subseteq SnapshotRow /\ (\A o \in res : o.id = i) /\ (res = {} <=> orders'[i] = Take!NoOrder)
  <2> DEFINE n == orders'[i]
  <2>1. n \in OrderRow BY <1>3, <1>10
  <2>2. res = IF n = Take!NoOrder THEN {} ELSE {[id |-> i, items |-> n.items, status |-> n.status]} OBVIOUS
  <2> HIDE DEF n, res, i
  <2>3. [id |-> i, items |-> n.items, status |-> n.status] \in SnapshotRow BY <2>1, <1>3 DEF SnapshotRow, OrderRow
  <2> QED BY <2>2, <2>3 DEF n
<1>12. rep = IF ok THEN "ok" ELSE "refused" OBVIOUS
<1> HIDE DEF ok, res, rep
<1>13. q \in RequestRow /\ q.op = r.op /\ q.id = i /\ q.void = r.void /\ q.reply = rep /\ q.result = res
  BY <1>3, <1>11, <1>12 DEF RequestRow
<1> HIDE DEF q
<1>14. p \in PageRow BY <1>2, <1>13 DEF PageRow
<1>15. /\ p.clientGeneratedId = orderPage[t].clientGeneratedId /\ p.order = orderPage[t].order
       /\ p.parkedOrders = orderPage[t].parkedOrders
       /\ p.voidId = orderPage[t].voidId /\ p.tried = orderPage[t].tried /\ p.pending = {q}
  BY <1>2 DEF PageRow
<1> HIDE DEF p, i
<1>16. \A u \in Tablet : orderPage'[u] = IF u = t THEN p ELSE orderPage[u] BY <1>7, <1>5
<1>17. TakeTypes'
  <2>1. orderPage' \in [Tablet -> PageRow] BY <1>5, <1>7, <1>14
  <2> QED BY <1>1, <1>5, <1>10, <2>1
<1>18. r.id = i /\ i = orderPage[t].clientGeneratedId BY <1>2 DEF PageIsSound, i
<1>19. r.op = "create" => res # {} BY <1>3, <1>6, <1>8, <1>9, <1>11
<1>20. PageIsSound(p, orderIds)
  BY <1>2, <1>8, <1>11, <1>12, <1>13, <1>15, <1>18, <1>19 DEF PageIsSound
<1>21. \A u \in Tablet : PageIsSound(orderPage'[u], orderIds') BY <1>1, <1>16, <1>20 DEF TakeInv
<1>22. OrdersAreSound'
  <2> SUFFICES ASSUME NEW j \in Take!Id
               PROVE  /\ j > orderIds => orders'[j] = Take!NoOrder
                      /\ \A v, w \in orders'[j].voids : v = w
                      /\ orders'[j].status # "COMPLETED" => orders'[j].voids = {}
    BY <1>1 DEF OrdersAreSound
  <2>1. i <= orderIds BY <1>2, <1>18 DEF PageIsSound
  <2>2. CASE ok /\ j = i BY <2>1, <2>2, <1>2, <1>6, <1>9 DEF Take!Id
  <2>3. CASE ~(ok /\ j = i) BY <2>3, <1>5, <1>9 DEF OrdersAreSound
  <2> QED BY <2>2, <2>3
<1>23. ClaimsAreSingle'
  <2> SUFFICES ASSUME NEW j \in Take!Id \ unsure, NEW u \in Tablet, PageClaims(orderPage'[u], j)
               PROVE  orders'[j] = Take!NoOrder /\ \A w \in Tablet : PageClaims(orderPage'[w], j) => w = u
    BY <1>1 DEF ClaimsAreSingle, Claims
  <2>1. PageClaims(p, j) => j = i /\ ok /\ r.op # "create" /\ orders'[i] = Take!NoOrder
    <3> SUFFICES ASSUME PageClaims(p, j) PROVE j = i /\ ok /\ r.op # "create" /\ orders'[i] = Take!NoOrder OBVIOUS
    <3>1. j = i BY <1>15, <1>18 DEF PageClaims
    <3>2. CASE p.order = {} /\ \A x \in p.pending : x.op = "create" => x.reply = "none"
      <4>1. r.op = "create" BY <3>2, <1>2, <1>15 DEF PageIsSound
      <4>2. q.reply # "none" /\ q.op = "create" /\ q \in p.pending BY <4>1, <1>12, <1>13, <1>15
      <4> QED BY <4>2, <3>2
    <3>3. CASE \E x \in p.pending : x.reply = "ok" /\ x.result = {}
      <4>1. rep = "ok" /\ res = {} BY <3>3, <1>13, <1>15
      <4> QED BY <4>1, <3>1, <1>11, <1>12, <1>19
    <3> QED BY <3>2, <3>3 DEF PageClaims
  <2>2. \A w \in Tablet : w # t /\ PageClaims(orderPage'[w], j) => Claims(w, j) BY <1>16 DEF Claims
  <2>3. \A w \in Tablet : Claims(w, j) => orders[j] = Take!NoOrder BY DEF TakeInv, ClaimsAreSingle
  <2>4. CASE j = i /\ ok /\ r.op # "create"
    <3>1. orders[j] # Take!NoOrder BY <2>4, <1>6
    <3>2. \A w \in Tablet : PageClaims(orderPage'[w], j) => w = t BY <2>2, <2>3, <3>1
    <3> QED BY <3>2, <2>1, <2>4, <1>16
  <2>5. CASE j = i /\ r.op = "create"
    <3>1. \A x \in orderPage[t].pending : x.op = "create"  BY <2>5, <1>2 DEF PageIsSound
    <3>2. Claims(t, j)
      <4>1. orderPage[t].order = {} BY <2>5, <1>2 DEF PageIsSound
      <4>2. \A x \in orderPage[t].pending : x.reply = "none" BY <1>1, <1>2 DEF PageIsSound
      <4> QED BY <4>1, <4>2, <2>5, <1>18 DEF Claims, PageClaims
    <3> QED BY <3>2, <2>1, <2>2, <2>5, <1>16 DEF TakeInv, ClaimsAreSingle
  <2>6. CASE ~(j = i /\ ok) /\ ~(j = i /\ r.op = "create")
    <3>1. orders'[j] = orders[j] BY <2>6, <1>9
    <3>2. u # t BY <2>1, <2>6, <1>16
    <3>3. Claims(u, j) BY <2>2, <3>2
    <3>4. \A w \in Tablet : PageClaims(orderPage'[w], j) => w # t BY <2>1, <2>6, <1>16
    <3> QED BY <2>2, <2>3, <3>1, <3>3, <3>4 DEF TakeInv, ClaimsAreSingle
  <2> QED BY <2>4, <2>5, <2>6
<1>24. VoidIdsAreApart' BY <1>15, <1>16 DEF TakeInv, VoidIdsAreApart
<1>25. Take!VoidsAreReplayed'
  <2> SUFFICES ASSUME NEW u \in Tablet, NEW x \in orderPage'[u].pending, x.op = "void", x.reply = "refused"
               PROVE  orders'[x.id].voids \cap orderPage'[u].tried = {}
    BY DEF Take!VoidsAreReplayed
  <2>1. CASE u = t
    <3>1. x = q /\ ~ok /\ x.id = i /\ r.op = "void" BY <2>1, <1>12, <1>13, <1>15, <1>16
    <3>2. orderPage[t].voidId = {r.void} BY <3>1, <1>2 DEF PageIsSound
    <3>3. orderPage'[t].tried \subseteq {r.void} BY <3>2, <1>2, <1>15, <1>16 DEF PageIsSound
    <3>4. orders'[i] = orders[i] BY <3>1, <1>3, <1>9 DEF i
    <3>5. ~(orders[i].status = "COMPLETED" /\ orders[i].voids \subseteq {r.void})
      BY <3>1, <1>18 DEF ok, Take!IsAllowed
    <3>6. r.void \notin orders[i].voids
      BY <3>5, <1>5, <1>3 DEF OrdersAreSound, i
    <3> QED BY <2>1, <3>1, <3>3, <3>4, <3>6
  <2>2. CASE u # t
    <3>1. x \in orderPage[u].pending /\ orderPage'[u] = orderPage[u] BY <2>2, <1>16
    <3>2. PageIsSound(orderPage[u], orderIds) /\ x.id \in Take!Id BY <3>1 DEF TakeInv, PageRow, RequestRow
    <3>3. orders[x.id].voids \cap orderPage[u].tried = {} BY <3>1 DEF TakeInv, Take!VoidsAreReplayed
    <3>4. CASE ok /\ x.id = i
      <4>1. orders'[i].voids \subseteq orders[i].voids \cup (IF r.op = "void" THEN {r.void} ELSE {})
        BY <3>4, <3>2, <1>6, <1>9
      <4>2. r.op = "void" => r.void \notin orderPage[u].voidId
        <5>1. r.op = "void" => r.void \in orderPage[t].voidId BY <1>2 DEF PageIsSound
        <5> QED BY <5>1, <2>2 DEF TakeInv, VoidIdsAreApart
      <4>3. orderPage[u].tried \subseteq orderPage[u].voidId BY <3>2 DEF PageIsSound
      <4> QED BY <3>1, <3>3, <3>4, <4>1, <4>2, <4>3
    <3>5. CASE ~(ok /\ x.id = i)
      <4>1. orders'[x.id] = orders[x.id] BY <3>5, <3>2, <1>9
      <4> QED BY <4>1, <3>1, <3>3
    <3> QED BY <3>4, <3>5
  <2> QED BY <2>1, <2>2
<1> QED BY <1>17, <1>21, <1>22, <1>23, <1>24, <1>25 DEF TakeInv

(* What the cashier does: a tap on the menu, on an item, on Charge or on   *)
(* Void.                                                                   *)
LEMMA TakeNext ==
  ASSUME TakeInv, NEW t \in Tablet,
         Take!AddVariant(t) \/ Take!RemoveItem(t) \/ Take!Charge(t) \/ Take!Void(t)
  PROVE  TakeInv'
<1>1. orderPage[t] \in PageRow /\ PageIsSound(orderPage[t], orderIds) /\ orderIds \in Nat BY DEF TakeInv, TakeTypes
<1>2. \A o \in orderPage[t].order : o.id = orderPage[t].clientGeneratedId BY <1>1 DEF PageIsSound
<1>3. CASE Take!AddVariant(t)
  <2>1. CASE orderPage[t].order = {}
    <3>1. Take!Send(t, "create", orderPage[t].clientGeneratedId, 0) /\ orderIds' = orderIds BY <1>3, <2>1
         DEF Take!AddVariant
    <3> QED BY <3>1, <2>1, TakeSend
  <2>2. CASE orderPage[t].order # {}
    <3>1. Take!Send(t, "add", orderPage[t].clientGeneratedId, 0) /\ orderIds' = orderIds BY <1>2, <1>3, <2>2
         DEF Take!AddVariant
    <3> QED BY <3>1, <2>2, TakeSend
  <2> QED BY <2>1, <2>2
<1>4. CASE Take!RemoveItem(t)
  <2>1. Take!Send(t, "remove", orderPage[t].clientGeneratedId, 0) /\ orderIds' = orderIds /\ orderPage[t].order # {}
    BY <1>2, <1>4 DEF Take!RemoveItem
  <2> QED BY <2>1, TakeSend
<1>5. CASE Take!Charge(t)
  <2>1. Take!Send(t, "complete", orderPage[t].clientGeneratedId, 0) /\ orderIds' = orderIds /\ orderPage[t].order # {}
    BY <1>2, <1>5 DEF Take!Charge
  <2> QED BY <2>1, TakeSend
<1>6. CASE Take!Void(t)
  <2>1. PICK o \in orderPage[t].order, v \in Take!VoidId(t) :
          /\ v \in Take!Id /\ Take!Send(t, "void", o.id, v) /\ orderIds' = IF v = Take!NextId THEN v ELSE orderIds
    BY <1>6 DEF Take!Void
  <2>2. o.id = orderPage[t].clientGeneratedId /\ orderPage[t].order # {} BY <1>2
  <2>3. (orderPage[t].voidId = {v} /\ v <= orderIds) \/ (orderPage[t].voidId = {} /\ v = orderIds + 1)
    <3>1. \A x, y \in orderPage[t].voidId : x = y /\ x <= orderIds BY <1>1 DEF PageIsSound
    <3> QED BY <3>1 DEF Take!VoidId, Take!NextId
  <2>4. orderIds' = IF v > orderIds THEN v ELSE orderIds
    BY <1>1, <2>1, <2>3 DEF Take!NextId, Take!Id
  <2>5. orderPage[t].voidId = {v} \/ (orderPage[t].voidId = {} /\ v > orderIds) BY <2>3, <1>1
  <2>6. Take!Send(t, "void", orderPage[t].clientGeneratedId, v) BY <2>1, <2>2
  <2> HIDE DEF Take!VoidId, Take!NextId
  <2> QED BY <2>1, <2>2, <2>4, <2>5, <2>6, TakeSend
<1> QED BY <1>3, <1>4, <1>5, <1>6

(* The invariant of the order pages, by induction over the steps above.    *)
THEOREM TakeInvariant == Take!Spec => []TakeInv
<1>1. TakeInv /\ [Take!Next]_(Take!vars) => TakeInv'
  <2> SUFFICES ASSUME TakeInv, [Take!Next]_(Take!vars) PROVE TakeInv' OBVIOUS
  <2>1. CASE UNCHANGED Take!vars
    BY <2>1 DEF Take!vars, TakeInv, TakeTypes, OrdersAreSound, ClaimsAreSingle, Claims, VoidIdsAreApart,
         Take!VoidsAreReplayed
  <2>2. ASSUME NEW t \in Tablet, Take!AddVariant(t) \/ Take!RemoveItem(t) \/ Take!Charge(t) \/ Take!Void(t)
        PROVE TakeInv'
    BY <2>2, TakeNext
  <2>3. ASSUME NEW t \in Tablet, Take!ParkOrStartNew(t) \/ Take!Reload(t) PROVE TakeInv'
    BY <2>3, TakeNewDraft DEF Take!ParkOrStartNew, Take!Reload
  <2>4. ASSUME NEW t \in Tablet, Take!Resume(t) \/ Take!Serve(t) \/ Take!Answered(t) \/ Take!Lost(t) PROVE TakeInv'
    BY <2>4, TakeResume, TakeServe, TakeAnswered, TakeLost
  <2> QED BY <2>1, <2>2, <2>3, <2>4 DEF Take!Next
<1> QED BY <1>1, TakeInit, PTL DEF Take!Spec

(* The invariant gives the properties of the page that takes orders.       *)
THEOREM TakeOrderHolds == Take!Spec => []Take!TakeOrderInv
<1>1. TakeInv => Take!TakeOrderInv
  <2> SUFFICES ASSUME TakeInv PROVE Take!TakeOrderInv OBVIOUS
  <2>1. Take!IdNamesTheOrder BY DEF TakeInv, PageIsSound, Take!IdNamesTheOrder
  <2>2. Take!FirstItemStartsAnOrder
    <3> SUFFICES ASSUME NEW t \in Tablet, Take!IsIdle(t), orderPage[t].order = {},
                          orderPage[t].clientGeneratedId \notin unsure
                 PROVE  orders[orderPage[t].clientGeneratedId] = Take!NoOrder
      BY DEF Take!FirstItemStartsAnOrder
    <3>1. orderPage[t].clientGeneratedId \in Take!Id BY DEF TakeInv, TakeTypes, PageRow
    <3>2. Claims(t, orderPage[t].clientGeneratedId) BY DEF Claims, PageClaims, Take!IsIdle
    <3> QED BY <3>1, <3>2 DEF TakeInv, ClaimsAreSingle
  <2> QED BY <2>1, <2>2 DEF TakeInv, Take!TakeOrderInv
<1> QED BY <1>1, TakeInvariant, PTL
-----------------------------------------------------------------------------
(* CountSheet: the count sheet and the movements of stock.                 *)

CountText == Typed \cup {""} \cup {LastClosing[i] : i \in DOMAIN LastClosing}
CountLines == UNION {[S -> [value : CountText, note : {"", "note"}]] : S \in SUBSET Item}
CountRow == [lines : CountLines, corrects : Nat]
CountRequest == [lines : CountLines, corrects : Nat, reply : {"none", "ok", "refused"}, id : Nat]
SheetRequest == CountRequest \cup [reply : {"none", "ok"}, id : Nat]
SheetPage ==
  [values : [Item -> CountText], fillState : [Item -> {"", "filled", "touched"}], itemNotes : [Item -> {"", "note"}],
   status : {"loading", "ready", "failed"}, items : SUBSET Item, submitted : Nat, recordingAnother : BOOLEAN,
   sending : SUBSET SheetRequest, entries : Seq(Nat)]

SheetTypes ==
  /\ active \subseteq Item /\ sheets \in Seq(CountRow) /\ moves \in Nat /\ sheetPage \in SheetPage
SheetInv ==
  /\ SheetTypes /\ Sheet!CountSheetInv
  /\ sheetPage.sending # {} => sheetPage.status = "ready"
  /\ \A r \in sheetPage.sending : sheetScreen = "count" => r \in CountRequest
  /\ \A r \in sheetPage.sending : sheetScreen = "movements" /\ r.reply # "none" =>
       r.id \in 1 .. moves /\ \A j \in DOMAIN sheetPage.entries : sheetPage.entries[j] < r.id

(* A page whose draft is discarded is blank and otherwise as it was.       *)
LEMMA Emptied ==
  ASSUME NEW p \in SheetPage
  PROVE  /\ Sheet!NoDraft(p) \in SheetPage
         /\ Sheet!NoDraft(p).values = Sheet!Blank /\ Sheet!NoDraft(p).fillState = Sheet!Blank
         /\ Sheet!NoDraft(p).itemNotes = Sheet!Blank
         /\ Sheet!NoDraft(p).status = p.status /\ Sheet!NoDraft(p).items = p.items
         /\ Sheet!NoDraft(p).submitted = p.submitted
         /\ Sheet!NoDraft(p).recordingAnother = p.recordingAnother /\ Sheet!NoDraft(p).sending = p.sending
         /\ Sheet!NoDraft(p).entries = p.entries
<1>1. Sheet!Blank \in [Item -> CountText] /\ Sheet!Blank \in [Item -> {"", "filled", "touched"}] /\
        Sheet!Blank \in [Item -> {"", "note"}]
  BY DEF Sheet!Blank, CountText
<1> HIDE DEF Sheet!Blank
<1> QED BY <1>1 DEF Sheet!NoDraft, SheetPage

(* A page as it is opened is blank, and loading.                           *)
LEMMA FreshPage ==
  /\ Sheet!Fresh \in SheetPage /\ Sheet!Fresh.values = Sheet!Blank /\ Sheet!Fresh.fillState = Sheet!Blank
  /\ Sheet!Fresh.itemNotes = Sheet!Blank
  /\ Sheet!Fresh.status = "loading" /\ Sheet!Fresh.items = {} /\ Sheet!Fresh.submitted = 0
  /\ Sheet!Fresh.recordingAnother = FALSE
  /\ Sheet!Fresh.sending = {} /\ Sheet!Fresh.entries = <<>>
<1>1. Sheet!Blank \in [Item -> CountText] /\ Sheet!Blank \in [Item -> {"", "filled", "touched"}] /\
        Sheet!Blank \in [Item -> {"", "note"}]
  BY DEF Sheet!Blank, CountText
<1> HIDE DEF Sheet!Blank
<1>2. <<>> \in Seq(Nat) OBVIOUS
<1>3. Sheet!Fresh \in SheetPage BY <1>1, <1>2 DEF Sheet!Fresh, SheetPage
<1> QED BY <1>3 DEF Sheet!Fresh

(* What the page keeps to while its draft is kept or emptied and nothing is sent. *)
LEMMA PageKeepsInv ==
  ASSUME SheetInv, sheetPage' \in SheetPage, active' \subseteq Item, sheets' \in Seq(CountRow), moves' \in Nat,
           moves' >= moves,
         \/ sheetPage'.values = sheetPage.values /\ sheetPage'.itemNotes = sheetPage.itemNotes /\
              sheetPage'.fillState = sheetPage.fillState
         \/ sheetPage'.values = Sheet!Blank /\ sheetPage'.itemNotes = Sheet!Blank /\ sheetPage'.fillState = Sheet!Blank,
         sheetPage'.sending = {} \/ (sheetPage'.submitted = sheetPage.submitted /\
           sheetPage'.status = sheetPage.status /\ sheetScreen' = sheetScreen
                                     /\ sheetPage'.entries = sheetPage.entries /\
                                          sheetPage'.sending = sheetPage.sending),
         sheetPage'.entries = sheetPage.entries \/ sheetPage'.entries = <<>>
  PROVE  SheetInv'
<1> USE DEF SheetInv, Sheet!CountSheetInv, SheetTypes
<1>1. Sheet!NotesAreSent' BY DEF Sheet!NotesAreSent, Sheet!Blank
<1>2. Sheet!MarksAreTrue' BY DEF Sheet!MarksAreTrue, Sheet!Blank
<1>3. Sheet!AnotherIsACorrection' BY DEF Sheet!AnotherIsACorrection
<1>4. Sheet!EntriesAreStored'
  <2>1. sheetPage.entries \in Seq(Nat) BY DEF SheetPage
  <2>2. CASE sheetPage'.entries = <<>> BY <2>2 DEF Sheet!EntriesAreStored
  <2>3. CASE sheetPage'.entries = sheetPage.entries
    <3>1. \A j \in DOMAIN sheetPage.entries : sheetPage.entries[j] \in Nat BY <2>1
    <3> QED BY <2>3, <3>1 DEF Sheet!EntriesAreStored
  <2> QED BY <2>2, <2>3
<1>5. /\ sheetPage'.sending # {} => sheetPage'.status = "ready"
      /\ \A r \in sheetPage'.sending : sheetScreen' = "count" => r \in CountRequest
  OBVIOUS
<1>6. \A r \in sheetPage'.sending : sheetScreen' = "movements" /\ r.reply # "none" =>
       r.id \in 1 .. moves' /\ \A j \in DOMAIN sheetPage'.entries : sheetPage'.entries[j] < r.id
  OBVIOUS
<1> QED BY <1>1, <1>2, <1>3, <1>4, <1>5, <1>6

(* The count sheet as it is first opened.                                  *)
LEMMA SheetInit == Sheet!Init => SheetInv
<1> SUFFICES ASSUME Sheet!Init PROVE SheetInv OBVIOUS
<1> USE DEF Sheet!Init
<1>1. SheetTypes BY FreshPage DEF SheetTypes
<1>2. Sheet!CountSheetInv
  <2>1. Sheet!NotesAreSent /\ Sheet!MarksAreTrue BY FreshPage DEF Sheet!NotesAreSent, Sheet!MarksAreTrue, Sheet!Blank
  <2>2. Sheet!AnotherIsACorrection BY FreshPage DEF Sheet!AnotherIsACorrection
  <2>3. sheetPage.entries = <<>> BY FreshPage
  <2>4. Sheet!EntriesAreStored BY <2>3 DEF Sheet!EntriesAreStored
  <2> QED BY <2>1, <2>2, <2>4 DEF Sheet!CountSheetInv
<1> QED BY <1>1, <1>2, FreshPage DEF SheetInv

(* The page loaded: what is listed is stored, newest first. *)
LEMMA ListedEntries ==
  ASSUME moves \in Nat
  PROVE  LET e == [k \in 1 .. moves |-> moves - k + 1] IN
         /\ e \in Seq(Nat) /\ DOMAIN e = 1 .. moves /\ \A j \in 1 .. moves : e[j] = moves - j + 1
<1> DEFINE e == [k \in 1 .. moves |-> moves - k + 1]
<1>1. e \in [1 .. moves -> Nat] OBVIOUS
<1> QED BY <1>1

(* The sheet loads, or fails to load and is tried again.                   *)
LEMMA SheetLoad ==
  ASSUME SheetInv, Sheet!Loaded \/ Sheet!LoadFailed \/ Sheet!Retry PROVE SheetInv'
<1> USE DEF SheetInv, SheetTypes
<1>1. sheetPage.sending = {} BY DEF Sheet!Loaded, Sheet!LoadFailed, Sheet!Retry
<1>2. CASE Sheet!Loaded
  <2> DEFINE e == [k \in 1 .. moves |-> moves - k + 1]
             n == Len(sheets)
  <2>1. sheetPage' = [sheetPage EXCEPT !.status = "ready", !.items = active, !.submitted = n, !.entries = e]
    BY <1>2 DEF Sheet!Loaded
  <2>2. e \in Seq(Nat) /\ DOMAIN e = 1 .. moves /\ (\A j \in 1 .. moves : e[j] = moves - j + 1) /\ n \in Nat
    BY ListedEntries
  <2> HIDE DEF e, n
  <2>3. /\ sheetPage' \in SheetPage /\ sheetPage'.values = sheetPage.values
        /\ sheetPage'.itemNotes = sheetPage.itemNotes
        /\ sheetPage'.fillState = sheetPage.fillState /\ sheetPage'.sending = {} /\ sheetPage'.entries = e
    BY <1>1, <2>1, <2>2 DEF SheetPage
  <2>4. UNCHANGED <<active, sheets, moves, sheetScreen>> BY <1>2 DEF Sheet!Loaded
  <2>5. SheetTypes' BY <2>3, <2>4
  <2>6. Sheet!NotesAreSent' /\ Sheet!MarksAreTrue' /\ Sheet!AnotherIsACorrection'
    BY <2>3 DEF Sheet!CountSheetInv, Sheet!NotesAreSent, Sheet!MarksAreTrue, Sheet!AnotherIsACorrection
  <2>7. Sheet!EntriesAreStored' BY <2>2, <2>3, <2>4 DEF Sheet!EntriesAreStored
  <2> QED BY <2>3, <2>5, <2>6, <2>7 DEF Sheet!CountSheetInv
<1>3. CASE Sheet!LoadFailed \/ Sheet!Retry
  <2>1. PICK s \in {"loading", "failed"} : sheetPage' = [sheetPage EXCEPT !.status = s] /\
               UNCHANGED <<active, sheets, moves, sheetScreen>>
    BY <1>3 DEF Sheet!LoadFailed, Sheet!Retry
  <2>2. /\ sheetPage' \in SheetPage /\ sheetPage'.values = sheetPage.values
        /\ sheetPage'.itemNotes = sheetPage.itemNotes
        /\ sheetPage'.fillState = sheetPage.fillState /\ sheetPage'.sending = {}
        /\ sheetPage'.entries = sheetPage.entries
    BY <1>1, <2>1 DEF SheetPage
  <2>3. moves' >= moves /\ moves' \in Nat /\ active' \subseteq Item /\ sheets' \in Seq(CountRow) BY <2>1
  <2> HIDE DEF SheetInv, SheetTypes
  <2> QED BY <2>2, <2>3, PageKeepsInv
<1> QED BY <1>2, <1>3

(* A change of the draft, while nothing is sent.                           *)
LEMMA DraftChanges ==
  ASSUME SheetInv, sheetPage.sending = {}, UNCHANGED <<active, sheets, moves, sheetScreen>>,
         sheetPage'.sending = {}, sheetPage'.entries = sheetPage.entries, sheetPage' \in SheetPage, Sheet!NotesAreSent',
           Sheet!MarksAreTrue'
  PROVE  SheetInv'
<1> USE DEF SheetInv, SheetTypes
<1>1. SheetTypes' OBVIOUS
<1>2. Sheet!AnotherIsACorrection' BY DEF Sheet!AnotherIsACorrection
<1>3. Sheet!EntriesAreStored' BY DEF Sheet!CountSheetInv, Sheet!EntriesAreStored
<1> QED BY <1>1, <1>2, <1>3 DEF Sheet!CountSheetInv

(* Some of the fields are filled, in a page that waits for nothing.        *)
LEMMA SheetFill ==
  ASSUME SheetInv, sheetPage.sending = {}, UNCHANGED <<active, sheets, moves, sheetScreen>>,
         NEW S \in SUBSET Item, sheetPage' = Sheet!Filled(S), \A j \in S : Sheet!IsFillable(j)
  PROVE  SheetInv'
<1>9. sheetPage \in SheetPage /\ Sheet!NotesAreSent /\ Sheet!MarksAreTrue BY DEF SheetInv, SheetTypes,
     Sheet!CountSheetInv
  <1> DEFINE vs == [j \in Item |-> IF j \in S THEN LastClosing[j] ELSE sheetPage.values[j]]
             fs == [j \in Item |-> IF j \in S THEN "filled" ELSE sheetPage.fillState[j]]
  <1>1. sheetPage' = [sheetPage EXCEPT !.values = vs, !.fillState = fs] BY DEF Sheet!Filled
  <1>2. \A j \in S : j \in DOMAIN LastClosing /\ sheetPage.values[j] = "" BY DEF Sheet!IsFillable
  <1>3. vs \in [Item -> CountText] /\ fs \in [Item -> {"", "filled", "touched"}]
    BY <1>9, <1>2 DEF CountText, SheetPage
  <1>4. \A j \in Item : /\ vs[j] = (IF j \in S THEN LastClosing[j] ELSE sheetPage.values[j])
                        /\ fs[j] = (IF j \in S THEN "filled" ELSE sheetPage.fillState[j])
    OBVIOUS
  <1> HIDE DEF vs, fs
  <1>5. /\ sheetPage' \in SheetPage /\ sheetPage'.values = vs /\ sheetPage'.itemNotes = sheetPage.itemNotes
        /\ sheetPage'.fillState = fs /\ sheetPage'.sending = {} /\ sheetPage'.entries = sheetPage.entries
    BY <1>9, <1>1, <1>3 DEF SheetPage
  <1>6. Sheet!NotesAreSent' BY <1>9, <1>2, <1>4, <1>5 DEF Sheet!NotesAreSent
  <1>7. Sheet!MarksAreTrue' BY <1>9, <1>4, <1>5 DEF Sheet!MarksAreTrue
  <1> QED BY <1>5, <1>6, <1>7, DraftChanges

(* The form. *)
LEMMA SheetEdit ==
  ASSUME SheetInv, NEW i \in Item, NEW v \in Typed \cup {""},
           Sheet!ChangeNote(i) \/ Sheet!FillItem(i) \/ Sheet!ChangeValue(i, v)
  PROVE  SheetInv'
<1>1. /\ sheetPage.sending = {} /\ UNCHANGED <<active, sheets, moves, sheetScreen>> /\ sheetPage \in SheetPage
      /\ Sheet!NotesAreSent /\ Sheet!MarksAreTrue
  BY DEF Sheet!ChangeNote, Sheet!FillItem, Sheet!ChangeValue, Sheet!Edit, Sheet!CountSheetInv, SheetInv, SheetTypes
<1>3. CASE Sheet!ChangeNote(i)
  <2>1. sheetPage' = [sheetPage EXCEPT !.itemNotes[i] = "note"] /\ sheetPage.values[i] # "" BY <1>3
       DEF Sheet!ChangeNote
  <2>2. /\ sheetPage' \in SheetPage /\ sheetPage'.values = sheetPage.values
        /\ sheetPage'.itemNotes = [sheetPage.itemNotes EXCEPT ![i] = "note"]
        /\ sheetPage'.fillState = sheetPage.fillState /\ sheetPage'.sending = {}
        /\ sheetPage'.entries = sheetPage.entries
    BY <1>1, <2>1 DEF SheetPage
  <2>3. sheetPage.itemNotes \in [Item -> {"", "note"}] BY <1>1 DEF SheetPage
  <2>4. Sheet!NotesAreSent' BY <1>1, <2>1, <2>2, <2>3 DEF Sheet!NotesAreSent
  <2>5. Sheet!MarksAreTrue' BY <1>1, <2>2 DEF Sheet!MarksAreTrue
  <2> QED BY <1>1, <2>2, <2>4, <2>5, DraftChanges
<1>5. CASE Sheet!FillItem(i)
  <2>1. {i} \in SUBSET Item /\ \A j \in {i} : Sheet!IsFillable(j) BY <1>5 DEF Sheet!FillItem
  <2>2. sheetPage' = Sheet!Filled({i}) BY <1>5 DEF Sheet!FillItem
  <2> QED BY <1>1, <2>1, <2>2, SheetFill
<1>7. CASE Sheet!ChangeValue(i, v)
  <2> DEFINE n == Sheet!NoteAfter(i, v)
  <2>1. sheetPage' = [sheetPage EXCEPT !.values[i] = v, !.fillState[i] = "touched", !.itemNotes[i] = n] BY <1>7
       DEF Sheet!ChangeValue
  <2>2. n \in {"", "note"} /\ (v = "" => n = "") BY <1>1 DEF Sheet!NoteAfter, SheetPage
  <2>8. v \in CountText BY DEF CountText
  <2> HIDE DEF n
  <2>3. /\ sheetPage' \in SheetPage /\ sheetPage'.values = [sheetPage.values EXCEPT ![i] = v]
        /\ sheetPage'.itemNotes = [sheetPage.itemNotes EXCEPT ![i] = n]
        /\ sheetPage'.fillState = [sheetPage.fillState EXCEPT ![i] = "touched"] /\ sheetPage'.sending = {}
        /\ sheetPage'.entries = sheetPage.entries
    BY <1>1, <2>1, <2>2, <2>8 DEF SheetPage
  <2>4. sheetPage.itemNotes \in [Item -> {"", "note"}] /\ sheetPage.values \in [Item -> CountText]
        /\ sheetPage.fillState \in [Item -> {"", "filled", "touched"}]
    BY <1>1 DEF SheetPage
  <2>5. Sheet!NotesAreSent' BY <1>1, <2>2, <2>3, <2>4 DEF Sheet!NotesAreSent
  <2>6. Sheet!MarksAreTrue' BY <1>1, <2>3, <2>4 DEF Sheet!MarksAreTrue
  <2> QED BY <1>1, <2>3, <2>5, <2>6, DraftChanges
<1> QED BY <1>3, <1>5, <1>7

(* The count or the movements are opened anew.                             *)
LEMMA SheetOpen ==
  ASSUME SheetInv, NEW s \in {"count", "movements"}, Sheet!Open(s) PROVE SheetInv'
<1>1. sheetPage' = Sheet!Fresh /\ UNCHANGED <<active, sheets, moves>> BY DEF Sheet!Open
<1>2. active \subseteq Item /\ sheets \in Seq(CountRow) /\ moves \in Nat BY DEF SheetInv, SheetTypes
<1> QED BY <1>1, <1>2, FreshPage, PageKeepsInv

(* After a count, another is begun.                                        *)
LEMMA SheetRecordAnother ==
  ASSUME SheetInv, Sheet!RecordAnother PROVE SheetInv'
<1> DEFINE p == [sheetPage EXCEPT !.recordingAnother = TRUE]
<1>1. sheetPage' = Sheet!NoDraft(p) /\ UNCHANGED <<active, sheets, moves, sheetScreen>> BY DEF Sheet!RecordAnother
<1>2. sheetPage \in SheetPage /\ active \subseteq Item /\ sheets \in Seq(CountRow) /\ moves \in Nat BY DEF SheetInv,
     SheetTypes
<1>3. /\ p \in SheetPage /\ p.submitted = sheetPage.submitted /\ p.status = sheetPage.status
      /\ p.entries = sheetPage.entries
      /\ p.sending = sheetPage.sending
  BY <1>2 DEF SheetPage
<1> HIDE DEF p
<1> QED BY <1>1, <1>2, <1>3, Emptied, PageKeepsInv

(* A count or a movement is recorded by others, or an item is retired.     *)
LEMMA SheetElsewhere ==
  ASSUME SheetInv,
           Sheet!CountedElsewhere \/ Sheet!MovedElsewhere \/ \E i \in Item : Sheet!Deactivate(i) PROVE SheetInv'
<1>1. sheetPage \in SheetPage /\ active \subseteq Item /\ sheets \in Seq(CountRow) /\ moves \in Nat BY DEF SheetInv,
     SheetTypes
<1>2. UNCHANGED <<sheetScreen, sheetPage>> /\ moves' \in Nat /\ moves' >= moves /\ active' \subseteq Item
  <2>1. CASE Sheet!CountedElsewhere
    <3>1. PICK c \in 0 .. Len(sheets), i \in active, v \in Typed :
            UNCHANGED <<active, moves, sheetScreen, sheetPage, sheetEdits>>
      BY <2>1, Zenon DEF Sheet!CountedElsewhere
    <3> QED BY <1>1, <3>1
  <2>2. CASE Sheet!MovedElsewhere BY <1>1, <2>2 DEF Sheet!MovedElsewhere
  <2>3. CASE \E i \in Item : Sheet!Deactivate(i) BY <1>1, <2>3 DEF Sheet!Deactivate
  <2> QED BY <2>1, <2>2, <2>3
<1>3. sheets' \in Seq(CountRow)
  <2>1. CASE Sheet!CountedElsewhere
    <3>1. PICK c \in 0 .. Len(sheets), i \in active, v \in Typed :
            sheets' = Sheet!Stored([lines |-> [j \in {i} |-> [value |-> v, note |-> ""]], corrects |-> c])
      BY <2>1 DEF Sheet!CountedElsewhere
    <3> DEFINE l == [j \in {i} |-> [value |-> v, note |-> ""]]
    <3>2. l \in [{i} -> [value : CountText, note : {"", "note"}]] /\ {i} \in SUBSET Item BY <1>1 DEF CountText
    <3>3. l \in CountLines BY <3>2 DEF CountLines
    <3> HIDE DEF l
    <3>4. [lines |-> l, corrects |-> c] \in CountRow BY <3>3 DEF CountRow
    <3>5. sheets' = Append(sheets, [lines |-> l, corrects |-> c]) BY <3>1 DEF l, Sheet!Stored
    <3> QED BY <1>1, <3>4, <3>5
  <2>2. CASE ~Sheet!CountedElsewhere BY <1>1, <2>2 DEF Sheet!MovedElsewhere, Sheet!Deactivate
  <2> QED BY <2>1, <2>2
<1> HIDE DEF SheetInv
<1> QED BY <1>1, <1>2, <1>3, PageKeepsInv

(* The count, or a movement, is sent.                                      *)
LEMMA SheetSubmit ==
  ASSUME SheetInv, Sheet!Submit \/ Sheet!SendMovement PROVE SheetInv'
<1> USE DEF SheetInv, SheetTypes
<1>1. sheetPage \in SheetPage /\ UNCHANGED <<active, sheets, moves, sheetScreen>> /\ sheetPage.status = "ready"
  BY DEF Sheet!Submit, Sheet!SendMovement, Sheet!IsShown
<1>2. PICK r \in SheetRequest :
        /\ sheetPage' = [sheetPage EXCEPT !.sending = {r}]
        /\ sheetScreen = "count" /\ sheetPage.submitted # 0 => r.corrects = sheetPage.submitted
        /\ r.reply = "none"
        /\ sheetScreen = "count" => r \in CountRequest
  <2>1. CASE Sheet!Submit
    <3> DEFINE l == Sheet!Lines
               c == Sheet!Corrects
               r == [lines |-> l, corrects |-> c, reply |-> "none", id |-> 0]
    <3>1. sheetPage' = [sheetPage EXCEPT !.sending = {r}] BY <2>1 DEF Sheet!Submit
    <3>2. l \in CountLines
      <4>1. l \in [{j \in sheetPage.items : sheetPage.values[j] # ""} -> [value : CountText, note : {"", "note"}]]
        BY <1>1 DEF Sheet!Lines, SheetPage
      <4>2. {j \in sheetPage.items : sheetPage.values[j] # ""} \in SUBSET Item BY <1>1 DEF SheetPage
      <4> QED BY <4>1, <4>2 DEF CountLines
    <3>3. c \in Nat /\ (sheetPage.submitted # 0 => c = sheetPage.submitted)
      BY <1>1, <2>1 DEF Sheet!Corrects, SheetPage, Sheet!Submit, Sheet!IsShown
    <3> HIDE DEF l, c
    <3>4. r \in SheetRequest /\ r.corrects = c /\ r.reply = "none" /\ r \in CountRequest BY <3>2, <3>3
         DEF SheetRequest, CountRequest
    <3> QED BY <3>1, <3>3, <3>4
  <2>2. CASE Sheet!SendMovement
    <3>1. sheetPage' = [sheetPage EXCEPT !.sending = {[reply |-> "none", id |-> 0]}] /\ sheetScreen = "movements"
      BY <2>2 DEF Sheet!SendMovement
    <3>2. [reply |-> "none", id |-> 0] \in SheetRequest BY DEF SheetRequest, CountRequest
    <3> QED BY <3>1, <3>2
  <2> QED BY <2>1, <2>2
<1>3. /\ sheetPage' \in SheetPage /\ sheetPage'.values = sheetPage.values /\ sheetPage'.itemNotes = sheetPage.itemNotes
      /\ sheetPage'.fillState = sheetPage.fillState /\ sheetPage'.sending = {r}
      /\ sheetPage'.entries = sheetPage.entries
      /\ sheetPage'.status = "ready" /\ sheetPage'.submitted = sheetPage.submitted
  BY <1>1, <1>2 DEF SheetPage
<1>4. SheetTypes' BY <1>1, <1>3
<1>5. Sheet!NotesAreSent' /\ Sheet!MarksAreTrue' BY <1>3 DEF Sheet!CountSheetInv, Sheet!NotesAreSent,
     Sheet!MarksAreTrue
<1>6. Sheet!AnotherIsACorrection' BY <1>1, <1>2, <1>3 DEF Sheet!AnotherIsACorrection
<1>7. Sheet!EntriesAreStored' BY <1>1, <1>3 DEF Sheet!CountSheetInv, Sheet!EntriesAreStored
<1>8. \A x \in sheetPage'.sending : sheetScreen' = "count" => x \in CountRequest BY <1>1, <1>2, <1>3
<1> QED BY <1>2, <1>3, <1>4, <1>5, <1>6, <1>7, <1>8 DEF Sheet!CountSheetInv

(* The server records a count or a movement, or refuses it.                *)
LEMMA SheetServe ==
  ASSUME SheetInv, Sheet!ServeCount \/ Sheet!ServeMovement PROVE SheetInv'
<1> USE DEF SheetInv, SheetTypes
<1>1. sheetPage \in SheetPage /\ UNCHANGED <<active, sheetScreen>>
  BY DEF Sheet!ServeCount, Sheet!ServeMovement
<1>2. PICK q \in SheetRequest :
        /\ sheetPage' = [sheetPage EXCEPT !.sending = {q}] /\ sheetPage.sending # {}
        /\ sheetScreen = "count" /\ sheetPage.submitted # 0 => q.corrects = sheetPage.submitted
        /\ sheetScreen = "movements" => q.id = moves' /\ moves' = moves + 1
        /\ sheetScreen = "movements" \/ moves' = moves
        /\ sheets' \in Seq(CountRow)
        /\ sheetScreen = "count" => q \in CountRequest
  <2>1. CASE Sheet!ServeCount
    <3>1. PICK r \in sheetPage.sending :
            /\ sheetScreen = "count" /\ moves' = moves
            /\ IF Sheet!IsAccepted(r)
               THEN /\ sheets' = Sheet!Stored(r)
                    /\ sheetPage' = [sheetPage EXCEPT !.sending = {[r EXCEPT !.reply = "ok", !.id = Len(sheets) + 1]}]
               ELSE sheetPage' = [sheetPage EXCEPT !.sending = {[r EXCEPT !.reply = "refused"]}] /\ sheets' = sheets
      BY <2>1 DEF Sheet!ServeCount
    <3>2. sheetPage.submitted # 0 => r.corrects = sheetPage.submitted
      BY <3>1 DEF Sheet!CountSheetInv, Sheet!AnotherIsACorrection
    <3>3. r \in [lines : CountLines, corrects : Nat, reply : {"none", "ok", "refused"}, id : Nat]
      BY <3>1 DEF CountRequest
    <3>4. CASE Sheet!IsAccepted(r)
      <4> DEFINE n == Len(sheets) + 1
                 q == [r EXCEPT !.reply = "ok", !.id = n]
      <4>1. n \in Nat OBVIOUS
      <4> HIDE DEF n
      <4>2. q \in SheetRequest /\ q \in CountRequest /\ q.corrects = r.corrects BY <3>3, <4>1 DEF SheetRequest,
           CountRequest
      <4>3. [lines |-> r.lines, corrects |-> r.corrects] \in CountRow BY <3>3 DEF CountRow
      <4>4. sheets' \in Seq(CountRow) BY <3>1, <3>4, <4>3 DEF Sheet!Stored
      <4> QED BY <3>1, <3>2, <3>4, <4>2, <4>4 DEF n
    <3>5. CASE ~Sheet!IsAccepted(r)
      <4> DEFINE q == [r EXCEPT !.reply = "refused"]
      <4>1. q \in SheetRequest /\ q \in CountRequest /\ q.corrects = r.corrects BY <3>3 DEF SheetRequest, CountRequest
      <4> QED BY <3>1, <3>2, <3>5, <4>1
    <3> QED BY <3>4, <3>5
  <2>2. CASE Sheet!ServeMovement
    <3> DEFINE q == [reply |-> "ok", id |-> moves + 1]
    <3>1. /\ sheetScreen = "movements" /\ moves' = moves + 1 /\ sheets' = sheets /\ sheetPage.sending # {}
          /\ sheetPage' = [sheetPage EXCEPT !.sending = {q}]
      BY <2>2 DEF Sheet!ServeMovement
    <3>2. q \in SheetRequest /\ q.id = moves + 1 BY DEF SheetRequest, CountRequest
    <3> HIDE DEF q
    <3> QED BY <3>1, <3>2
  <2> QED BY <2>1, <2>2
<1>3. /\ sheetPage' \in SheetPage /\ sheetPage'.values = sheetPage.values /\ sheetPage'.itemNotes = sheetPage.itemNotes
      /\ sheetPage'.fillState = sheetPage.fillState /\ sheetPage'.sending = {q}
      /\ sheetPage'.entries = sheetPage.entries
      /\ sheetPage'.status = sheetPage.status /\ sheetPage'.submitted = sheetPage.submitted
  BY <1>1, <1>2 DEF SheetPage
<1>4. moves' \in Nat /\ moves' >= moves /\ moves \in Nat BY <1>2
<1>5. SheetTypes' BY <1>1, <1>2, <1>3, <1>4
<1>6. Sheet!NotesAreSent' /\ Sheet!MarksAreTrue' BY <1>3 DEF Sheet!CountSheetInv, Sheet!NotesAreSent,
     Sheet!MarksAreTrue
<1>7. Sheet!AnotherIsACorrection' BY <1>1, <1>2, <1>3 DEF Sheet!AnotherIsACorrection
<1>8. sheetPage.entries \in Seq(Nat) BY <1>1 DEF SheetPage
<1>9. \A j \in DOMAIN sheetPage.entries : sheetPage.entries[j] \in Nat BY <1>8
<1>10. Sheet!EntriesAreStored' BY <1>3, <1>4, <1>9 DEF Sheet!CountSheetInv, Sheet!EntriesAreStored
<1>11. sheetScreen = "movements" => \A j \in DOMAIN sheetPage.entries : sheetPage.entries[j] < q.id
  BY <1>2, <1>4, <1>9 DEF Sheet!CountSheetInv, Sheet!EntriesAreStored
<1>12. \A r \in sheetPage'.sending : sheetScreen' = "movements" /\ r.reply # "none" =>
       r.id \in 1 .. moves' /\ \A j \in DOMAIN sheetPage'.entries : sheetPage'.entries[j] < r.id
  BY <1>1, <1>2, <1>3, <1>4, <1>11
<1>13. /\ sheetPage'.sending # {} => sheetPage'.status = "ready"
       /\ \A r \in sheetPage'.sending : sheetScreen' = "count" => r \in CountRequest
  BY <1>1, <1>2, <1>3
<1> QED BY <1>5, <1>6, <1>7, <1>10, <1>12, <1>13 DEF Sheet!CountSheetInv

(* A count's answer arrives or is lost.                                    *)
LEMMA SheetCountAnswered ==
  ASSUME SheetInv, NEW lost \in BOOLEAN, Sheet!CountAnswered(lost) PROVE SheetInv'
<1>1. sheetPage \in SheetPage /\ active \subseteq Item /\ sheets \in Seq(CountRow) /\ moves \in Nat BY DEF SheetInv,
     SheetTypes
<1>2. UNCHANGED <<active, sheets, moves, sheetScreen>> /\ sheetScreen = "count" BY DEF Sheet!CountAnswered
<1>3. PICK r \in sheetPage.sending :
        sheetPage' = IF r.reply = "ok" /\ ~lost
                     THEN Sheet!NoDraft([sheetPage EXCEPT !.sending = {}, !.submitted = r.id,
                       !.recordingAnother = FALSE])
                     ELSE [sheetPage EXCEPT !.sending = {}]
  BY DEF Sheet!CountAnswered
<1>4. CASE r.reply = "ok" /\ ~lost
  <2> DEFINE p == [sheetPage EXCEPT !.sending = {}, !.submitted = r.id, !.recordingAnother = FALSE]
  <2>1. r.id \in Nat BY <1>1 DEF SheetPage, SheetRequest, CountRequest
  <2>2. p \in SheetPage /\ p.sending = {} /\ p.entries = sheetPage.entries BY <1>1, <2>1 DEF SheetPage
  <2>3. sheetPage' = Sheet!NoDraft(p) BY <1>3, <1>4
  <2> HIDE DEF p
  <2> QED BY <1>1, <1>2, <2>2, <2>3, Emptied, PageKeepsInv
<1>5. CASE ~(r.reply = "ok" /\ ~lost)
  <2>1. sheetPage' = [sheetPage EXCEPT !.sending = {}] BY <1>3, <1>5
  <2>2. /\ sheetPage' \in SheetPage /\ sheetPage'.values = sheetPage.values
        /\ sheetPage'.itemNotes = sheetPage.itemNotes
        /\ sheetPage'.fillState = sheetPage.fillState /\ sheetPage'.sending = {}
        /\ sheetPage'.entries = sheetPage.entries
    BY <1>1, <2>1 DEF SheetPage
  <2> QED BY <1>1, <1>2, <2>2, PageKeepsInv
<1> QED BY <1>4, <1>5

(* A movement's answer arrives or is lost.                                 *)
LEMMA SheetMovementAnswered ==
  ASSUME SheetInv, NEW lost \in BOOLEAN, Sheet!MovementAnswered(lost) PROVE SheetInv'
<1>1. sheetPage \in SheetPage /\ active \subseteq Item /\ sheets \in Seq(CountRow) /\ moves \in Nat BY DEF SheetInv,
     SheetTypes
<1>2. UNCHANGED <<active, sheets, moves, sheetScreen>> /\ sheetScreen = "movements" BY DEF Sheet!MovementAnswered
<1>3. PICK r \in sheetPage.sending :
        /\ r.reply = "none" => lost
        /\ sheetPage' = [sheetPage EXCEPT !.sending = {}, !.entries = IF lost THEN @ ELSE <<r.id>> \o @]
  BY DEF Sheet!MovementAnswered
<1>9. sheetPage.entries \in Seq(Nat) BY <1>1 DEF SheetPage
<1>4. CASE lost
  <2>1. sheetPage' = [sheetPage EXCEPT !.sending = {}, !.entries = sheetPage.entries] BY <1>3, <1>4
  <2>2. /\ sheetPage' \in SheetPage /\ sheetPage'.values = sheetPage.values
        /\ sheetPage'.itemNotes = sheetPage.itemNotes
        /\ sheetPage'.fillState = sheetPage.fillState /\ sheetPage'.sending = {}
        /\ sheetPage'.entries = sheetPage.entries
    BY <1>1, <2>1 DEF SheetPage
  <2> QED BY <1>1, <1>2, <2>2, PageKeepsInv
<1>5. CASE ~lost
  <2> DEFINE e == <<r.id>> \o sheetPage.entries
  <2>1. sheetPage' = [sheetPage EXCEPT !.sending = {}, !.entries = e] BY <1>3, <1>5
  <2>2. r.id \in 1 .. moves /\ \A j \in DOMAIN sheetPage.entries : sheetPage.entries[j] < r.id
    BY <1>2, <1>3, <1>5 DEF SheetInv
  <2>3. e \in Seq(Nat) /\ Len(e) = Len(sheetPage.entries) + 1 /\ e[1] = r.id
        /\ \A j \in 2 .. Len(e) : e[j] = sheetPage.entries[j - 1] /\ j - 1 \in DOMAIN sheetPage.entries
    BY <1>9, <2>2
  <2>4. DOMAIN e = 1 .. Len(e) BY <2>3
  <2> HIDE DEF e
  <2>5. /\ sheetPage' \in SheetPage /\ sheetPage'.values = sheetPage.values
        /\ sheetPage'.itemNotes = sheetPage.itemNotes
        /\ sheetPage'.fillState = sheetPage.fillState /\ sheetPage'.sending = {} /\ sheetPage'.entries = e
    BY <1>1, <2>1, <2>3 DEF SheetPage
  <2>6. SheetTypes' BY <1>1, <1>2, <2>5 DEF SheetTypes
  <2>7. Sheet!NotesAreSent' /\ Sheet!MarksAreTrue' /\ Sheet!AnotherIsACorrection'
    BY <2>5 DEF SheetInv, Sheet!CountSheetInv, Sheet!NotesAreSent, Sheet!MarksAreTrue, Sheet!AnotherIsACorrection
  <2>8. Sheet!EntriesAreStored'
    <3>1. Sheet!EntriesAreStored BY DEF SheetInv, Sheet!CountSheetInv
    <3>2. \A j \in 1 .. Len(e) : e[j] <= moves
      <4> SUFFICES ASSUME NEW j \in 1 .. Len(e) PROVE e[j] <= moves OBVIOUS
      <4>1. CASE j = 1 BY <4>1, <2>2, <2>3, <1>1
      <4>2. CASE j # 1 BY <4>2, <2>3, <3>1, <1>9 DEF Sheet!EntriesAreStored
      <4> QED BY <4>1, <4>2
    <3>3. \A j, k \in 1 .. Len(e) : j < k => e[j] > e[k]
      <4> SUFFICES ASSUME NEW j \in 1 .. Len(e), NEW k \in 1 .. Len(e), j < k PROVE e[j] > e[k] OBVIOUS
      <4>1. k \in 2 .. Len(e) BY <1>9, <2>3
      <4>2. e[k] = sheetPage.entries[k - 1] /\ k - 1 \in DOMAIN sheetPage.entries BY <4>1, <2>3
      <4>3. sheetPage.entries[k - 1] \in Nat BY <4>2, <1>9
      <4>4. CASE j = 1 BY <4>2, <4>3, <4>4, <2>2, <2>3
      <4>5. CASE j # 1
        <5>1. j \in 2 .. Len(e) BY <4>5, <2>3
        <5>2. e[j] = sheetPage.entries[j - 1] /\ j - 1 \in DOMAIN sheetPage.entries BY <5>1, <2>3
        <5>3. j - 1 < k - 1 BY <4>1, <5>1
        <5> QED BY <3>1, <4>2, <5>2, <5>3 DEF Sheet!EntriesAreStored
      <4> QED BY <4>4, <4>5
    <3> QED BY <1>2, <2>4, <2>5, <3>2, <3>3 DEF Sheet!EntriesAreStored
  <2> QED BY <2>5, <2>6, <2>7, <2>8 DEF SheetInv, Sheet!CountSheetInv
<1> QED BY <1>4, <1>5

(* The invariant of the count sheet, by induction over the steps above.    *)
THEOREM SheetInvariant == Sheet!Spec => []SheetInv
<1>1. SheetInv /\ [Sheet!Next]_(Sheet!vars) => SheetInv'
  <2> SUFFICES ASSUME SheetInv, [Sheet!Next]_(Sheet!vars) PROVE SheetInv' OBVIOUS
  <2>1. CASE UNCHANGED Sheet!vars
    BY <2>1 DEF Sheet!vars, SheetInv, SheetTypes, Sheet!CountSheetInv, Sheet!NotesAreSent, Sheet!MarksAreTrue,
         Sheet!AnotherIsACorrection, Sheet!EntriesAreStored
  <2>2. CASE Sheet!Open("count") \/ Sheet!Open("movements") BY <2>2, SheetOpen
  <2>3. CASE Sheet!Loaded \/ Sheet!LoadFailed \/ Sheet!Retry BY <2>3, SheetLoad
  <2>4. ASSUME NEW i \in Item, Sheet!ChangeNote(i) \/ Sheet!FillItem(i) PROVE SheetInv'
    <3>1. "" \in Typed \cup {""} OBVIOUS
    <3> QED BY <2>4, <3>1, SheetEdit
  <2>5. ASSUME NEW i \in Item, NEW v \in Typed \cup {""}, Sheet!ChangeValue(i, v) PROVE SheetInv' BY <2>5, SheetEdit
  <2>6. CASE Sheet!FillAll
    <3> DEFINE S == {i \in Item : Sheet!IsFillable(i)}
    <3>1. sheetPage.sending = {} /\ UNCHANGED <<active, sheets, moves, sheetScreen>> /\ sheetPage' = Sheet!Filled(S)
      BY <2>6 DEF Sheet!FillAll, Sheet!Edit
    <3>2. S \in SUBSET Item /\ \A j \in S : Sheet!IsFillable(j) OBVIOUS
    <3> HIDE DEF S
    <3> QED BY <3>1, <3>2, SheetFill
  <2>7. CASE \E i \in Item : Sheet!Deactivate(i) BY <2>7, SheetElsewhere
  <2>8. CASE Sheet!RecordAnother BY <2>8, SheetRecordAnother
  <2>9. CASE Sheet!Submit \/ Sheet!SendMovement BY <2>9, SheetSubmit
  <2>10. CASE Sheet!ServeCount \/ Sheet!ServeMovement BY <2>10, SheetServe
  <2>11. CASE Sheet!CountedElsewhere \/ Sheet!MovedElsewhere BY <2>11, SheetElsewhere
  <2>12. ASSUME NEW lost \in BOOLEAN, Sheet!CountAnswered(lost) \/ Sheet!MovementAnswered(lost) PROVE SheetInv'
    BY <2>12, SheetCountAnswered, SheetMovementAnswered
  <2> QED BY <2>1, <2>2, <2>3, <2>4, <2>5, <2>6, <2>7, <2>8, <2>9, <2>10, <2>11, <2>12 DEF Sheet!Next
<1> QED BY <1>1, SheetInit, PTL DEF Sheet!Spec

(* The invariant gives the properties of the count sheet.                  *)
THEOREM SheetHolds == Sheet!Spec => []Sheet!CountSheetInv
<1>1. SheetInv => Sheet!CountSheetInv BY DEF SheetInv
<1> QED BY <1>1, SheetInvariant, PTL

TouchedKept ==
  \A i \in Item : sheetPage.fillState[i] = "touched" /\ sheetPage'.fillState[i] # "touched"
    => sheetPage'.fillState = Sheet!Blank

(* A step that fills leaves what was touched. *)
LEMMA FillsSkipTouched ==
  ASSUME sheetPage \in SheetPage, NEW S, sheetPage' = Sheet!Filled(S), \A j \in S : Sheet!IsFillable(j)
  PROVE  TouchedKept
<1> DEFINE vs == [j \in Item |-> IF j \in S THEN LastClosing[j] ELSE sheetPage.values[j]]
           fs == [j \in Item |-> IF j \in S THEN "filled" ELSE sheetPage.fillState[j]]
<1>1. sheetPage' = [sheetPage EXCEPT !.values = vs, !.fillState = fs] BY DEF Sheet!Filled
<1>2. \A j \in S : sheetPage.fillState[j] # "touched" BY DEF Sheet!IsFillable
<1>3. \A j \in Item : j \notin S => fs[j] = sheetPage.fillState[j] OBVIOUS
<1> HIDE DEF vs, fs
<1>4. sheetPage'.fillState = fs BY <1>1 DEF SheetPage
<1> QED BY <1>2, <1>3, <1>4 DEF TouchedKept

(* What is typed in one field leaves the others that were touched.         *)
LEMMA EditsKeepTouched ==
  ASSUME sheetPage \in SheetPage, NEW i \in Item, NEW v, Sheet!ChangeNote(i) \/ Sheet!ChangeValue(i, v)
  PROVE  TouchedKept
<1>1. CASE Sheet!ChangeNote(i)
  <2>1. sheetPage'.fillState = sheetPage.fillState BY <1>1 DEF Sheet!ChangeNote, SheetPage
  <2> QED BY <2>1 DEF TouchedKept
<1>2. CASE Sheet!ChangeValue(i, v)
  <2> DEFINE n == Sheet!NoteAfter(i, v)
  <2>1. sheetPage' = [sheetPage EXCEPT !.values[i] = v, !.fillState[i] = "touched", !.itemNotes[i] = n] BY <1>2
       DEF Sheet!ChangeValue
  <2> HIDE DEF n
  <2>2. sheetPage'.fillState = [sheetPage.fillState EXCEPT ![i] = "touched"] BY <2>1 DEF SheetPage
  <2>3. sheetPage.fillState \in [Item -> {"", "filled", "touched"}] BY DEF SheetPage
  <2> QED BY <2>2, <2>3 DEF TouchedKept
<1> QED BY <1>1, <1>2

(* A load, and opening the page, keep what was touched while the page      *)
(* stays.                                                                  *)
LEMMA OthersKeepTouched ==
  ASSUME sheetPage \in SheetPage,
         \/ \E s \in {"count", "movements"} : Sheet!Open(s)
         \/ Sheet!Loaded \/ Sheet!LoadFailed \/ Sheet!Retry \/ Sheet!RecordAnother
  PROVE  TouchedKept
<1>1. CASE \E s \in {"count", "movements"} : Sheet!Open(s) BY <1>1, FreshPage DEF Sheet!Open, TouchedKept
<1>2. CASE Sheet!Loaded
  <2> DEFINE e == [k \in 1 .. moves |-> moves - k + 1]
             n == Len(sheets)
  <2>1. sheetPage' = [sheetPage EXCEPT !.status = "ready", !.items = active, !.submitted = n, !.entries = e] BY <1>2
       DEF Sheet!Loaded
  <2> HIDE DEF e, n
  <2>2. sheetPage'.fillState = sheetPage.fillState BY <2>1 DEF SheetPage
  <2> QED BY <2>2 DEF TouchedKept
<1>3. CASE Sheet!LoadFailed \/ Sheet!Retry
  <2>1. sheetPage'.fillState = sheetPage.fillState BY <1>3 DEF Sheet!LoadFailed, Sheet!Retry, SheetPage
  <2> QED BY <2>1 DEF TouchedKept
<1>4. CASE Sheet!RecordAnother
  <2> DEFINE p == [sheetPage EXCEPT !.recordingAnother = TRUE]
  <2>1. p \in SheetPage BY DEF SheetPage
  <2>2. sheetPage' = Sheet!NoDraft(p) BY <1>4 DEF Sheet!RecordAnother
  <2> HIDE DEF p
  <2>3. sheetPage'.fillState = Sheet!Blank BY <2>1, <2>2, Emptied
  <2> QED BY <2>3 DEF TouchedKept
<1> QED BY <1>1, <1>2, <1>3, <1>4

(* Sending, and the server's work, leave the fields.                       *)
LEMMA RequestsKeepTouched ==
  ASSUME sheetPage \in SheetPage,
         \/ Sheet!Submit \/ Sheet!SendMovement \/ Sheet!ServeCount \/ Sheet!ServeMovement
         \/ \E lost \in BOOLEAN : Sheet!MovementAnswered(lost)
  PROVE  TouchedKept
<1>1. PICK q, e : sheetPage' = [sheetPage EXCEPT !.sending = q, !.entries = e]
  <2>1. CASE Sheet!MovementAnswered(TRUE) \/ Sheet!MovementAnswered(FALSE)
    BY <2>1 DEF Sheet!MovementAnswered
  <2>2. CASE Sheet!Submit \/ Sheet!SendMovement \/ Sheet!ServeCount \/ Sheet!ServeMovement
    <3>1. PICK q : sheetPage' = [sheetPage EXCEPT !.sending = q] BY <2>2, Zenon DEF Sheet!Submit, Sheet!SendMovement,
         Sheet!ServeCount, Sheet!ServeMovement
    <3>2. sheetPage' = [sheetPage EXCEPT !.sending = q, !.entries = sheetPage.entries] BY <3>1 DEF SheetPage
    <3> QED BY <3>2
  <2> QED BY <2>1, <2>2
<1>2. sheetPage'.fillState = sheetPage.fillState BY <1>1 DEF SheetPage
<1> QED BY <1>2 DEF TouchedKept

(* An answer empties the fields only when the count was taken.             *)
LEMMA AnswersKeepTouched ==
  ASSUME sheetPage \in SheetPage, SheetInv, NEW lost \in BOOLEAN, Sheet!CountAnswered(lost)
  PROVE  TouchedKept
<1>1. PICK r \in sheetPage.sending :
        sheetPage' = IF r.reply = "ok" /\ ~lost
                     THEN Sheet!NoDraft([sheetPage EXCEPT !.sending = {}, !.submitted = r.id,
                       !.recordingAnother = FALSE])
                     ELSE [sheetPage EXCEPT !.sending = {}]
  BY DEF Sheet!CountAnswered
<1>2. CASE r.reply = "ok" /\ ~lost
  <2> DEFINE p == [sheetPage EXCEPT !.sending = {}, !.submitted = r.id, !.recordingAnother = FALSE]
  <2>1. r.id \in Nat BY DEF SheetPage, SheetRequest, CountRequest
  <2>2. p \in SheetPage BY <2>1 DEF SheetPage
  <2>3. sheetPage' = Sheet!NoDraft(p) BY <1>1, <1>2
  <2> HIDE DEF p
  <2>4. sheetPage'.fillState = Sheet!Blank BY <2>2, <2>3, Emptied
  <2> QED BY <2>4 DEF TouchedKept
<1>3. CASE ~(r.reply = "ok" /\ ~lost)
  <2>1. sheetPage' = [sheetPage EXCEPT !.sending = {}] BY <1>1, <1>3
  <2>2. sheetPage'.fillState = sheetPage.fillState BY <2>1 DEF SheetPage
  <2> QED BY <2>2 DEF TouchedKept
<1> QED BY <1>2, <1>3

(* No step changes a touched field other than the count that is recorded,  *)
(* an edit or leaving.                                                     *)
THEOREM TouchedHolds == Sheet!Spec => Sheet!TouchedFieldsAreKept
<1>1. SheetInv /\ [Sheet!Next]_(Sheet!vars) => [TouchedKept]_(Sheet!vars)
  <2> SUFFICES ASSUME SheetInv, Sheet!Next PROVE TouchedKept BY DEF TouchedKept, Sheet!vars
  <2>1. sheetPage \in SheetPage BY DEF SheetInv, SheetTypes
  <2>2. CASE Sheet!Open("count") \/ Sheet!Open("movements") \/ Sheet!Loaded \/ Sheet!LoadFailed \/ Sheet!Retry \/
               Sheet!RecordAnother
    BY <2>1, <2>2, OthersKeepTouched
  <2>3. ASSUME NEW i \in Item, NEW v \in Typed \cup {""}, Sheet!ChangeNote(i) \/ Sheet!ChangeValue(i, v)
        PROVE TouchedKept
    BY <2>1, <2>3, EditsKeepTouched
  <2>4. ASSUME NEW i \in Item, Sheet!ChangeNote(i) PROVE TouchedKept
    <3>1. "" \in Typed \cup {""} OBVIOUS
    <3> QED BY <2>3, <2>4, <3>1
  <2>5. ASSUME NEW i \in Item, Sheet!FillItem(i) PROVE TouchedKept
    <3>1. sheetPage' = Sheet!Filled({i}) /\ \A j \in {i} : Sheet!IsFillable(j) BY <2>5 DEF Sheet!FillItem
    <3> QED BY <2>1, <3>1, FillsSkipTouched
  <2>6. CASE Sheet!FillAll
    <3> DEFINE S == {i \in Item : Sheet!IsFillable(i)}
    <3>1. sheetPage' = Sheet!Filled(S) BY <2>6 DEF Sheet!FillAll
    <3>2. \A j \in S : Sheet!IsFillable(j) OBVIOUS
    <3> HIDE DEF S
    <3> QED BY <2>1, <3>1, <3>2, FillsSkipTouched
  <2>7. CASE Sheet!Submit \/ Sheet!SendMovement \/ Sheet!ServeCount \/ Sheet!ServeMovement BY <2>1, <2>7,
       RequestsKeepTouched
  <2>8. ASSUME NEW lost \in BOOLEAN, Sheet!CountAnswered(lost) \/ Sheet!MovementAnswered(lost) PROVE TouchedKept
    BY <2>1, <2>8, AnswersKeepTouched, RequestsKeepTouched
  <2>9. CASE UNCHANGED sheetPage BY <2>9 DEF TouchedKept
  <2>10. (Sheet!CountedElsewhere \/ Sheet!MovedElsewhere \/ \E i \in Item : Sheet!Deactivate(i)) => UNCHANGED sheetPage
    BY DEF Sheet!CountedElsewhere, Sheet!MovedElsewhere, Sheet!Deactivate
  <2> QED BY <2>2, <2>3, <2>4, <2>5, <2>6, <2>7, <2>8, <2>9, <2>10 DEF Sheet!Next
<1> QED BY <1>1, SheetInvariant, PTL DEF Sheet!Spec, Sheet!TouchedFieldsAreKept, TouchedKept
-----------------------------------------------------------------------------
(* DayPages: a business day is opened and closed.                          *)


DayFields ==
  {"screen", "status", "date", "expected", "form", "attempt", "confirmOpen", "sending", "didClose", "latest"}

(* An attempt was made of what the form says; one day at most is open, and ids are made up once. *)
DayInv ==
  /\ Days!DayPagesInv
  /\ attemptIds \in Nat /\ DOMAIN dayPage = DayFields /\ dayPage.attempt \in 0 .. attemptIds
  /\ days \in [Date -> {"none", "OPEN", "CLOSED"}]
  /\ \A d, e \in Days!OpenDates : d = e
  /\ \A c \in closings : c.id \in 0 .. attemptIds
  /\ dayPage.attempt # 0 \/ dayPage.confirmOpen => dayPage.form.cash \in Cash
  /\ \A r \in dayPage.sending :
       /\ r.op = "close" => DOMAIN r = {"op", "id", "form", "reply"} /\ r.id # 0 /\ r.id = dayPage.attempt /\
            r.form = dayPage.form
       /\ r.op = "open" => DOMAIN r = {"op", "date", "reply"}
       /\ r.op \in {"open", "close"}

AttemptOutlives == dayPage.attempt # 0 /\ dayPage'.attempt # dayPage.attempt => dayPage'.form # dayPage.form

(* What a step keeps that leaves the server alone. *)
LEMMA PageStep ==
  ASSUME DayInv, UNCHANGED <<days, closings>>, attemptIds' \in Nat, attemptIds' >= attemptIds,
           DOMAIN dayPage' = DayFields,
         dayPage'.attempt \in 0 .. attemptIds',
         dayPage'.attempt # 0 \/ dayPage'.confirmOpen => dayPage'.form.cash \in Cash,
         \/ dayPage'.attempt = 0
         \/ dayPage'.attempt = dayPage.attempt /\ dayPage'.form = dayPage.form
         \/ dayPage'.attempt = attemptIds + 1 /\ dayPage.attempt = 0 /\ dayPage'.form = dayPage.form,
         dayPage.attempt # 0 /\ dayPage'.attempt = 0 => dayPage'.form # dayPage.form,
         \/ dayPage'.sending = {}
         \/ \A r \in dayPage'.sending :
              /\ r.op = "close" => DOMAIN r = {"op", "id", "form", "reply"} /\ r.id # 0 /\ r.id = dayPage'.attempt /\
                   r.form = dayPage'.form
              /\ r.op = "open" => DOMAIN r = {"op", "date", "reply"}
              /\ r.op \in {"open", "close"}
  PROVE  DayInv' /\ AttemptOutlives
<1>1. Days!AttemptIsTheForm'
  <2>1. \A c \in closings : c.id <= attemptIds BY DEF DayInv
  <2>2. \A c \in closings : c.id \in Int /\ attemptIds + 1 > attemptIds BY DEF DayInv
  <2> QED BY <2>1, <2>2 DEF DayInv, Days!DayPagesInv, Days!AttemptIsTheForm
<1>2. Days!AttemptClosesOnce' BY DEF DayInv, Days!DayPagesInv, Days!AttemptClosesOnce
<1>3. Days!OpenDates' = Days!OpenDates BY DEF Days!OpenDates
<1>4. \A c \in closings' : c.id \in 0 .. attemptIds' BY DEF DayInv
<1>5. AttemptOutlives BY DEF AttemptOutlives, DayInv
<1>6. days' \in [Date -> {"none", "OPEN", "CLOSED"}] BY DEF DayInv
<1>7. \A d, e \in Days!OpenDates' : d = e BY <1>3 DEF DayInv
<1> QED BY <1>1, <1>2, <1>4, <1>5, <1>6, <1>7 DEF DayInv, Days!DayPagesInv

(* A day page as it is opened: no form, no attempt, nothing on its way.    *)
LEMMA FreshDay ==
  \A s : /\ DOMAIN Days!Fresh(s) = DayFields /\ Days!Fresh(s).form = Days!NoForm /\ Days!Fresh(s).attempt = 0
         /\ Days!Fresh(s).confirmOpen = FALSE /\ Days!Fresh(s).sending = {}
BY DEF Days!Fresh, DayFields

(* A form with an amount is not the empty one.                             *)
LEMMA NothingFilled == \A c : c.cash \in Cash => c # Days!NoForm
BY CashAssumption DEF Days!NoForm

(* The page is opened or left.                                             *)
LEMMA VisitStep ==
  ASSUME DayInv, NEW s, Days!Visit(s) PROVE DayInv' /\ AttemptOutlives
<1>1. dayPage' = Days!Fresh(s) /\ UNCHANGED <<days, closings, attemptIds>> BY DEF Days!Visit, Days!server
<1>2. dayPage'.attempt = 0 /\ dayPage'.sending = {} /\ ~dayPage'.confirmOpen /\ DOMAIN dayPage' = DayFields /\
        dayPage'.form = Days!NoForm
  BY <1>1, FreshDay
<1>3. dayPage.attempt # 0 => dayPage'.form # dayPage.form BY <1>2, NothingFilled DEF DayInv
<1>4. attemptIds' \in Nat /\ attemptIds' >= attemptIds /\ dayPage'.attempt \in 0 .. attemptIds' BY <1>1, <1>2
     DEF DayInv
<1> QED BY <1>1, <1>2, <1>3, <1>4, PageStep

(* Steps that leave the form, its attempt and what is sent alone. *)
LEMMA QuietStep ==
  ASSUME DayInv,
         \/ Days!Loaded \/ Days!LoadFailed \/ Days!Retry \/ Days!LatestLoaded \/ Days!Dismiss
         \/ Days!SubmitClose /\ UNCHANGED attemptIds /\ dayPage.form.cash # dayPage.expected
  PROVE  DayInv' /\ AttemptOutlives
<1>0. DOMAIN dayPage = DayFields /\ attemptIds \in Nat /\ dayPage.attempt \in 0 .. attemptIds BY DEF DayInv
<1>1. /\ UNCHANGED <<days, closings, attemptIds>> /\ DOMAIN dayPage' = DayFields /\ dayPage'.form = dayPage.form
      /\ dayPage'.attempt = dayPage.attempt /\ dayPage'.sending = dayPage.sending
      /\ dayPage'.confirmOpen => dayPage.confirmOpen \/ dayPage.form.cash \in Cash
  <2>1. CASE Days!Loaded \/ Days!LoadFailed \/ Days!Retry
    <3>1. CASE Days!Loaded
      <4> DEFINE d == Days!ClosingSummary.date
                 e == Days!ClosingSummary.expected
      <4>1. dayPage' = [dayPage EXCEPT !.status = "ready", !.date = d, !.expected = e] BY <3>1 DEF Days!Loaded
      <4> HIDE DEF d, e
      <4> QED BY <1>0, <3>1, <4>1 DEF DayFields, Days!Loaded, Days!server
    <3>2. CASE Days!LoadFailed \/ Days!Retry BY <1>0, <3>2 DEF DayFields, Days!LoadFailed, Days!Retry, Days!server
    <3> QED BY <2>1, <3>1, <3>2
  <2>2. CASE Days!LatestLoaded BY <1>0, <2>2 DEF DayFields, Days!LatestLoaded, Days!server
  <2>3. CASE Days!Dismiss BY <1>0, <2>3 DEF DayFields, Days!Dismiss, Days!server
  <2>4. CASE Days!SubmitClose /\ UNCHANGED attemptIds /\ dayPage.form.cash # dayPage.expected
    BY <1>0, <2>4 DEF DayFields, Days!SubmitClose, Days!server
  <2> QED BY <2>1, <2>2, <2>3, <2>4
<1>2. dayPage'.attempt # 0 \/ dayPage'.confirmOpen => dayPage'.form.cash \in Cash BY <1>1 DEF DayInv
<1>3. \A r \in dayPage'.sending :
        /\ r.op = "close" => DOMAIN r = {"op", "id", "form", "reply"} /\ r.id # 0 /\ r.id = dayPage'.attempt /\
             r.form = dayPage'.form
        /\ r.op = "open" => DOMAIN r = {"op", "date", "reply"}
        /\ r.op \in {"open", "close"}
  BY <1>1 DEF DayInv
<1>4. attemptIds' \in Nat /\ attemptIds' >= attemptIds /\ dayPage'.attempt \in 0 .. attemptIds' BY <1>0, <1>1
<1> QED BY <1>1, <1>2, <1>3, <1>4, PageStep

(* A day is opened, or the closing form is filled.                         *)
LEMMA FormStep ==
  ASSUME DayInv, (\E d \in Date : Days!SubmitOpen(d)) \/ (\E f : Days!Fill(f)) PROVE DayInv' /\ AttemptOutlives
<1>0. DOMAIN dayPage = DayFields /\ attemptIds \in Nat /\ dayPage.attempt \in 0 .. attemptIds BY DEF DayInv
<1>1. ASSUME NEW d \in Date, Days!SubmitOpen(d) PROVE DayInv' /\ AttemptOutlives
  <2> DEFINE r == [op |-> "open", date |-> d, reply |-> "none"]
  <2>1. dayPage' = [dayPage EXCEPT !.sending = {r}] /\ UNCHANGED <<days, closings, attemptIds>> BY <1>1
       DEF Days!SubmitOpen, Days!server
  <2>2. r.op = "open" /\ DOMAIN r = {"op", "date", "reply"} OBVIOUS
  <2> HIDE DEF r
  <2>3. /\ DOMAIN dayPage' = DayFields /\ dayPage'.form = dayPage.form /\ dayPage'.confirmOpen = dayPage.confirmOpen
        /\ dayPage'.attempt = dayPage.attempt /\ dayPage'.sending = {r}
    BY <1>0, <2>1 DEF DayFields
  <2>4. dayPage'.attempt # 0 \/ dayPage'.confirmOpen => dayPage'.form.cash \in Cash BY <2>3 DEF DayInv
  <2>5. \A q \in dayPage'.sending :
          /\ q.op = "close" => DOMAIN q = {"op", "id", "form", "reply"} /\ q.id # 0 /\ q.id = dayPage'.attempt /\
               q.form = dayPage'.form
          /\ q.op = "open" => DOMAIN q = {"op", "date", "reply"}
          /\ q.op \in {"open", "close"}
    BY <2>2, <2>3
  <2>6. attemptIds' \in Nat /\ attemptIds' >= attemptIds /\ dayPage'.attempt \in 0 .. attemptIds' BY <1>0, <2>1, <2>3
  <2> QED BY <2>1, <2>3, <2>4, <2>5, <2>6, PageStep
<1>2. ASSUME NEW f, Days!Fill(f) PROVE DayInv' /\ AttemptOutlives
  <2>1. /\ dayPage' = [dayPage EXCEPT !.form = f, !.attempt = 0] /\ UNCHANGED <<days, closings, attemptIds>>
        /\ dayPage.sending = {} /\ ~dayPage.confirmOpen /\ f # dayPage.form
    BY <1>2 DEF Days!Fill, Days!AttemptAfterEdit, Days!server, Days!Idle
  <2>2. /\ DOMAIN dayPage' = DayFields /\ dayPage'.form = f /\ dayPage'.confirmOpen = dayPage.confirmOpen
        /\ dayPage'.attempt = 0 /\ dayPage'.sending = {}
    BY <1>0, <2>1 DEF DayFields
  <2>3. attemptIds' \in Nat /\ attemptIds' >= attemptIds /\ dayPage'.attempt \in 0 .. attemptIds' BY <1>0, <2>1, <2>2
  <2> QED BY <2>1, <2>2, <2>3, PageStep
<1> QED BY <1>1, <1>2

(* The closing is sent, with the id of the attempt.                        *)
LEMMA CloseStep ==
  ASSUME DayInv, Days!PerformClose, dayPage.form.cash \in Cash PROVE DayInv' /\ AttemptOutlives
<1>0. DOMAIN dayPage = DayFields /\ attemptIds \in Nat /\ dayPage.attempt \in 0 .. attemptIds BY DEF DayInv
<1> DEFINE id == IF dayPage.attempt = 0 THEN attemptIds + 1 ELSE dayPage.attempt
           r == [op |-> "close", id |-> id, form |-> dayPage.form, reply |-> "none"]
<1>1. /\ dayPage' = [dayPage EXCEPT !.attempt = id, !.sending = {r}] /\ UNCHANGED <<days, closings>>
      /\ attemptIds' = IF id > attemptIds THEN id ELSE attemptIds
  BY DEF Days!PerformClose, Days!server
<1>2. id \in 1 .. attemptIds + 1 /\ (id = dayPage.attempt \/ (id = attemptIds + 1 /\ dayPage.attempt = 0)) BY <1>0
<1> HIDE DEF id
<1>3. r.op = "close" /\ DOMAIN r = {"op", "id", "form", "reply"} /\ r.id = id /\ r.form = dayPage.form OBVIOUS
<1> HIDE DEF r
<1>4. /\ DOMAIN dayPage' = DayFields /\ dayPage'.form = dayPage.form /\ dayPage'.confirmOpen = dayPage.confirmOpen
      /\ dayPage'.attempt = id /\ dayPage'.sending = {r}
  BY <1>0, <1>1 DEF DayFields
<1>5. \A q \in dayPage'.sending :
        /\ q.op = "close" => DOMAIN q = {"op", "id", "form", "reply"} /\ q.id # 0 /\ q.id = dayPage'.attempt /\
             q.form = dayPage'.form
        /\ q.op = "open" => DOMAIN q = {"op", "date", "reply"}
        /\ q.op \in {"open", "close"}
  BY <1>2, <1>3, <1>4
<1>6. attemptIds' \in Nat /\ attemptIds' >= attemptIds /\ dayPage'.attempt \in 0 .. attemptIds' BY <1>0, <1>1, <1>2,
     <1>4
<1>7. dayPage'.form.cash \in Cash BY <1>4
<1>8. dayPage'.attempt # 0 BY <1>2, <1>4
<1> QED BY <1>1, <1>2, <1>4, <1>5, <1>6, <1>7, <1>8, PageStep

(* The answer arrives or is lost.                                          *)
LEMMA AnswerStep ==
  ASSUME DayInv, Days!Answered \/ Days!Lost PROVE DayInv' /\ AttemptOutlives
<1>0. DOMAIN dayPage = DayFields /\ attemptIds \in Nat /\ dayPage.attempt \in 0 .. attemptIds BY DEF DayInv
<1>1. UNCHANGED <<days, closings, attemptIds>> BY DEF Days!Answered, Days!Lost, Days!server
<1>2. /\ DOMAIN dayPage' = DayFields /\ dayPage'.form = dayPage.form /\ (dayPage'.confirmOpen => dayPage.confirmOpen)
      /\ dayPage'.attempt = dayPage.attempt /\ dayPage'.sending = {}
  <2>1. CASE Days!Lost BY <1>0, <2>1 DEF DayFields, Days!Lost, Days!AttemptAfterError
  <2>2. CASE Days!Answered
    <3>1. PICK r \in dayPage.sending :
            IF r.reply = "refused"
            THEN dayPage' = [dayPage EXCEPT !.sending = {}, !.confirmOpen = FALSE, !.attempt = Days!AttemptAfterError]
            ELSE IF r.op = "open" THEN dayPage' = [dayPage EXCEPT !.sending = {}, !.date = {r.date}]
            ELSE dayPage' = [dayPage EXCEPT !.sending = {}, !.confirmOpen = FALSE, !.didClose = TRUE, !.date = {}]
      BY <2>2 DEF Days!Answered
    <3> DEFINE d == {r.date}
    <3>2. CASE r.reply = "refused" BY <1>0, <3>1, <3>2 DEF DayFields, Days!AttemptAfterError
    <3>3. CASE r.reply # "refused" /\ r.op = "open"
      <4>1. dayPage' = [dayPage EXCEPT !.sending = {}, !.date = d] BY <3>1, <3>3
      <4> HIDE DEF d
      <4> QED BY <1>0, <4>1 DEF DayFields
    <3>4. CASE r.reply # "refused" /\ r.op # "open" BY <1>0, <3>1, <3>4 DEF DayFields
    <3> QED BY <3>2, <3>3, <3>4
  <2> QED BY <2>1, <2>2
<1>3. dayPage'.attempt # 0 \/ dayPage'.confirmOpen => dayPage'.form.cash \in Cash BY <1>2 DEF DayInv
<1>4. attemptIds' \in Nat /\ attemptIds' >= attemptIds /\ dayPage'.attempt \in 0 .. attemptIds' BY <1>0, <1>1, <1>2
<1> QED BY <1>1, <1>2, <1>3, <1>4, PageStep

(* A day that opens while none is, and the open day that closes. *)
LEMMA DayOpens ==
  ASSUME DayInv, NEW d \in Date, Days!MayOpen(d), days' = [days EXCEPT ![d] = "OPEN"]
  PROVE  days' \in [Date -> {"none", "OPEN", "CLOSED"}] /\ \A x, y \in Days!OpenDates' : x = y
BY DEF DayInv, Days!MayOpen, Days!OpenDates

(* A closing leaves at most one day open.                                  *)
LEMMA DayCloses ==
  ASSUME DayInv, NEW id, NEW form, Days!Closed(id, form)
  PROVE  days' \in [Date -> {"none", "OPEN", "CLOSED"}] /\ \A x, y \in Days!OpenDates' : x = y
<1>1. days' = [d \in Date |-> IF days[d] = "OPEN" THEN "CLOSED" ELSE days[d]] BY DEF Days!Closed
<1>2. days' \in [Date -> {"none", "OPEN", "CLOSED"}] BY <1>1 DEF DayInv
<1> QED BY <1>1, <1>2 DEF Days!OpenDates

(* A closing under an id that none has, and that stands for the form or is another's. *)
LEMMA ClosingStored ==
  ASSUME DayInv, NEW id \in 0 .. attemptIds, NEW form, Days!Closed(id, form), id # 0 => ~Days!IsReplay(id),
           id = dayPage.attempt /\ id # 0 => form = dayPage.form,
         dayPage'.attempt = dayPage.attempt, dayPage'.form = dayPage.form
  PROVE  Days!AttemptIsTheForm' /\ Days!AttemptClosesOnce' /\ \A c \in closings' : c.id \in 0 .. attemptIds
<1>1. closings' = closings \cup {[id |-> id, date |-> d, form |-> form, expected |-> expected] : d \in Days!OpenDates}
  BY DEF Days!Closed
<1>2. \A c \in closings' : c \in closings \/ \E d \in Days!OpenDates :
        c = [id |-> id, date |-> d, form |-> form, expected |-> expected]
  BY <1>1
<1>3. \A c \in closings : id # 0 => c.id # id BY DEF Days!IsReplay
<1>4. \A c \in closings' : c \in closings \/ (c.id = id /\ c.form = form) BY <1>2
<1>5. \A b, c \in closings' \ closings : b = c BY <1>2 DEF DayInv
<1>6. Days!AttemptIsTheForm' BY <1>4 DEF Days!AttemptIsTheForm, DayInv, Days!DayPagesInv
<1>7. Days!AttemptClosesOnce'
  <2>1. Days!AttemptClosesOnce BY DEF DayInv, Days!DayPagesInv
  <2> SUFFICES ASSUME NEW b \in closings', NEW c \in closings', b.id = c.id, b.id # 0 PROVE b = c
    BY DEF Days!AttemptClosesOnce
  <2> QED BY <1>3, <1>4, <1>5, <2>1 DEF Days!AttemptClosesOnce
<1> QED BY <1>4, <1>6, <1>7 DEF DayInv

(* The server opens a day or closes one, or replays the closing.           *)
LEMMA ServeStep ==
  ASSUME DayInv, Days!Serve PROVE DayInv' /\ AttemptOutlives
<1>0. DOMAIN dayPage = DayFields /\ attemptIds \in Nat /\ dayPage.attempt \in 0 .. attemptIds BY DEF DayInv
<1>1. PICK r \in dayPage.sending :
        /\ UNCHANGED attemptIds
        /\ \/ /\ r.op = "open" /\ Days!MayOpen(r.date)
              /\ days' = [days EXCEPT ![r.date] = "OPEN"] /\ Days!Reply(r, "ok") /\ UNCHANGED <<expected, closings>>
           \/ r.op = "open" /\ ~Days!MayOpen(r.date) /\ Days!Reply(r, "refused") /\ UNCHANGED Days!server
           \/ r.op = "close" /\ Days!IsReplay(r.id) /\ Days!Reply(r, "ok") /\ UNCHANGED Days!server
           \/ r.op = "close" /\ ~Days!IsReplay(r.id) /\ Days!OpenDates # {} /\ Days!Closed(r.id, r.form) /\
                Days!Reply(r, "ok")
           \/ /\ r.op = "close" /\ ~Days!IsReplay(r.id) /\ Days!OpenDates = {} /\ UNCHANGED Days!server
              /\ Days!Reply(r, "refused") \/ (closings # {} /\ Days!Reply(r, "ok"))
  BY DEF Days!Serve
<1>2. PICK s : dayPage' = [dayPage EXCEPT !.sending = {[r EXCEPT !.reply = s]}] BY <1>1 DEF Days!Reply
<1> DEFINE q == [r EXCEPT !.reply = s]
<1>3. /\ q.op = r.op
      /\ r.op = "close" => DOMAIN q = {"op", "id", "form", "reply"} /\ q.id = r.id /\ q.form = r.form
      /\ r.op = "open" => DOMAIN q = {"op", "date", "reply"}
  BY DEF DayInv
<1> HIDE DEF q
<1>4. /\ DOMAIN dayPage' = DayFields /\ dayPage'.form = dayPage.form /\ dayPage'.confirmOpen = dayPage.confirmOpen
      /\ dayPage'.attempt = dayPage.attempt /\ dayPage'.sending = {q}
  <2>1. dayPage' = [dayPage EXCEPT !.sending = {q}] BY <1>2 DEF q
  <2> QED BY <1>0, <2>1 DEF DayFields
<1>5. dayPage'.attempt # 0 \/ dayPage'.confirmOpen => dayPage'.form.cash \in Cash BY <1>4 DEF DayInv
<1>6. \A k \in dayPage'.sending :
        /\ k.op = "close" => DOMAIN k = {"op", "id", "form", "reply"} /\ k.id # 0 /\ k.id = dayPage'.attempt /\
             k.form = dayPage'.form
        /\ k.op = "open" => DOMAIN k = {"op", "date", "reply"}
        /\ k.op \in {"open", "close"}
  BY <1>3, <1>4 DEF DayInv
<1>7. attemptIds' \in Nat /\ attemptIds' >= attemptIds /\ dayPage'.attempt \in 0 .. attemptIds' BY <1>0, <1>1, <1>4
<1>8. CASE UNCHANGED Days!server
  <2>1. UNCHANGED <<days, closings>> BY <1>8 DEF Days!server
  <2> QED BY <1>4, <1>5, <1>6, <1>7, <2>1, PageStep
<1>9. CASE r.op = "open" /\ Days!MayOpen(r.date) /\ days' = [days EXCEPT ![r.date] = "OPEN"] /\
             UNCHANGED <<expected, closings>>
  <2>1. days' \in [Date -> {"none", "OPEN", "CLOSED"}] /\ \A x, y \in Days!OpenDates' : x = y
    BY <1>9 DEF DayInv, Days!MayOpen, Days!OpenDates
  <2>2. Days!AttemptIsTheForm' /\ Days!AttemptClosesOnce' /\ \A c \in closings' : c.id \in 0 .. attemptIds'
    BY <1>1, <1>4, <1>9 DEF DayInv, Days!DayPagesInv, Days!AttemptIsTheForm, Days!AttemptClosesOnce
  <2> QED BY <1>4, <1>5, <1>6, <1>7, <2>1, <2>2 DEF DayInv, Days!DayPagesInv, AttemptOutlives
<1>10. CASE r.op = "close" /\ ~Days!IsReplay(r.id) /\ Days!Closed(r.id, r.form)
  <2>1. r.id \in 0 .. attemptIds /\ r.id # 0 /\ r.id = dayPage.attempt /\ r.form = dayPage.form BY <1>0, <1>10
       DEF DayInv
  <2>2. days' \in [Date -> {"none", "OPEN", "CLOSED"}] /\ \A x, y \in Days!OpenDates' : x = y BY <1>10, DayCloses
  <2>3. Days!AttemptIsTheForm' /\ Days!AttemptClosesOnce' /\ \A c \in closings' : c.id \in 0 .. attemptIds
    BY <1>4, <1>10, <2>1, ClosingStored
  <2>4. \A c \in closings' : c.id \in 0 .. attemptIds' BY <1>1, <2>3
  <2> QED BY <1>4, <1>5, <1>6, <1>7, <2>2, <2>3, <2>4 DEF DayInv, Days!DayPagesInv, AttemptOutlives
<1> QED BY <1>1, <1>8, <1>9, <1>10

(* Another tablet opens or closes the day.                                 *)
LEMMA ElsewhereStep ==
  ASSUME DayInv, Days!Elsewhere PROVE DayInv' /\ AttemptOutlives
<1>1. UNCHANGED <<attemptIds, dayPage>> BY DEF Days!Elsewhere
<1>2. AttemptOutlives BY <1>1 DEF AttemptOutlives
<1>3. CASE UNCHANGED <<days, closings>>
  <2>1. Days!DayPagesInv' /\ Days!OpenDates' = Days!OpenDates
    BY <1>1, <1>3 DEF DayInv, Days!DayPagesInv, Days!AttemptIsTheForm, Days!AttemptClosesOnce, Days!OpenDates
  <2> QED BY <1>1, <1>2, <1>3, <2>1 DEF DayInv
<1>4. ASSUME NEW d \in Date, Days!MayOpen(d), days' = [days EXCEPT ![d] = "OPEN"], UNCHANGED closings
      PROVE  DayInv'
  <2>1. days' \in [Date -> {"none", "OPEN", "CLOSED"}] /\ \A x, y \in Days!OpenDates' : x = y BY <1>4, DayOpens
  <2>2. Days!DayPagesInv' BY <1>1, <1>4 DEF DayInv, Days!DayPagesInv, Days!AttemptIsTheForm, Days!AttemptClosesOnce
  <2> QED BY <1>1, <1>4, <2>1, <2>2 DEF DayInv
<1>5. ASSUME NEW c \in Cash, Days!Closed(0, [cash |-> c, reason |-> "none"]) PROVE DayInv'
  <2> DEFINE f == [cash |-> c, reason |-> "none"]
  <2>1. 0 \in 0 .. attemptIds BY DEF DayInv
  <2>2. Days!Closed(0, f) BY <1>5
  <2> HIDE DEF f
  <2>3. days' \in [Date -> {"none", "OPEN", "CLOSED"}] /\ \A x, y \in Days!OpenDates' : x = y BY <2>2, DayCloses
  <2>4. Days!AttemptIsTheForm' /\ Days!AttemptClosesOnce' /\ \A k \in closings' : k.id \in 0 .. attemptIds
    BY <1>1, <2>1, <2>2, ClosingStored
  <2> QED BY <1>1, <2>3, <2>4 DEF DayInv, Days!DayPagesInv
<1> QED BY <1>2, <1>3, <1>4, <1>5 DEF Days!Elsewhere

(* Each step keeps the invariant, and an attempt outlives it unless it is  *)
(* answered or given up.                                                   *)
LEMMA DayNext == DayInv /\ [Days!Next]_(Days!vars) => DayInv' /\ AttemptOutlives
<1> SUFFICES ASSUME DayInv, [Days!Next]_(Days!vars) PROVE DayInv' /\ AttemptOutlives OBVIOUS
<1>1. CASE UNCHANGED Days!vars
  <2>1. UNCHANGED <<days, closings, attemptIds, dayPage>> BY <1>1 DEF Days!vars
  <2>2. Days!DayPagesInv' /\ Days!OpenDates' = Days!OpenDates
    BY <2>1 DEF DayInv, Days!DayPagesInv, Days!AttemptIsTheForm, Days!AttemptClosesOnce, Days!OpenDates
  <2> QED BY <2>1, <2>2 DEF DayInv, AttemptOutlives
<1>2. CASE Days!Visit("open") \/ Days!Visit("close") BY <1>2, VisitStep
<1>3. CASE Days!Loaded \/ Days!LoadFailed \/ Days!Retry \/ Days!LatestLoaded \/ Days!Dismiss BY <1>3, QuietStep
<1>4. CASE \E d \in Date : Days!SubmitOpen(d) BY <1>4, FormStep
<1>5. CASE \E c \in Cash, w \in {"none", "short"} : Days!Fill([cash |-> c, reason |-> w]) BY <1>5, FormStep
<1>6. CASE Days!SubmitClose
  <2>1. CASE dayPage.form.cash = dayPage.expected BY <1>6, <2>1, CloseStep DEF Days!SubmitClose
  <2>2. CASE dayPage.form.cash # dayPage.expected
    <3>1. UNCHANGED attemptIds BY <1>6, <2>2 DEF Days!SubmitClose
    <3> QED BY <1>6, <2>2, <3>1, QuietStep
  <2> QED BY <2>1, <2>2
<1>7. CASE Days!Confirm
  <2>1. Days!PerformClose /\ dayPage.form.cash \in Cash BY <1>7 DEF Days!Confirm, DayInv
  <2> QED BY <2>1, CloseStep
<1>8. CASE Days!Serve BY <1>8, ServeStep
<1>9. CASE Days!Answered \/ Days!Lost BY <1>9, AnswerStep
<1>10. CASE Days!Elsewhere BY <1>10, ElsewhereStep
<1> QED BY <1>1, <1>2, <1>3, <1>4, <1>5, <1>6, <1>7, <1>8, <1>9, <1>10 DEF Days!Next

(* No day is open at first.                                                *)
LEMMA DayInit == Days!Init => DayInv
<1> SUFFICES ASSUME Days!Init PROVE DayInv OBVIOUS
<1>1. dayPage.attempt = 0 /\ ~dayPage.confirmOpen /\ dayPage.sending = {} /\ DOMAIN dayPage = DayFields
  BY FreshDay DEF Days!Init
<1>2. attemptIds = 0 /\ closings = {} /\ days \in [Date -> {"none", "OPEN", "CLOSED"}] /\ Days!OpenDates = {}
  BY DEF Days!Init, Days!OpenDates
<1> QED BY <1>1, <1>2 DEF DayInv, Days!DayPagesInv, Days!AttemptIsTheForm, Days!AttemptClosesOnce

(* The invariant of the day pages.                                         *)
THEOREM DayInvariant == Days!Spec => []DayInv
BY DayInit, DayNext, PTL DEF Days!Spec

(* The invariant gives the properties of the day pages.                    *)
THEOREM DaysHold == Days!Spec => []Days!DayPagesInv
<1>1. DayInv => Days!DayPagesInv BY DEF DayInv
<1> QED BY <1>1, DayInvariant, PTL

(* An attempt's id outlives errors.                                        *)
THEOREM AttemptsHold == Days!Spec => Days!AttemptsOutliveErrors
<1>1. DayInv /\ [Days!Next]_(Days!vars) => [dayPage.attempt # 0 /\ dayPage'.attempt # dayPage.attempt
        => dayPage'.form # dayPage.form]_(Days!vars)
  BY DayNext DEF AttemptOutlives
<1> QED BY <1>1, DayInvariant, PTL DEF Days!Spec, Days!AttemptsOutliveErrors
-----------------------------------------------------------------------------
(* SchedulePage: a week of shifts.                                         *)

Draft == [week : Week \cup {0}, lines : Seq(Schedule!Line)]
WeekLoad == [week : Week, alive : BOOLEAN]

DraftTypes ==
  /\ weekStored \in [Week -> Seq(Schedule!Line)] /\ weekStart \in Week /\ week \in Draft /\ weekSaving \in BOOLEAN
  /\ weekLoading \in BOOLEAN /\ weekLoads \subseteq WeekLoad
  /\ weekSent \subseteq [week : Week, lines : Seq(Schedule!Line)]
  /\ week # Schedule!NoWeek => week.week \in Week

SchedulePageIInv ==
  /\ DraftTypes /\ Schedule!SchedulePageInv
  /\ weekNotice => week.week \in Week
  /\ \A c, d \in weekSent : c = d

(* The week as it is first shown, while it loads.                          *)
LEMMA DraftInit == Schedule!Init => SchedulePageIInv
<1> SUFFICES ASSUME Schedule!Init PROVE SchedulePageIInv OBVIOUS
<1> USE DEF Schedule!Init
<1>1. <<>> \in Seq(Schedule!Line) OBVIOUS
<1>2. Schedule!NoWeek \in Draft BY <1>1 DEF Schedule!NoWeek, Draft
<1>3. DraftTypes
  <2>1. weekStored \in [Week -> Seq(Schedule!Line)] BY <1>1
  <2>2. [week |-> 1, alive |-> TRUE] \in WeekLoad BY WeekAssumption DEF WeekLoad
  <2> QED BY <1>2, <2>1, <2>2, WeekAssumption DEF DraftTypes
<1>4. Schedule!NoticeIsTrue /\ Schedule!LoadingIsForTheTab BY DEF Schedule!NoticeIsTrue, Schedule!LoadingIsForTheTab
<1>5. Schedule!OneSaveAtATime BY FS_EmptySet, ScheduleCardinality DEF Schedule!OneSaveAtATime
<1> QED BY <1>3, <1>4, <1>5 DEF SchedulePageIInv, Schedule!SchedulePageInv

(* Another week is chosen, and its load begun.                             *)
LEMMA DraftGoes ==
  ASSUME SchedulePageIInv, NEW w \in Week, Schedule!GoToWeek(w)
  PROVE  SchedulePageIInv' /\ week' = week
<1> USE DEF SchedulePageIInv, Schedule!SchedulePageInv, Schedule!GoToWeek
<1>0. \A l \in weekLoads : [l EXCEPT !.alive = FALSE] \in WeekLoad /\ [l EXCEPT !.alive = FALSE].alive = FALSE
  BY DEF DraftTypes, WeekLoad
<1>5. [week |-> w, alive |-> TRUE] \in WeekLoad BY DEF WeekLoad
<1>1. weekLoads' \subseteq WeekLoad BY <1>0, <1>5
<1>2. DraftTypes' BY <1>1 DEF DraftTypes
<1>3. Schedule!NoticeIsTrue' /\ Schedule!OneSaveAtATime' BY DEF Schedule!NoticeIsTrue, Schedule!OneSaveAtATime
<1>4. Schedule!LoadingIsForTheTab'
  <2>1. [week |-> w, alive |-> TRUE] \in weekLoads' OBVIOUS
  <2>2. \A l \in weekLoads' : l.alive => l = [week |-> w, alive |-> TRUE] BY <1>0
  <2>3. \E l \in weekLoads' : l.alive BY <2>1
  <2>4. \A l \in weekLoads' : l.alive => l.week = w BY <2>2
  <2>5. weekLoading' = TRUE /\ weekStart' = w OBVIOUS
  <2> HIDE DEF Schedule!GoToWeek
  <2> QED BY <2>3, <2>4, <2>5 DEF Schedule!LoadingIsForTheTab
<1> QED BY <1>2, <1>3, <1>4

(* A load replaces the week on show only if it is for the tab.             *)
LEMMA DraftLoaded ==
  ASSUME SchedulePageIInv, NEW l \in weekLoads, NEW ok \in BOOLEAN, Schedule!Loaded(l, ok)
  PROVE  SchedulePageIInv' /\ (week' = week \/ week'.week = weekStart)
<1> USE DEF SchedulePageIInv, Schedule!SchedulePageInv
<1>1. l \in WeekLoad /\ weekStored[l.week] \in Seq(Schedule!Line) /\
        UNCHANGED <<weekStored, weekStart, weekSaving, weekNotice, weekDirty, weekSent, weekEdits, weekKept>>
      /\ weekLoads' = weekLoads \ {l}
  BY DEF DraftTypes, Schedule!Loaded, WeekLoad
<1>2. week' = week \/ (week' = [week |-> l.week, lines |-> weekStored[l.week]] /\ l.alive) BY DEF Schedule!Loaded,
     Schedule!IsAlive
<1>3. weekLoading' = IF l.alive THEN FALSE ELSE weekLoading BY DEF Schedule!Loaded, Schedule!IsAlive
<1>4. l.alive => l.week = weekStart BY DEF Schedule!LoadingIsForTheTab
<1>5. week' \in Draft /\ (week' # Schedule!NoWeek => week'.week \in Week)
  BY <1>1, <1>2 DEF DraftTypes, Draft, WeekLoad
<1>6. week' = week \/ (week'.week = weekStart /\ week'.lines = weekStored[week'.week]) BY <1>2, <1>4
<1>7. DraftTypes' BY <1>1, <1>3, <1>5 DEF DraftTypes
<1>8. Schedule!NoticeIsTrue' /\ Schedule!OneSaveAtATime' BY <1>1, <1>6 DEF Schedule!NoticeIsTrue,
     Schedule!OneSaveAtATime
<1>9. Schedule!LoadingIsForTheTab'
  <2>1. \A k \in weekLoads : k.alive => k = [week |-> weekStart, alive |-> TRUE]
    BY DEF Schedule!LoadingIsForTheTab, DraftTypes, WeekLoad
  <2>2. CASE l.alive
    <3>1. \A k \in weekLoads' : ~k.alive BY <1>1, <2>1, <2>2
    <3> QED BY <3>1, <1>3, <2>2 DEF Schedule!LoadingIsForTheTab
  <2>3. CASE ~l.alive
    <3>1. \A k \in weekLoads : k.alive <=> k \in weekLoads' /\ k.alive BY <1>1, <2>3
    <3> QED BY <3>1, <1>1, <1>3, <2>3 DEF Schedule!LoadingIsForTheTab
  <2> QED BY <2>2, <2>3
<1>10. weekNotice' => week'.week \in Week BY <1>1, <1>6, <1>7 DEF DraftTypes
<1> QED BY <1>1, <1>6, <1>7, <1>8, <1>9, <1>10

(* A day's shifts are replaced in the week on show.                        *)
LEMMA DraftUpdates ==
  ASSUME SchedulePageIInv, NEW lines \in Seq(Schedule!Line), Schedule!UpdateDay(lines)
  PROVE  SchedulePageIInv' /\ week'.week = week.week
<1> USE DEF SchedulePageIInv, Schedule!SchedulePageInv
<1>1. week' = [week EXCEPT !.lines = lines] /\ weekNotice' = FALSE /\ week # Schedule!NoWeek
      /\ UNCHANGED <<weekStored, weekStart, weekLoading, weekSaving, weekError, weekLoads, weekSent, weekKept>>
  BY DEF Schedule!UpdateDay, Schedule!ClearNotice
<1>2. week' \in Draft /\ week'.week = week.week BY <1>1 DEF DraftTypes, Draft
<1>3. DraftTypes' BY <1>1, <1>2 DEF DraftTypes
<1>4. Schedule!NoticeIsTrue' /\ Schedule!OneSaveAtATime' /\ Schedule!LoadingIsForTheTab'
  BY <1>1 DEF Schedule!NoticeIsTrue, Schedule!OneSaveAtATime, Schedule!LoadingIsForTheTab
<1> QED BY <1>1, <1>2, <1>3, <1>4

(* A shift is added, changed or removed.                                   *)
LEMMA DraftEdits ==
  ASSUME SchedulePageIInv, Schedule!AddShift \/ Schedule!UpdateShift \/ Schedule!RemoveShift
  PROVE  SchedulePageIInv' /\ week'.week = week.week
<1>1. week.lines \in Seq(Schedule!Line) BY DEF SchedulePageIInv, DraftTypes, Draft
<1>2. CASE Schedule!AddShift
  <2>1. PICK m \in Staff : Schedule!UpdateDay(Append(week.lines, [staff |-> m, valid |-> TRUE])) BY <1>2
       DEF Schedule!AddShift
  <2>2. Append(week.lines, [staff |-> m, valid |-> TRUE]) \in Seq(Schedule!Line) BY <1>1 DEF Schedule!Line
  <2> QED BY <2>1, <2>2, DraftUpdates
<1>3. CASE Schedule!UpdateShift
  <2>1. PICK i \in DOMAIN week.lines :
           \/ \E m \in Staff : Schedule!UpdateDay([week.lines EXCEPT ![i].staff = m])
           \/ Schedule!UpdateDay([week.lines EXCEPT ![i].valid = ~@])
    BY <1>3 DEF Schedule!UpdateShift
  <2>2. ASSUME NEW m \in Staff, Schedule!UpdateDay([week.lines EXCEPT ![i].staff = m])
        PROVE  SchedulePageIInv' /\ week'.week = week.week
    <3> DEFINE k == [week.lines[i] EXCEPT !.staff = m]
    <3>1. week.lines[i] \in Schedule!Line BY <1>1, <2>1
    <3>2. k \in Schedule!Line BY <3>1 DEF Schedule!Line
    <3>3. [week.lines EXCEPT ![i].staff = m] = [week.lines EXCEPT ![i] = k] OBVIOUS
    <3> HIDE DEF k
    <3>4. [week.lines EXCEPT ![i] = k] \in Seq(Schedule!Line) BY <1>1, <2>1, <3>2
    <3> QED BY <2>2, <3>3, <3>4, DraftUpdates
  <2>3. CASE Schedule!UpdateDay([week.lines EXCEPT ![i].valid = ~@])
    <3> DEFINE k == [week.lines[i] EXCEPT !.valid = ~@]
    <3>1. week.lines[i] \in Schedule!Line BY <1>1, <2>1
    <3>2. k \in Schedule!Line BY <3>1 DEF Schedule!Line
    <3>3. [week.lines EXCEPT ![i].valid = ~@] = [week.lines EXCEPT ![i] = k] OBVIOUS
    <3> HIDE DEF k
    <3>4. [week.lines EXCEPT ![i] = k] \in Seq(Schedule!Line) BY <1>1, <2>1, <3>2
    <3> QED BY <2>3, <3>3, <3>4, DraftUpdates
  <2> QED BY <2>1, <2>2, <2>3
<1>4. CASE Schedule!RemoveShift
  <2>1. PICK i \in DOMAIN week.lines : Schedule!UpdateDay(Schedule!Without(week.lines, i)) BY <1>4
       DEF Schedule!RemoveShift
  <2>2. Schedule!Without(week.lines, i) \in Seq(Schedule!Line) BY <1>1, <2>1 DEF Schedule!Without
  <2> QED BY <2>1, <2>2, DraftUpdates
<1> QED BY <1>2, <1>3, <1>4

(* The week is sent as it is on show.                                      *)
LEMMA DraftSaves ==
  ASSUME SchedulePageIInv, Schedule!Save
  PROVE  SchedulePageIInv' /\ week' = week
<1> USE DEF SchedulePageIInv, Schedule!SchedulePageInv
<1>1. UNCHANGED <<weekStored, weekStart, week, weekLoading, weekNotice, weekDirty, weekLoads>> BY DEF Schedule!Save
<1>2. CASE Schedule!IsSavable(week.lines)
  <2>1. weekSaving' = TRUE /\ weekSent' = weekSent \cup {week} /\ ~weekSaving /\ week # Schedule!NoWeek BY <1>2
       DEF Schedule!Save, Schedule!MayPress
  <2>2. weekSent = {} BY <2>1 DEF Schedule!OneSaveAtATime
  <2>3. weekSent' = {week} BY <2>1, <2>2
  <2>4. Schedule!Cardinality(weekSent') = 1 BY <2>3, FS_Singleton, ScheduleCardinality
  <2>5. week \in [week : Week, lines : Seq(Schedule!Line)] BY <2>1 DEF DraftTypes, Draft
  <2>6. Schedule!OneSaveAtATime' BY <2>1, <2>3, <2>4 DEF Schedule!OneSaveAtATime
  <2>7. DraftTypes' BY <1>1, <2>1, <2>3, <2>5 DEF DraftTypes
  <2>8. Schedule!NoticeIsTrue' /\ Schedule!LoadingIsForTheTab' BY <1>1 DEF Schedule!NoticeIsTrue,
       Schedule!LoadingIsForTheTab
  <2> QED BY <1>1, <2>3, <2>6, <2>7, <2>8
<1>3. CASE ~Schedule!IsSavable(week.lines)
  <2>1. UNCHANGED <<weekSaving, weekSent>> BY <1>3 DEF Schedule!Save
  <2> QED BY <1>1, <2>1 DEF DraftTypes, Schedule!NoticeIsTrue, Schedule!LoadingIsForTheTab, Schedule!OneSaveAtATime
<1> QED BY <1>2, <1>3

(* A save's answer arrives, or its failure.                                *)
LEMMA DraftAnswered ==
  ASSUME SchedulePageIInv, NEW c \in weekSent, NEW ok \in BOOLEAN, Schedule!Answered(c, ok)
  PROVE  SchedulePageIInv' /\ (week' = week \/ week' = weekKept')
<1> USE DEF SchedulePageIInv, Schedule!SchedulePageInv
<1>1. UNCHANGED <<weekStart, weekLoading, weekLoads, weekEdits>> /\ weekSent' = {} /\ weekSaving' = FALSE BY
     DEF Schedule!Answered
<1>2. Schedule!OneSaveAtATime' BY <1>1, FS_EmptySet, ScheduleCardinality DEF Schedule!OneSaveAtATime
<1>3. CASE ok
  <2>1. weekStored' = [weekStored EXCEPT ![c.week] = c.lines] /\ week' = c /\ weekKept' = c BY <1>3
       DEF Schedule!Answered
  <2>2. c \in [week : Week, lines : Seq(Schedule!Line)] BY DEF DraftTypes
  <2>3. DraftTypes' BY <1>1, <2>1, <2>2 DEF DraftTypes, Draft
  <2>4. Schedule!NoticeIsTrue' /\ Schedule!LoadingIsForTheTab' BY <1>1, <2>1, <2>2 DEF Schedule!NoticeIsTrue,
       Schedule!LoadingIsForTheTab, DraftTypes
  <2> QED BY <1>1, <1>2, <2>1, <2>2, <2>3, <2>4
<1>4. CASE ~ok
  <2>1. UNCHANGED <<weekStored, week, weekDirty, weekNotice, weekKept>> BY <1>4 DEF Schedule!Answered
  <2> QED BY <1>1, <1>2, <2>1 DEF DraftTypes, Schedule!NoticeIsTrue, Schedule!LoadingIsForTheTab
<1> QED BY <1>3, <1>4

(* Each step keeps the invariant, and the week on show changes only to     *)
(* that of the tab or to what a save kept.                                 *)
LEMMA DraftNext ==
  SchedulePageIInv /\ [Schedule!Next]_(Schedule!vars) =>
    SchedulePageIInv' /\ (week'.week # week.week => week'.week = weekStart \/ week' = weekKept')
<1> SUFFICES ASSUME SchedulePageIInv, [Schedule!Next]_(Schedule!vars)
             PROVE  SchedulePageIInv' /\ (week'.week # week.week => week'.week = weekStart \/ week' = weekKept')
  OBVIOUS
<1>1. CASE UNCHANGED Schedule!vars
  BY <1>1 DEF Schedule!vars, SchedulePageIInv, Schedule!SchedulePageInv, DraftTypes, Schedule!NoticeIsTrue,
       Schedule!LoadingIsForTheTab, Schedule!OneSaveAtATime
<1>2. CASE \E w \in Week : Schedule!GoToWeek(w) BY <1>2, DraftGoes
<1>3. CASE \E l \in weekLoads, ok \in BOOLEAN : Schedule!Loaded(l, ok) BY <1>3, DraftLoaded
<1>4. CASE Schedule!AddShift \/ Schedule!UpdateShift \/ Schedule!RemoveShift BY <1>4, DraftEdits
<1>5. CASE Schedule!Save BY <1>5, DraftSaves
<1>6. CASE \E c \in weekSent, ok \in BOOLEAN : Schedule!Answered(c, ok) BY <1>6, DraftAnswered
<1> QED BY <1>1, <1>2, <1>3, <1>4, <1>5, <1>6 DEF Schedule!Next

(* The invariant of the schedule page.                                     *)
THEOREM ScheduleInvariant == Schedule!Spec => []SchedulePageIInv
  BY DraftInit, DraftNext, PTL DEF Schedule!Spec

(* A load is for the week of the tab.                                      *)
THEOREM SchedLoads == Schedule!Spec => Schedule!LoadsAreForTheTab
  BY ScheduleInvariant, DraftNext, PTL DEF Schedule!Spec, Schedule!LoadsAreForTheTab
-----------------------------------------------------------------------------
(* ProductsPage: the lists that the filters load.                          *)

(* The load that counts is the one of the filter chosen last, and it lists that filter's products. *)
LoadsAreOfFilters ==
  \A l \in listLoads :
    /\ DOMAIN l = {"filter", "active", "result"}
    /\ l.active => l.filter = filter
    /\ l.result.done => DOMAIN l.result.rows = l.filter

(* Each step keeps what is said of the loads, and a list that has loaded   *)
(* is the filter's.                                                        *)
LEMMA ProductsNext ==
  LoadsAreOfFilters /\ [Products!Next]_(Products!vars) =>
    LoadsAreOfFilters' /\ (listLoading /\ ~listLoading' /\ products' # products => DOMAIN products' = filter')
<1> SUFFICES ASSUME LoadsAreOfFilters, [Products!Next]_(Products!vars)
             PROVE  LoadsAreOfFilters' /\ (listLoading /\ ~listLoading' /\ products' # products
                      => DOMAIN products' = filter')
  OBVIOUS
<1>1. CASE UNCHANGED Products!vars BY <1>1 DEF Products!vars, LoadsAreOfFilters
<1>2. ASSUME NEW f \in Filter, Products!SetFilter(f) PROVE LoadsAreOfFilters' /\ products' = products
  <2>1. /\ filter' = f /\ products' = products
        /\ listLoads' = {[l EXCEPT !.active = FALSE] :
             l \in listLoads} \cup {[filter |-> f, active |-> TRUE, result |-> Products!Pending]}
    BY <1>2 DEF Products!SetFilter
  <2>2. Products!Pending.done = FALSE BY DEF Products!Pending
  <2>3. SUFFICES ASSUME NEW k \in listLoads'
        PROVE  /\ DOMAIN k = {"filter", "active", "result"}
               /\ k.active => k.filter = f /\ (k.result.done => DOMAIN k.result.rows = k.filter)
               /\ k.result.done => DOMAIN k.result.rows = k.filter
    BY <2>1 DEF LoadsAreOfFilters
  <2>4. CASE k = [filter |-> f, active |-> TRUE, result |-> Products!Pending] BY <2>2, <2>4
  <2>5. ASSUME NEW l \in listLoads, k = [l EXCEPT !.active = FALSE]
        PROVE  /\ DOMAIN k = {"filter", "active", "result"}
               /\ ~k.active
               /\ k.result.done => DOMAIN k.result.rows = k.filter
    <3>1. DOMAIN l = {"filter", "active", "result"} BY DEF LoadsAreOfFilters
    <3>2. DOMAIN k = DOMAIN l /\ k.active = FALSE /\ k.filter = l.filter /\ k.result = l.result BY <2>5, <3>1
    <3> QED BY <3>1, <3>2 DEF LoadsAreOfFilters
  <2> QED BY <2>1, <2>4, <2>5
<1>3. ASSUME NEW l \in listLoads, Products!Listed(l) PROVE LoadsAreOfFilters' /\ products' = products
  <2> DEFINE r == [done |-> TRUE, rows |-> Products!Matching(l.filter)]
             k == [l EXCEPT !.result = r]
  <2>1. DOMAIN l = {"filter", "active", "result"} BY DEF LoadsAreOfFilters
  <2>3. listLoads' = (listLoads \ {l}) \cup {k} /\ filter' = filter /\ products' = products BY <1>3
       DEF Products!Listed
  <2>4. DOMAIN Products!Matching(l.filter) = l.filter BY DEF Products!Matching
  <2>5. r.done /\ DOMAIN r.rows = l.filter BY <2>4
  <2> HIDE DEF r
  <2>6. DOMAIN k = DOMAIN l /\ k.filter = l.filter /\ k.active = l.active /\ k.result = r BY <2>1
  <2> HIDE DEF k
  <2> QED BY <2>3, <2>1, <2>5, <2>6 DEF LoadsAreOfFilters
<1>4. ASSUME NEW l \in listLoads, Products!Loaded(l)
      PROVE  LoadsAreOfFilters' /\ (listLoading /\ ~listLoading' /\ products' # products => DOMAIN products' = filter')
  <2>1. listLoads' = listLoads \ {l} /\ filter' = filter BY <1>4 DEF Products!Loaded
  <2>2. products' # products => l.active /\ l.result.done /\ products' = l.result.rows
    BY <1>4 DEF Products!Loaded, Products!IsActiveRequest
  <2> QED BY <2>1, <2>2 DEF LoadsAreOfFilters
<1>5. ASSUME NEW l \in listLoads, Products!LoadFailed(l) PROVE LoadsAreOfFilters' /\ products' = products
  BY <1>5 DEF Products!LoadFailed, LoadsAreOfFilters
<1>6. ASSUME NEW p \in Product, Products!ChangeAvailability(p) PROVE LoadsAreOfFilters' /\ listLoading' = listLoading
  BY <1>6 DEF Products!ChangeAvailability, LoadsAreOfFilters
<1>7. ASSUME NEW c \in listChanges, Products!Stored(c) \/ Products!Changed(c) \/ Products!ChangeFailed(c)
      PROVE LoadsAreOfFilters' /\ listLoading' = listLoading
  BY <1>7 DEF Products!Stored, Products!Changed, Products!ChangeFailed, LoadsAreOfFilters
<1> QED BY <1>1, <1>2, <1>3, <1>4, <1>5, <1>6, <1>7 DEF Products!Next

(* A list that has loaded is the one of the filter chosen last.            *)
THEOREM ProductsLoads == Products!Spec => Products!LoadsAreForTheFilter
<1>1. Products!Init => LoadsAreOfFilters BY DEF Products!Init, LoadsAreOfFilters, Products!Pending
<1> QED BY <1>1, ProductsNext, PTL DEF Products!Spec, Products!LoadsAreForTheFilter
-----------------------------------------------------------------------------
(* CompensationForm: a member's pay for a day.                             *)

IsForm(f) == DOMAIN f = {"entry", "staff", "date", "amount"} /\ DOMAIN f.amount = Pay!Field

(* One form or none; the suggestion awaited is the one of its day and member; an amount split in two was typed. *)
PayInv ==
  /\ Pay!CompensationFormInv /\ payDirty \subseteq Pay!Field /\ paySource \subseteq Pay!Field
  /\ \A f, g \in payForm : f = g
  /\ \A f \in payForm : IsForm(f)
  /\ \A f \in payForm : Pay!IsNew(f) => (paySplit # {} => "commission" \in payDirty)
  /\ \A a \in payAsks : DOMAIN a = {"staff", "date", "current"} /\
       (a.current => Pay!Key(payForm) = {<<a.staff, a.date>>})

AnAmountIsKept(a) ==
  a \notin payAsks' => \A f \in payForm : \A g \in payForm' : \A x \in payDirty :
                       Pay!Key({f}) = Pay!Key({g}) => g.amount[x] = f.amount[x]

(* The effect of a changed form on what is asked. *)
LEMMA AsksFollow ==
  ASSUME PayInv, NEW fs, NEW marks, Pay!Edited(fs, marks), \A f, g \in fs : f = g
  PROVE  /\ \A a \in payAsks' : DOMAIN a = {"staff", "date", "current"} /\
              (a.current => Pay!Key(fs) = {<<a.staff, a.date>>})
         /\ \A a \in payAsks : AnAmountIsKept(a)
         /\ payForm' = fs
         /\ Pay!Key(fs) = Pay!Key(payForm) => paySource' = marks /\ payGross' = payGross
         /\ Pay!Key(fs) # Pay!Key(payForm) /\ Pay!Key(fs) = {} => paySource' = marks /\ payGross' = "none"
         /\ Pay!Key(fs) # Pay!Key(payForm) /\ Pay!Key(fs) # {}
              => paySource' = marks \ Pay!Shared /\ payGross' = "loading"
<1>1. payForm' = fs BY DEF Pay!Edited
<1>2. Pay!Key(fs) = Pay!Key(payForm) => payAsks' = payAsks /\ paySource' = marks /\ payGross' = payGross BY
     DEF Pay!Edited
<1>3. \A a \in payAsks : AnAmountIsKept(a)
  <2>1. ASSUME NEW f \in payForm, NEW g \in payForm', Pay!Key({f}) = Pay!Key({g}) PROVE payAsks' = payAsks
    <3>1. payForm = {f} /\ payForm' = {g} BY <1>1, <2>1 DEF PayInv
    <3> QED BY <1>1, <1>2, <2>1, <3>1
  <2> QED BY <2>1 DEF AnAmountIsKept
<1>4. /\ Pay!Key(fs) # Pay!Key(payForm) /\ Pay!Key(fs) = {} => paySource' = marks /\ payGross' = "none"
      /\ Pay!Key(fs) # Pay!Key(payForm) /\ Pay!Key(fs) # {} => paySource' = marks \ Pay!Shared /\ payGross' = "loading"
  BY DEF Pay!Edited
<1>5. ASSUME NEW a \in payAsks'
      PROVE  DOMAIN a = {"staff", "date", "current"} /\ (a.current => Pay!Key(fs) = {<<a.staff, a.date>>})
  <2>1. CASE Pay!Key(fs) = Pay!Key(payForm) BY <1>2, <2>1 DEF PayInv
  <2>2. CASE Pay!Key(fs) # Pay!Key(payForm)
    <3>1. \/ \E b \in payAsks : a = [b EXCEPT !.current = FALSE]
          \/ Pay!Key(fs) # {} /\ \E f \in fs : a = [staff |-> f.staff, date |-> f.date, current |-> TRUE]
      BY <2>2 DEF Pay!Edited
    <3>2. ASSUME NEW b \in payAsks, a = [b EXCEPT !.current = FALSE]
          PROVE DOMAIN a = {"staff", "date", "current"} /\ ~a.current
      <4>1. DOMAIN b = {"staff", "date", "current"} BY DEF PayInv
      <4> QED BY <3>2, <4>1
    <3>3. ASSUME NEW f \in fs, Pay!Key(fs) # {}, a = [staff |-> f.staff, date |-> f.date, current |-> TRUE]
          PROVE  DOMAIN a = {"staff", "date", "current"} /\ Pay!Key(fs) = {<<a.staff, a.date>>}
      <4>1. a.staff = f.staff /\ a.date = f.date /\ DOMAIN a = {"staff", "date", "current"} BY <3>3
      <4>2. fs = {f} OBVIOUS
      <4>3. Pay!Key({f}) = {<<f.staff, f.date>>} BY <3>3, <4>2 DEF Pay!Key
      <4> QED BY <4>1, <4>2, <4>3
    <3> QED BY <3>1, <3>2, <3>3
  <2> QED BY <2>1, <2>2
<1> QED BY <1>1, <1>2, <1>3, <1>4, <1>5

(* What is left to show of a step that edits the form. *)
LEMMA EditKeepsInv ==
  ASSUME PayInv, NEW g, NEW marks, Pay!Edited({g}, marks), IsForm(g), payDirty' \subseteq Pay!Field,
           marks \subseteq Pay!Field,
         Pay!IsNew(g) => /\ paySplit' # {} => "commission" \in payDirty'
                         /\ "salary" \in marks => \A s \in g.staff : g.amount.salary = Base[s]
                         /\ marks \cap payDirty' \subseteq (IF Pay!Key({g}) = Pay!Key(payForm) THEN {} ELSE Pay!Shared)
                         /\ \A a \in paySplit' : g.amount.commission = {a \div 2}
                         /\ Pay!Key({g}) = Pay!Key(payForm) /\ payGross = "ready" =>
                              \A x \in marks \cap Pay!Shared : g.amount[x] = Pay!Suggested(g.staff, g.date)[x]
  PROVE  PayInv' /\ \A a \in payAsks : AnAmountIsKept(a)
<1> DEFINE fs == {g}
<1>1. \A f, h \in fs : f = h OBVIOUS
<1>2. Pay!Edited(fs, marks) OBVIOUS
<1>3. /\ \A a \in payAsks' : DOMAIN a = {"staff", "date", "current"} /\
           (a.current => Pay!Key(fs) = {<<a.staff, a.date>>})
      /\ \A a \in payAsks : AnAmountIsKept(a)
      /\ payForm' = fs
      /\ Pay!Key(fs) = Pay!Key(payForm) => paySource' = marks /\ payGross' = payGross
      /\ Pay!Key(fs) # Pay!Key(payForm) /\ Pay!Key(fs) = {} => paySource' = marks /\ payGross' = "none"
      /\ Pay!Key(fs) # Pay!Key(payForm) /\ Pay!Key(fs) # {} => paySource' = marks \ Pay!Shared /\ payGross' = "loading"
  <2> HIDE DEF fs
  <2> QED BY <1>1, <1>2, AsksFollow
<1>4. Pay!IsNew(g) => Pay!Key(fs) # {} BY DEF Pay!Key, Pay!IsNew, fs
<1>5. paySource' \subseteq Pay!Field BY <1>3
<1>6. Pay!MarkedIsSuggested'
  <2> SUFFICES ASSUME Pay!IsNew(g)
               PROVE  /\ \A x \in paySource' \cap Pay!Shared : payGross' = "ready"
                           => g.amount[x] = Pay!Suggested(g.staff, g.date)[x]
                      /\ "salary" \in paySource' => \A s \in g.staff : g.amount.salary = Base[s]
                      /\ paySource' \cap payDirty' = {}
    BY <1>3 DEF Pay!MarkedIsSuggested
  <2>1. CASE Pay!Key(fs) = Pay!Key(payForm) BY <1>3, <2>1
  <2>2. CASE Pay!Key(fs) # Pay!Key(payForm) BY <1>3, <1>4, <2>2 DEF Pay!Shared
  <2> QED BY <2>1, <2>2
<1>7. Pay!SplitCanBeUndone' BY <1>3 DEF Pay!SplitCanBeUndone
<1>8. Pay!Key(payForm') = Pay!Key(fs) BY <1>3
<1> QED BY <1>3, <1>5, <1>6, <1>7, <1>8 DEF PayInv, Pay!CompensationFormInv

(* Fields that are marked, with none of their amounts changed, keep the    *)
(* invariant and what was typed.                                           *)
LEMMA EmptiesKeepInv ==
  ASSUME PayInv, NEW marks, Pay!Edited({}, marks), marks \subseteq Pay!Field, payDirty' \subseteq Pay!Field
  PROVE  PayInv' /\ \A a \in payAsks : AnAmountIsKept(a)
<1>1. /\ \A a \in payAsks' : DOMAIN a = {"staff", "date", "current"} /\
           (a.current => Pay!Key({}) = {<<a.staff, a.date>>})
      /\ \A a \in payAsks : AnAmountIsKept(a)
      /\ payForm' = {}
  BY AsksFollow
<1>2. Pay!Key({}) = {} BY DEF Pay!Key
<1>3. paySource' = marks BY <1>2, AsksFollow
<1> QED BY <1>1, <1>3 DEF PayInv, Pay!CompensationFormInv, Pay!MarkedIsSuggested, Pay!SplitCanBeUndone

(* Another member is chosen in the form.                                   *)
LEMMA StaffChosen ==
  ASSUME PayInv, NEW f \in payForm, NEW s \in Member, Pay!ChooseStaff(f, s)
  PROVE  PayInv' /\ \A a \in payAsks : AnAmountIsKept(a)
<1> DEFINE m == [salary |-> Base[s], personal |-> {},
                 commission |-> IF payGross = "ready" THEN Pay!Suggested({}, f.date).commission
                   ELSE f.amount.commission]
           g == [f EXCEPT !.staff = {s}, !.amount = m]
           marks == (IF Base[s] # {} THEN {"salary"} ELSE {}) \cup (IF payGross = "ready" THEN {"commission"} ELSE {})
<1>1. Pay!Edited({g}, marks) /\ payDirty' = {} /\ paySplit' = {} /\ Pay!IsNew(f) /\ f.staff # {s}
  BY DEF Pay!ChooseStaff
<1>2. IsForm(f) BY DEF PayInv
<1>3. DOMAIN m = Pay!Field /\ m.salary = Base[s] BY DEF Pay!Field
<1> HIDE DEF m
<1>4. IsForm(g) /\ g.entry = f.entry /\ g.staff = {s} /\ g.date = f.date /\ g.amount = m BY <1>2, <1>3 DEF IsForm
<1> HIDE DEF g
<1>5. marks \subseteq Pay!Field BY DEF Pay!Field
<1>6. payForm = {f} BY DEF PayInv
<1>7. Pay!Key({g}) = {<<{s}, f.date>>} /\ Pay!Key(payForm) = {<<f.staff, f.date>>} BY <1>1, <1>4, <1>6 DEF Pay!Key,
     Pay!IsNew
<1>12. <<{s}, f.date>> # <<f.staff, f.date>> BY <1>1
<1>8. Pay!Key({g}) # Pay!Key(payForm) BY <1>7, <1>12
<1> HIDE DEF marks
<1>9. \A t \in g.staff : g.amount.salary = Base[t] BY <1>3, <1>4
<1> QED BY <1>1, <1>4, <1>5, <1>8, <1>9, EditKeepsInv

(* Another day is chosen in the form.                                      *)
LEMMA DateChosen ==
  ASSUME PayInv, NEW f \in payForm, NEW d \in PayDay, Pay!ChooseDate(f, d)
  PROVE  PayInv' /\ \A a \in payAsks : AnAmountIsKept(a)
<1> DEFINE m == [[f.amount EXCEPT !.commission = {}] EXCEPT !.personal = {}]
           g == [f EXCEPT !.date = d, !.amount = m]
           h == [f EXCEPT !.date = d, !.amount.commission = {}, !.amount.personal = {}]
<1>1. Pay!Edited({h}, paySource \ Pay!Shared) /\ payDirty' = {} /\ paySplit' = {} /\ Pay!IsNew(f) /\ f.date # d
  BY DEF Pay!ChooseDate
<1>2. IsForm(f) BY DEF PayInv
<1>3. DOMAIN m = Pay!Field /\ m.salary = f.amount.salary BY <1>2 DEF IsForm, Pay!Field
<1> HIDE DEF m
<1>4. IsForm(g) /\ g.entry = f.entry /\ g.staff = f.staff /\ g.date = d /\ g.amount = m BY <1>2, <1>3 DEF IsForm
<1>10. h = g BY <1>2 DEF m, IsForm, Pay!Field
<1> HIDE DEF g, h
<1>5. paySource \ Pay!Shared \subseteq Pay!Field BY DEF PayInv
<1>6. payForm = {f} BY DEF PayInv
<1>7. Pay!Key({g}) = {<<f.staff, d>>} /\ Pay!Key(payForm) = {<<f.staff, f.date>>} BY <1>1, <1>4, <1>6 DEF Pay!Key,
     Pay!IsNew
<1>12. <<f.staff, d>> # <<f.staff, f.date>> BY <1>1
<1>8. Pay!Key({g}) # Pay!Key(payForm) BY <1>7, <1>12
<1>9. "salary" \in paySource \ Pay!Shared => \A t \in g.staff : g.amount.salary = Base[t]
  BY <1>1, <1>3, <1>4 DEF PayInv, Pay!CompensationFormInv, Pay!MarkedIsSuggested
<1>11. Pay!Edited({g}, paySource \ Pay!Shared) BY <1>1, <1>10
<1> QED BY <1>1, <1>4, <1>5, <1>8, <1>9, <1>11, EditKeepsInv

(* An amount set by hand. *)
LEMMA AmountSet ==
  ASSUME PayInv, NEW f \in payForm, NEW x \in Pay!Field, NEW b, Pay!Set(f, x, b),
         Pay!IsNew(f) => /\ x # "commission" => paySplit' = paySplit
                         /\ x = "commission" => \A a \in paySplit' : b = a \div 2
  PROVE  PayInv' /\ \A a \in payAsks : AnAmountIsKept(a)
<1> DEFINE m == [f.amount EXCEPT ![x] = {b}]
           g == [f EXCEPT !.amount = m]
           h == [f EXCEPT !.amount[x] = {b}]
<1>1. Pay!Edited({h}, paySource \ {x}) /\ payDirty' = payDirty \cup {x} BY DEF Pay!Set
<1>2. IsForm(f) BY DEF PayInv
<1>3. DOMAIN m = Pay!Field /\ m[x] = {b} /\ \A y \in Pay!Field \ {x} : m[y] = f.amount[y] BY <1>2 DEF IsForm
<1>10. h = g OBVIOUS
<1> HIDE DEF m
<1>4. IsForm(g) /\ g.entry = f.entry /\ g.staff = f.staff /\ g.date = f.date /\ g.amount = m BY <1>2, <1>3 DEF IsForm
<1> HIDE DEF g, h
<1>5. Pay!Edited({g}, paySource \ {x}) BY <1>1, <1>10
<1>6. payForm = {f} BY DEF PayInv
<1>7. Pay!Key({g}) = Pay!Key(payForm) BY <1>4, <1>6 DEF Pay!Key, Pay!IsNew
<1>8. payDirty' \subseteq Pay!Field /\ paySource \ {x} \subseteq Pay!Field BY <1>1 DEF PayInv
<1>9. ASSUME Pay!IsNew(g)
      PROVE  /\ paySplit' # {} => "commission" \in payDirty'
             /\ "salary" \in paySource \ {x} => \A s \in g.staff : g.amount.salary = Base[s]
             /\ (paySource \ {x}) \cap payDirty' = {}
             /\ \A a \in paySplit' : g.amount.commission = {a \div 2}
             /\ payGross = "ready" => \A y \in (paySource \ {x}) \cap Pay!Shared :
                  g.amount[y] = Pay!Suggested(g.staff, g.date)[y]
  <2>1. Pay!IsNew(f) BY <1>4, <1>9 DEF Pay!IsNew
  <2>2. Pay!MarkedIsSuggested /\ Pay!SplitCanBeUndone BY DEF PayInv, Pay!CompensationFormInv
  <2>3. paySplit' # {} => "commission" \in payDirty' BY <1>1, <2>1 DEF PayInv
  <2>4. "salary" \in paySource \ {x} => \A s \in g.staff : g.amount.salary = Base[s]
    <3>1. m["salary"] = m.salary /\ f.amount["salary"] = f.amount.salary OBVIOUS
    <3>2. "salary" \in Pay!Field BY DEF Pay!Field
    <3> QED BY <1>3, <1>4, <2>1, <2>2, <3>2 DEF Pay!MarkedIsSuggested
  <2>5. (paySource \ {x}) \cap payDirty' = {} BY <1>1, <2>1, <2>2 DEF Pay!MarkedIsSuggested
  <2>6. \A a \in paySplit' : g.amount.commission = {a \div 2}
    <3>1. "commission" \in Pay!Field BY DEF Pay!Field
    <3>2. CASE x = "commission" BY <1>3, <1>4, <2>1, <3>2
    <3>3. CASE x # "commission" BY <1>3, <1>4, <2>1, <2>2, <3>1, <3>3 DEF Pay!SplitCanBeUndone
    <3> QED BY <3>2, <3>3
  <2>7. payGross = "ready" => \A y \in (paySource \ {x}) \cap Pay!Shared :
          g.amount[y] = Pay!Suggested(g.staff, g.date)[y]
    <3>1. Pay!Shared \subseteq Pay!Field BY DEF Pay!Shared, Pay!Field
    <3> QED BY <1>3, <1>4, <2>1, <2>2, <3>1 DEF Pay!MarkedIsSuggested
  <2> QED BY <2>3, <2>4, <2>5, <2>6, <2>7
<1> DEFINE marks == paySource \ {x}
<1>11. Pay!Edited({g}, marks) /\ marks \subseteq Pay!Field BY <1>5, <1>8
<1>12. Pay!IsNew(g) => /\ paySplit' # {} => "commission" \in payDirty'
                       /\ "salary" \in marks => \A s \in g.staff : g.amount.salary = Base[s]
                       /\ marks \cap payDirty' = {}
                       /\ \A a \in paySplit' : g.amount.commission = {a \div 2}
                       /\ payGross = "ready" => \A y \in marks \cap Pay!Shared :
                            g.amount[y] = Pay!Suggested(g.staff, g.date)[y]
  BY <1>9
<1> HIDE DEF marks
<1> QED BY <1>4, <1>7, <1>8, <1>11, <1>12, EditKeepsInv

(* The form is opened, empty or on a record.                               *)
LEMMA FormOpened ==
  ASSUME PayInv, Pay!OpenAdd \/ \E e \in recordsShown : Pay!OpenEdit(e)
  PROVE  PayInv' /\ \A a \in payAsks : AnAmountIsKept(a)
<1>1. PICK g : /\ Pay!Edited({g}, {}) /\ payDirty' = {} /\ IsForm(g)
               /\ Pay!IsNew(g) => paySplit' = {}
  <2>1. CASE Pay!OpenAdd
    <3> DEFINE m == [x \in Pay!Field |-> {}]
               g == [entry |-> FALSE, staff |-> {}, date |-> Today, amount |-> m]
    <3>1. Pay!Edited({g}, {}) /\ payDirty' = {} /\ paySplit' = {} BY <2>1 DEF Pay!OpenAdd
    <3>2. DOMAIN m = Pay!Field OBVIOUS
    <3> HIDE DEF m
    <3>3. IsForm(g) BY <3>2 DEF IsForm
    <3> QED BY <3>1, <3>3
  <2>2. ASSUME NEW e \in recordsShown, Pay!OpenEdit(e)
        PROVE \E g : Pay!Edited({g}, {}) /\ payDirty' = {} /\ IsForm(g) /\ ~Pay!IsNew(g)
    <3>1. PICK a \in PayTyped :
            Pay!Edited({[entry |-> TRUE, staff |-> {e[1]}, date |-> e[2], amount |-> [x \in Pay!Field |-> {a}]]}, {})
      BY <2>2 DEF Pay!OpenEdit
    <3> DEFINE m == [x \in Pay!Field |-> {a}]
               g == [entry |-> TRUE, staff |-> {e[1]}, date |-> e[2], amount |-> m]
    <3>2. Pay!Edited({g}, {}) /\ payDirty' = {} BY <2>2, <3>1 DEF Pay!OpenEdit
    <3>3. DOMAIN m = Pay!Field OBVIOUS
    <3> HIDE DEF m
    <3>4. IsForm(g) /\ ~Pay!IsNew(g) BY <3>3 DEF IsForm, Pay!IsNew
    <3> QED BY <3>2, <3>4
  <2> QED BY <2>1, <2>2
<1> DEFINE marks == {}
<1>2. Pay!Edited({g}, marks) /\ IsForm(g) /\ marks \subseteq Pay!Field /\ payDirty' \subseteq Pay!Field BY <1>1
<1>3. Pay!IsNew(g) => /\ paySplit' # {} => "commission" \in payDirty'
                      /\ "salary" \in marks => \A s \in g.staff : g.amount.salary = Base[s]
                      /\ marks \cap payDirty' \subseteq (IF Pay!Key({g}) = Pay!Key(payForm) THEN {} ELSE Pay!Shared)
                      /\ \A a \in paySplit' : g.amount.commission = {a \div 2}
                      /\ Pay!Key({g}) = Pay!Key(payForm) /\ payGross = "ready" =>
                           \A x \in marks \cap Pay!Shared : g.amount[x] = Pay!Suggested(g.staff, g.date)[x]
  BY <1>1
<1> HIDE DEF marks
<1> QED BY <1>2, <1>3, EditKeepsInv

(* The form is closed, or its save answered.                               *)
LEMMA FormClosed ==
  ASSUME PayInv, Pay!CloseEditor \/ \E r \in paySent : Pay!Saved(r)
  PROVE  PayInv' /\ \A a \in payAsks : AnAmountIsKept(a)
<1>1. Pay!Edited({}, paySource) /\ UNCHANGED payDirty BY DEF Pay!CloseEditor, Pay!Saved
<1>2. paySource \subseteq Pay!Field /\ payDirty' \subseteq Pay!Field BY <1>1 DEF PayInv
<1> QED BY <1>1, <1>2, EmptiesKeepInv

(* Amounts are typed, or the commission split and put back.                *)
LEMMA AmountsTyped ==
  ASSUME PayInv, NEW f \in payForm, Pay!SplitCommission(f) \/ Pay!UndoSplit(f) \/ \E x \in Pay!Field : Pay!Type(f, x)
  PROVE  PayInv' /\ \A a \in payAsks : AnAmountIsKept(a)
<1>1. "commission" \in Pay!Field BY DEF Pay!Field
<1>2. ASSUME NEW x \in Pay!Field, Pay!Type(f, x) PROVE PayInv' /\ \A a \in payAsks : AnAmountIsKept(a)
  <2>1. PICK a \in PayTyped : Pay!Set(f, x, a) BY <1>2 DEF Pay!Type
  <2>2. paySplit' = IF x = "commission" THEN {} ELSE paySplit BY <1>2 DEF Pay!Type, Pay!SplitAfter
  <2> QED BY <2>1, <2>2, AmountSet
<1>3. CASE Pay!SplitCommission(f)
  <2>1. PICK a \in f.amount.commission : paySplit' = {a} /\ Pay!Set(f, "commission", a \div 2) BY <1>3
       DEF Pay!SplitCommission
  <2> QED BY <1>1, <2>1, AmountSet
<1>4. CASE Pay!UndoSplit(f)
  <2>1. PICK a \in paySplit : paySplit' = {} /\ Pay!Set(f, "commission", a) BY <1>4 DEF Pay!UndoSplit
  <2> QED BY <1>1, <2>1, AmountSet
<1> QED BY <1>2, <1>3, <1>4

(* The suggestion that is awaited is for the form's day and member, and fills what nothing was typed into. *)
LEMMA SuggestionFills ==
  ASSUME PayInv, NEW a \in payAsks, Pay!Answered(a)
  PROVE  PayInv' /\ \A b \in payAsks : AnAmountIsKept(b)
<1> DEFINE to == Pay!Suggested(a.staff, a.date)
           filled == {x \in Pay!Shared : Pay!Fills(x)}
<1>1. payAsks' = payAsks \ {a} /\ UNCHANGED <<payDirty, paySplit>> BY DEF Pay!Answered
<1>2. CASE ~a.current
  <2>1. UNCHANGED <<payForm, payGross, paySource>> BY <1>2 DEF Pay!Answered, Pay!IsCurrent
  <2>2. Pay!MarkedIsSuggested' /\ Pay!SplitCanBeUndone'
    BY <1>1, <2>1 DEF PayInv, Pay!CompensationFormInv, Pay!MarkedIsSuggested, Pay!SplitCanBeUndone
  <2>3. Pay!Key(payForm') = Pay!Key(payForm) BY <2>1
  <2>4. PayInv' BY <1>1, <2>1, <2>2, <2>3 DEF PayInv, Pay!CompensationFormInv
  <2>5. \A f \in payForm : \A g \in payForm' : f = g BY <2>1 DEF PayInv
  <2> QED BY <2>4, <2>5 DEF AnAmountIsKept
<1>3. CASE a.current
  <2>1. Pay!Key(payForm) = {<<a.staff, a.date>>} BY <1>3 DEF PayInv
  <2>2. PICK f \in payForm : Pay!IsNew(f) BY <2>1 DEF Pay!Key
  <2>3. payForm = {f} /\ IsForm(f) BY DEF PayInv
  <2>4. f.staff = a.staff /\ f.date = a.date /\ Pay!Key({f}) = {<<a.staff, a.date>>}
    <3>1. Pay!Key({f}) = {<<f.staff, f.date>>} BY <2>2 DEF Pay!Key
    <3>2. <<f.staff, f.date>> = <<a.staff, a.date>> BY <2>1, <2>3, <3>1
    <3> QED BY <3>1, <3>2
  <2> DEFINE m == [x \in Pay!Field |-> IF x \in filled THEN to[x] ELSE f.amount[x]]
             g == [f EXCEPT !.amount = m]
  <2>5. payGross' = "ready" /\ payForm' = {g} /\ paySource' = (paySource \ Pay!Shared) \cup filled
    <3>1. /\ payGross' = "ready" /\ paySource' = (paySource \ Pay!Shared) \cup filled
          /\ payForm' = {IF Pay!Key({h}) # {<<a.staff, a.date>>} THEN h
                         ELSE [h EXCEPT !.amount = [x \in Pay!Field |-> IF x \in filled THEN to[x] ELSE h.amount[x]]] :
                           h \in payForm}
      BY <1>3 DEF Pay!Answered, Pay!IsCurrent
    <3> QED BY <2>3, <2>4, <3>1
  <2>6. DOMAIN m = Pay!Field /\ \A x \in Pay!Field : m[x] = IF x \in filled THEN to[x] ELSE f.amount[x] OBVIOUS
  <2> HIDE DEF m
  <2>7. IsForm(g) /\ g.entry = f.entry /\ g.staff = f.staff /\ g.date = f.date /\ g.amount = m
    BY <2>3, <2>6 DEF IsForm
  <2> HIDE DEF g
  <2>8. Pay!Shared \subseteq Pay!Field /\ filled \subseteq Pay!Shared /\ filled \cap payDirty = {}
    BY DEF Pay!Shared, Pay!Field, Pay!Fills
  <2>9. \A x \in payDirty : x \in Pay!Field /\ m[x] = f.amount[x] BY <2>6, <2>8 DEF PayInv
  <2> HIDE DEF filled
  <2>10. Pay!Key(payForm') = {<<a.staff, a.date>>} BY <2>2, <2>4, <2>5, <2>7 DEF Pay!Key, Pay!IsNew
  <2>11. Pay!IsNew(g) BY <2>2, <2>7 DEF Pay!IsNew
  <2>12. Pay!MarkedIsSuggested'
    <3>0. Pay!MarkedIsSuggested BY DEF PayInv, Pay!CompensationFormInv
    <3>1. \A x \in paySource' \cap Pay!Shared : g.amount[x] = Pay!Suggested(g.staff, g.date)[x]
      BY <2>4, <2>5, <2>6, <2>7, <2>8
    <3>2. "salary" \in paySource' => \A s \in g.staff : g.amount.salary = Base[s]
      <4>1. "salary" \notin Pay!Shared /\ "salary" \in Pay!Field BY DEF Pay!Shared, Pay!Field
      <4>2. g.amount.salary = f.amount.salary BY <2>6, <2>7, <2>8, <4>1
      <4> QED BY <2>2, <2>5, <2>7, <2>8, <3>0, <4>1, <4>2 DEF Pay!MarkedIsSuggested
    <3>3. paySource' \cap payDirty' = {} BY <1>1, <2>2, <2>5, <2>8, <3>0 DEF Pay!MarkedIsSuggested
    <3> QED BY <2>5, <3>1, <3>2, <3>3 DEF Pay!MarkedIsSuggested
  <2>13. Pay!SplitCanBeUndone'
    <3>1. "commission" \in Pay!Field BY DEF Pay!Field
    <3>2. paySplit # {} => m["commission"] = f.amount["commission"] BY <2>2, <2>9 DEF PayInv
    <3> QED BY <1>1, <2>2, <2>5, <2>7, <3>2 DEF PayInv, Pay!CompensationFormInv, Pay!SplitCanBeUndone
  <2>14. paySource' \subseteq Pay!Field /\ payDirty' \subseteq Pay!Field BY <1>1, <2>5, <2>8 DEF PayInv
  <2>15. \A b \in payAsks' : DOMAIN b = {"staff", "date", "current"} /\
           (b.current => Pay!Key(payForm') = {<<b.staff, b.date>>})
    BY <1>1, <2>1, <2>10 DEF PayInv
  <2>16. paySplit' # {} => "commission" \in payDirty' BY <1>1, <2>2 DEF PayInv
  <2>17. PayInv' BY <2>5, <2>7, <2>12, <2>13, <2>14, <2>15, <2>16 DEF PayInv, Pay!CompensationFormInv
  <2>18. \A b \in payAsks : AnAmountIsKept(b) BY <2>3, <2>5, <2>7, <2>9 DEF AnAmountIsKept
  <2> QED BY <2>17, <2>18
<1> QED BY <1>2, <1>3

(* A step that leaves the form alone, whatever it does to the requests.    *)
LEMMA FormLeftAlone ==
  ASSUME PayInv, UNCHANGED <<payForm, payDirty, paySource, paySplit>>, payAsks' \subseteq payAsks,
           payGross' = payGross \/ payGross' # "ready"
  PROVE  PayInv' /\ \A b \in payAsks : AnAmountIsKept(b)
<1>1. Pay!MarkedIsSuggested' /\ Pay!SplitCanBeUndone'
  BY DEF PayInv, Pay!CompensationFormInv, Pay!MarkedIsSuggested, Pay!SplitCanBeUndone
<1>2. Pay!Key(payForm') = Pay!Key(payForm) OBVIOUS
<1>3. \A f \in payForm : \A g \in payForm' : f = g BY DEF PayInv
<1> QED BY <1>1, <1>2, <1>3 DEF PayInv, Pay!CompensationFormInv, AnAmountIsKept

(* Each step keeps the invariant, and the amounts that were typed unless   *)
(* the form is another.                                                    *)
LEMMA PayNext ==
  PayInv /\ [Pay!Next]_(Pay!vars) => PayInv' /\ \A b \in payAsks : AnAmountIsKept(b)
<1> SUFFICES ASSUME PayInv, [Pay!Next]_(Pay!vars) PROVE PayInv' /\ \A b \in payAsks : AnAmountIsKept(b) OBVIOUS
<1>1. CASE UNCHANGED Pay!vars BY <1>1, FormLeftAlone DEF Pay!vars
<1>2. CASE Pay!OpenAdd \/ \E e \in recordsShown : Pay!OpenEdit(e) BY <1>2, FormOpened
<1>3. CASE Pay!CloseEditor \/ \E r \in paySent : Pay!Saved(r) BY <1>3, FormClosed
<1>4. ASSUME NEW f \in payForm, \E s \in Member : Pay!ChooseStaff(f, s)
      PROVE PayInv' /\ \A b \in payAsks : AnAmountIsKept(b)
  BY <1>4, StaffChosen
<1>5. ASSUME NEW f \in payForm, \E d \in PayDay : Pay!ChooseDate(f, d)
      PROVE PayInv' /\ \A b \in payAsks : AnAmountIsKept(b)
  BY <1>5, DateChosen
<1>6. ASSUME NEW f \in payForm, Pay!SplitCommission(f) \/ Pay!UndoSplit(f) \/ \E x \in Pay!Field : Pay!Type(f, x)
      PROVE  PayInv' /\ \A b \in payAsks : AnAmountIsKept(b)
  BY <1>6, AmountsTyped
<1>7. ASSUME NEW a \in payAsks, Pay!Answered(a) PROVE PayInv' /\ \A b \in payAsks : AnAmountIsKept(b) BY <1>7,
     SuggestionFills
<1>8. ASSUME \/ \E e \in recordsShown : Pay!Delete(e)
             \/ \E f \in payForm : Pay!SaveEntry(f)
             \/ \E a \in payAsks : Pay!AskFailed(a)
             \/ \E r \in paySent : Pay!Store(r) \/ Pay!SaveFailed(r)
      PROVE  PayInv' /\ \A b \in payAsks : AnAmountIsKept(b)
  <2>1. UNCHANGED <<payForm, payDirty, paySource, paySplit>> BY <1>8 DEF Pay!Delete, Pay!SaveEntry, Pay!AskFailed,
       Pay!Store, Pay!SaveFailed
  <2>2. payAsks' \subseteq payAsks /\ (payGross' = payGross \/ payGross' = "error")
    BY <1>8 DEF Pay!Delete, Pay!SaveEntry, Pay!AskFailed, Pay!Store, Pay!SaveFailed
  <2> QED BY <2>1, <2>2, FormLeftAlone
<1> QED BY <1>1, <1>2, <1>3, <1>4, <1>5, <1>6, <1>7, <1>8 DEF Pay!Next

(* The invariant of the compensation form.                                 *)
THEOREM PayInvariant == Pay!Spec => []PayInv
<1>1. Pay!Init => PayInv BY DEF Pay!Init, PayInv, Pay!CompensationFormInv, Pay!MarkedIsSuggested, Pay!SplitCanBeUndone
<1> QED BY <1>1, PayNext, PTL DEF Pay!Spec

(* The invariant gives the properties of the compensation form.            *)
THEOREM PayHolds == Pay!Spec => []Pay!CompensationFormInv
<1>1. PayInv => Pay!CompensationFormInv BY DEF PayInv
<1> QED BY <1>1, PayInvariant, PTL

(* Amounts that were typed stay.                                           *)
THEOREM TypedHolds == Pay!Spec => Pay!TypedAmountsAreKept
<1>1. PayInv /\ [Pay!Next]_(Pay!vars) =>
        [\A a \in payAsks : a \notin payAsks' =>
           \A f \in payForm : \A g \in payForm' : \A x \in payDirty : Pay!Key({f}) = Pay!Key({g})
             => g.amount[x] = f.amount[x]]_(Pay!vars)
  BY PayNext DEF AnAmountIsKept
<1> QED BY <1>1, PayInvariant, PTL DEF Pay!Spec, Pay!TypedAmountsAreKept
-----------------------------------------------------------------------------
(* JournalPage: the rows that are typed in bulk.                           *)

RowsStay == \A d \in DOMAIN bulkRows \cap DOMAIN bulkRows' : bulkRows'[d] = bulkRows[d]
TypedStay ==
  \A d \in DOMAIN bulkRows \cap DOMAIN bulkRows' : bulkRows[d].dirty /\ journalShown'.missing # journalShown.missing
    => bulkRows'[d] = bulkRows[d]

(* Whatever a step shows, the rows it starts from stay. *)
LEMMA ShownKeepsRows == \A p, rs : Journal!Shown(p, rs, bulkRows) => RowsStay
<1> SUFFICES ASSUME NEW p, NEW rs, Journal!Shown(p, rs, bulkRows) PROVE RowsStay OBVIOUS
<1>1. \/ DOMAIN bulkRows' = {}
      \/ bulkRows' = Journal!MergedRows(p, bulkRows)
      \/ bulkRows' = bulkRows
  BY DEF Journal!Shown
<1>2. \A d \in Journal!DaysOf(p) : Journal!MergedRows(p, bulkRows)[d] = IF d \in DOMAIN bulkRows THEN bulkRows[d]
        ELSE Journal!DefaultRow(p, d)
  BY DEF Journal!MergedRows
<1>3. DOMAIN Journal!MergedRows(p, bulkRows) = Journal!DaysOf(p) BY DEF Journal!MergedRows
<1> QED BY <1>1, <1>2, <1>3 DEF RowsStay

(* Rows that were typed stay, by cases on the steps of the page.           *)
THEOREM TypedRowsHold == Journal!Spec => Journal!TypedRowsAreKept
<1>1. [Journal!Next]_(Journal!vars) => TypedStay
  <2> SUFFICES ASSUME [Journal!Next]_(Journal!vars) PROVE TypedStay OBVIOUS
  <2>1. RowsStay => TypedStay BY DEF RowsStay, TypedStay
  <2>2. CASE UNCHANGED bulkRows BY <2>2 DEF TypedStay
  <2>3. ASSUME \/ \E l \in Ledger : Journal!SelectLedger(l)
               \/ \E of \in {"detail", "missing"} : Journal!Retry(of)
               \/ \E r \in journalReads : Journal!Answered(r) \/ Journal!ReadFailed(r)
               \/ Journal!OpenSection
               \/ \E w \in journalWrites : Journal!Written(w) \/ Journal!Conflict(w) \/ Journal!WriteFailed(w) \/
                    Journal!Refreshed(w) \/ Journal!RefreshFailed(w)
        PROVE  TypedStay
    <3>1. \E p, rs : Journal!Shown(p, rs, bulkRows)
      BY <2>3 DEF Journal!SelectLedger, Journal!Retry, Journal!Answered, Journal!ReadFailed, Journal!OpenSection,
           Journal!Written, Journal!Conflict, Journal!WriteFailed, Journal!Refreshed, Journal!RefreshFailed
    <3> QED BY <2>1, <3>1, ShownKeepsRows
  <2>4. ASSUME Journal!OpenNewEntry \/ Journal!OpenEditDeposit \/ Journal!CloseEntry \/ \E e \in journalShown.entry :
                 Journal!ChangeEntry(e)
        PROVE  TypedStay
    <3>1. \E p : Journal!Typing(p, bulkRows) BY <2>4 DEF Journal!OpenNewEntry, Journal!OpenEditDeposit,
         Journal!CloseEntry, Journal!ChangeEntry
    <3>2. \E p, rs : Journal!Shown(p, rs, bulkRows) BY <3>1 DEF Journal!Typing
    <3> QED BY <2>1, <3>2, ShownKeepsRows
  <2>5. ASSUME Journal!SaveBulk \/ (\E e \in journalShown.entry : Journal!SaveEntry(e)) \/ \E d \in ClosedDay :
                 Journal!ConfirmDelete(d)
        PROVE  TypedStay
    <3>1. \E kind, l, was, amounts, p : Journal!Send(kind, l, was, amounts, p) BY <2>5 DEF Journal!SaveBulk,
         Journal!SaveEntry, Journal!ConfirmDelete
    <3>2. \E p, rs : Journal!Shown(p, rs, bulkRows) BY <3>1 DEF Journal!Send
    <3> QED BY <2>1, <3>2, ShownKeepsRows
  <2>6. ASSUME NEW d \in ClosedDay, Journal!ChangeRow(d) PROVE TypedStay
    <3>1. \E changed : Journal!Typing(journalShown, changed) BY <2>6 DEF Journal!ChangeRow
    <3>2. journalShown' = journalShown BY <3>1 DEF Journal!Typing, Journal!Shown
    <3> QED BY <3>2 DEF TypedStay
  <2>7. CASE Journal!Elsewhere \/ (\E r \in journalReads : Journal!Answer(r)) \/
               (\E w \in journalWrites : Journal!Store(w) \/ Journal!Refresh(w)) \/ UNCHANGED Journal!vars
    BY <2>2, <2>7 DEF Journal!Elsewhere, Journal!Answer, Journal!Store, Journal!Refresh, Journal!vars
  <2> QED BY <2>3, <2>4, <2>5, <2>6, <2>7 DEF Journal!Next
<1> QED BY <1>1, PTL DEF Journal!Spec, Journal!TypedRowsAreKept, TypedStay
-----------------------------------------------------------------------------
(* Session: the tabs of a browser and the server's sessions.               *)

TabFields == {"at", "status", "user", "notice", "signedOutPath", "reads", "signing", "leaving"}
HomeIn(u, s) == IF s[u] \in StaffUser THEN "pos" ELSE "admin"

(* A read the tab would still use names no session before the tab's own. *)
ReadInv(r, p, s) ==
  /\ DOMAIN r = {"kind", "answer", "current"} /\ r.answer \in 0 .. Len(s)
  /\ r.kind = "initial" => p.status = "checking"
  /\ r.current /\ p.user # 0 /\ r.answer # 0 => r.answer >= p.user

TabBase(p, s) ==
  /\ DOMAIN p = TabFields
  /\ p.status \in {"checking", "authenticated", "signedOut"}
  /\ p.user \in 0 .. Len(s) /\ (p.user # 0 <=> p.status = "authenticated")
  /\ p.signing \subseteq User /\ (p.status = "checking" => p.signing = {} /\ p.leaving = FALSE)
  /\ p.status = "checking" => \A a, b \in p.reads : a = b
  /\ \A r \in p.reads : ReadInv(r, p, s)

TabInv(p, s) ==
  TabBase(p, s) /\ (p.status = "authenticated" /\ p.at \in {"pos", "admin"} => p.at = HomeIn(p.user, s))

SessionInv ==
  /\ sessions \in Seq(User) /\ cookie \in {0, Len(sessions)} /\ DOMAIN tabs = Tab
  /\ \A t \in Tab : TabInv(tabs[t], sessions)

(* What a step does to a tab. *)
TabStep(p, q, t) ==
  /\ p.user # 0 /\ q.user # 0 => q.user >= p.user
  /\ p.status = "signedOut" /\ q.status = "authenticated" => p.signing # {} /\ sessions' # sessions
  /\ p.at = "pos" /\ p.status = "authenticated" /\ q.status = "signedOut" => q.at = "staffSignIn"

(* Rendering sends a tab where its session belongs, and changes nothing    *)
(* else.                                                                   *)
LEMMA RenderedTab ==
  ASSUME NEW p, NEW s, TabBase(p, s), s = sessions
  PROVE  LET q == Session!Rendered(p) IN
         /\ TabInv(q, s) /\ q.status = p.status /\ q.user = p.user /\ q.signing = p.signing
         /\ p.status = "signedOut" /\ p.at = "pos" /\ p.notice # "none" => q.at = p.signedOutPath
         /\ p.status = "authenticated" /\ p.at \in {"pos", "admin"} => q.at = HomeIn(p.user, s)
<1> DEFINE q == Session!Rendered(p)
<1>1. /\ DOMAIN q = TabFields /\ q.status = p.status /\ q.user = p.user /\ q.signing = p.signing
      /\ q.reads = p.reads /\ q.leaving = p.leaving
      /\ p.status = "authenticated" /\ q.at \in {"pos", "admin"} => q.at = Session!HomeOf(p.user)
      /\ p.status = "signedOut" /\ p.at = "pos" /\ p.notice # "none" => q.at = p.signedOutPath
      /\ p.status = "authenticated" /\ p.at \in {"pos", "admin"} => q.at = Session!HomeOf(p.user)
  <2>0. DOMAIN p = TabFields BY DEF TabBase
  <2> DEFINE A == p.status = "authenticated" /\ (p.at \in {"pos", "admin"} \/
               p.at = Session!SignInOf(Session!HomeOf(p.user)))
             B == p.status = "signedOut" /\ p.at \in {"pos", "admin"}
  <2>1. CASE A
    <3>1. q = [p EXCEPT !.at = Session!HomeOf(p.user)] BY <2>1 DEF Session!Rendered
    <3> DEFINE h == Session!HomeOf(p.user)
    <3> HIDE DEF h, q
    <3>2. q = [p EXCEPT !.at = h] BY <3>1 DEF h
    <3>3. /\ DOMAIN q = TabFields /\ q.status = p.status /\ q.user = p.user /\ q.signing = p.signing
          /\ q.reads = p.reads /\ q.leaving = p.leaving /\ q.at = h
      BY <2>0, <3>2 DEF TabFields
    <3> QED BY <2>1, <3>3 DEF h
  <2>2. CASE B
    <3> DEFINE path == IF p.notice # "none" THEN p.signedOutPath ELSE Session!SignInOf(p.at)
    <3>1. q = [p EXCEPT !.at = path, !.notice = "none", !.signedOutPath = "none"] BY <2>2 DEF Session!Rendered
    <3>4. p.notice # "none" => path = p.signedOutPath OBVIOUS
    <3> HIDE DEF path, q
    <3>3. /\ DOMAIN q = TabFields /\ q.status = p.status /\ q.user = p.user /\ q.signing = p.signing
          /\ q.reads = p.reads /\ q.leaving = p.leaving /\ q.at = path
      BY <2>0, <3>1 DEF TabFields
    <3> QED BY <2>2, <3>3, <3>4
  <2>3. CASE ~A /\ ~B
    <3>1. q = p BY <2>3 DEF Session!Rendered
    <3> QED BY <2>0, <2>3, <3>1
  <2> QED BY <2>1, <2>2, <2>3
<1>2. Session!HomeOf(p.user) = HomeIn(p.user, s) BY DEF Session!HomeOf, HomeIn, Session!IsStaff
<1> HIDE DEF q
<1>3. TabBase(q, s) BY <1>1 DEF TabBase, ReadInv
<1>4. TabInv(q, s) BY <1>1, <1>2, <1>3 DEF TabInv
<1> QED BY <1>1, <1>2, <1>4 DEF q

(* An answer that no longer counts is dropped.                             *)
LEMMA DroppedTab ==
  ASSUME SessionInv, NEW t \in Tab, NEW r
  PROVE  LET q == Session!Drop(t, r) IN
         /\ TabInv(q, sessions) /\ q.status = tabs[t].status /\ q.user = tabs[t].user /\ q.signing = tabs[t].signing
         /\ q.at = tabs[t].at /\ q.leaving = tabs[t].leaving /\ q.reads = tabs[t].reads \ {r}
<1> DEFINE p == tabs[t]
           q == [p EXCEPT !.reads = p.reads \ {r}]
<1>1. TabInv(p, sessions) BY DEF SessionInv
<1> HIDE DEF p
<1>2. /\ DOMAIN q = TabFields /\ q.status = p.status /\ q.user = p.user /\ q.signing = p.signing
      /\ q.at = p.at /\ q.leaving = p.leaving /\ q.reads = p.reads \ {r}
  BY <1>1 DEF TabInv, TabBase, TabFields
<1> HIDE DEF q
<1>3. TabInv(q, sessions) BY <1>1, <1>2 DEF TabInv, TabBase, ReadInv
<1>4. q = Session!Drop(t, r) BY DEF Session!Drop, p, q
<1> QED BY <1>2, <1>3, <1>4 DEF p

(* The reads of a tab that has another user are given up. *)
LEMMA GivenUp ==
  ASSUME NEW p, NEW s, TabBase(p, s), \A r \in p.reads : r.kind # "initial"
  PROVE  \A k \in {[r EXCEPT !.current = FALSE] : r \in p.reads} :
            DOMAIN k = {"kind", "answer", "current"} /\ k.answer \in 0 .. Len(s) /\ k.kind # "initial" /\ ~k.current
<1> SUFFICES ASSUME NEW r \in p.reads, NEW k, k = [r EXCEPT !.current = FALSE]
             PROVE  DOMAIN k = {"kind", "answer", "current"} /\ k.answer \in 0 .. Len(s) /\ k.kind # "initial" /\
                      ~k.current
  OBVIOUS
<1>1. DOMAIN r = {"kind", "answer", "current"} /\ r.answer \in 0 .. Len(s) BY DEF TabBase, ReadInv
<1> QED BY <1>1

(* A tab learns whose session it has.                                      *)
LEMMA AuthenticatedTab ==
  ASSUME NEW p, NEW s, TabBase(p, s), \A r \in p.reads : r.kind # "initial", s \in Seq(User), NEW u \in 1 .. Len(s)
  PROVE  LET q == Session!Authenticated(p, u) IN
         /\ TabBase(q, s) /\ q.status = "authenticated" /\ q.user = u /\ q.at = p.at /\ q.signing = p.signing
<1> DEFINE rs == {[r EXCEPT !.current = FALSE] : r \in p.reads}
           q == [p EXCEPT !.status = "authenticated", !.user = u, !.notice = "none", !.signedOutPath = "none",
             !.reads = rs]
<1>1. \A k \in rs : DOMAIN k = {"kind", "answer", "current"} /\ k.answer \in 0 .. Len(s) /\ k.kind # "initial" /\
        ~k.current
  BY GivenUp
<1>2. Session!Authenticated(p, u) = q BY DEF Session!Authenticated
<1> HIDE DEF rs
<1>3. /\ DOMAIN q = TabFields /\ q.status = "authenticated" /\ q.user = u /\ q.signing = p.signing
      /\ q.at = p.at /\ q.leaving = p.leaving /\ q.reads = rs
  BY DEF TabBase, TabFields
<1> HIDE DEF q
<1>4. TabBase(q, s)
  <2>1. u \in 0 .. Len(s) /\ u # 0 BY DEF TabBase
  <2> QED BY <1>1, <1>3, <2>1 DEF TabBase, ReadInv
<1> QED BY <1>2, <1>3, <1>4

(* A tab is signed out, with a notice and the path to come back to.        *)
LEMMA SignedOutTab ==
  ASSUME NEW p, NEW s, TabBase(p, s), \A r \in p.reads : r.kind # "initial", p.status # "checking", NEW notice
  PROVE  LET q == Session!SignedOut(p, notice) IN
         /\ TabBase(q, s) /\ q.status = "signedOut" /\ q.user = 0 /\ q.at = p.at /\ q.signing = p.signing
         /\ q.notice = notice /\ q.signedOutPath = Session!PathFor(p)
<1> DEFINE rs == {[r EXCEPT !.current = FALSE] : r \in p.reads}
           path == Session!PathFor(p)
           q == [p EXCEPT !.status = "signedOut", !.user = 0, !.notice = notice, !.signedOutPath = path, !.reads = rs]
<1>1. \A k \in rs : DOMAIN k = {"kind", "answer", "current"} /\ k.answer \in 0 .. Len(s) /\ k.kind # "initial" /\
        ~k.current
  BY GivenUp
<1>2. Session!SignedOut(p, notice) = q BY DEF Session!SignedOut
<1> HIDE DEF rs, path
<1>3. /\ DOMAIN q = TabFields /\ q.status = "signedOut" /\ q.user = 0 /\ q.signing = p.signing
      /\ q.at = p.at /\ q.leaving = p.leaving /\ q.reads = rs /\ q.notice = notice /\ q.signedOutPath = path
  BY DEF TabBase, TabFields
<1> HIDE DEF q
<1>4. TabBase(q, s) BY <1>1, <1>3 DEF TabBase, ReadInv
<1> QED BY <1>2, <1>3, <1>4 DEF path

(* A step of one tab leaves the sessions as they are. *)
LEMMA OneTab ==
  ASSUME SessionInv, NEW t \in Tab, NEW q, tabs' = [tabs EXCEPT ![t] = q], UNCHANGED sessions,
         cookie' \in {0, Len(sessions)}, TabInv(q, sessions), TabStep(tabs[t], q, t)
  PROVE  SessionInv' /\ \A u \in Tab : TabStep(tabs[u], tabs'[u], u)
<1>1. DOMAIN tabs' = Tab /\ tabs'[t] = q /\ \A u \in Tab \ {t} : tabs'[u] = tabs[u] BY DEF SessionInv
<1>2. SessionInv' BY <1>1 DEF SessionInv, TabInv, TabBase, ReadInv, HomeIn
<1>3. \A u \in Tab \ {t} : TabStep(tabs[u], tabs'[u], u)
  <2> SUFFICES ASSUME NEW u \in Tab \ {t} PROVE TabStep(tabs[u], tabs[u], u) BY <1>1
  <2> QED BY DEF TabStep, SessionInv, TabInv, TabBase
<1> QED BY <1>1, <1>2, <1>3

(* A step that leaves the tabs and the sessions alone.                     *)
LEMMA SameTabs ==
  ASSUME SessionInv, UNCHANGED <<sessions, tabs>>, cookie' \in {0, Len(sessions)}
  PROVE  SessionInv' /\ \A u \in Tab : TabStep(tabs[u], tabs'[u], u)
<1>1. SessionInv' BY DEF SessionInv, TabInv, TabBase, ReadInv, HomeIn
<1>2. \A u \in Tab : TabStep(tabs[u], tabs[u], u) BY DEF TabStep, SessionInv, TabInv, TabBase
<1> QED BY <1>1, <1>2

(* A tab is loaded anew at an address.                                     *)
LEMMA TabLoads ==
  ASSUME SessionInv, NEW t \in Tab, NEW at, Session!Load(t, at)
  PROVE  SessionInv' /\ \A u \in Tab : TabStep(tabs[u], tabs'[u], u)
<1> DEFINE q == Session!Loading(at)
           r == Session!Read("initial")
<1>1. /\ tabs' = [tabs EXCEPT ![t] = q] /\ UNCHANGED <<sessions, cookie>> BY DEF Session!Load
<1>2. DOMAIN r = {"kind", "answer", "current"} /\ r.answer = cookie /\ r.kind = "initial" BY DEF Session!Read
<1>3. /\ DOMAIN q = TabFields /\ q.status = "checking" /\ q.user = 0 /\ q.signing = {} /\ q.leaving = FALSE
      /\ q.reads = {r}
  BY DEF Session!Loading, TabFields
<1> HIDE DEF q, r
<1>4. Len(sessions) \in Nat /\ cookie \in 0 .. Len(sessions) BY DEF SessionInv
<1>5. TabInv(q, sessions) BY <1>2, <1>3, <1>4 DEF TabInv, TabBase, ReadInv
<1>6. TabStep(tabs[t], q, t) BY <1>3 DEF TabStep
<1>7. cookie' \in {0, Len(sessions)} BY <1>1 DEF SessionInv
<1> QED BY <1>1, <1>5, <1>6, <1>7, OneTab

(* A request more, of a user who is signed in. *)
LEMMA TabAsks ==
  ASSUME SessionInv, NEW t \in Tab, NEW kind \in {"session", "data"}, tabs[t].status = "authenticated",
           Session!Ask(t, kind),
         UNCHANGED <<sessions, cookie>>
  PROVE  SessionInv' /\ \A u \in Tab : TabStep(tabs[u], tabs'[u], u)
<1> DEFINE p == tabs[t]
           r == Session!Read(kind)
           rs == p.reads \cup {r}
           q == [p EXCEPT !.reads = rs]
<1>1. tabs' = [tabs EXCEPT ![t] = q] BY DEF Session!Ask
<1>2. DOMAIN r = {"kind", "answer", "current"} /\ r.answer = cookie /\ r.kind # "initial" BY DEF Session!Read
<1>3. TabInv(p, sessions) /\ p.status = "authenticated" BY DEF SessionInv
<1>9. \A k \in rs : k = r \/ k \in p.reads OBVIOUS
<1> HIDE DEF p, r, rs
<1>4. /\ DOMAIN q = TabFields /\ q.status = p.status /\ q.user = p.user /\ q.signing = p.signing
      /\ q.at = p.at /\ q.leaving = p.leaving /\ q.reads = rs
  BY <1>3 DEF TabInv, TabBase, TabFields
<1> HIDE DEF q
<1>5. Len(sessions) \in Nat /\ cookie \in {0, Len(sessions)} BY DEF SessionInv
<1>6. ReadInv(r, q, sessions) BY <1>2, <1>3, <1>4, <1>5 DEF ReadInv, TabInv, TabBase
<1>10. \A k \in p.reads : ReadInv(k, q, sessions) BY <1>3, <1>4 DEF ReadInv, TabInv, TabBase
<1>7. TabInv(q, sessions) BY <1>3, <1>4, <1>6, <1>9, <1>10 DEF TabInv, TabBase
<1>8. TabStep(p, q, t) BY <1>3, <1>4 DEF TabStep, TabInv, TabBase
<1> QED BY <1>1, <1>5, <1>7, <1>8, OneTab DEF p

(* What is left of a tab that shows a page made of another one. *)
LEMMA TabShows ==
  ASSUME SessionInv, NEW t \in Tab, NEW p, Session!Show(t, p), TabBase(p, sessions), UNCHANGED sessions,
           cookie' \in {0, Len(sessions)},
         tabs[t].user # 0 /\ p.user # 0 => p.user >= tabs[t].user,
         tabs[t].status = "signedOut" => p.status # "authenticated",
         tabs[t].at = "pos" /\ tabs[t].status = "authenticated" /\ p.status = "signedOut" =>
           p.at = "pos" /\ p.notice # "none" /\ p.signedOutPath = "staffSignIn"
  PROVE  SessionInv' /\ \A u \in Tab : TabStep(tabs[u], tabs'[u], u)
<1> DEFINE q == Session!Rendered(p)
<1>1. tabs' = [tabs EXCEPT ![t] = q] BY DEF Session!Show
<1>2. /\ TabInv(q, sessions) /\ q.status = p.status /\ q.user = p.user
      /\ p.status = "signedOut" /\ p.at = "pos" /\ p.notice # "none" => q.at = p.signedOutPath
  BY RenderedTab
<1> HIDE DEF q
<1>3. TabStep(tabs[t], q, t) BY <1>2 DEF TabStep
<1> QED BY <1>1, <1>2, <1>3, OneTab

(* The user of a page of the staff is of the staff. *)
LEMMA StaffOfThePos ==
  ASSUME SessionInv, NEW t \in Tab, NEW p, p.user = tabs[t].user, tabs[t].at = "pos", tabs[t].status = "authenticated"
  PROVE  Session!PathFor(p) = "staffSignIn"
<1>1. TabInv(tabs[t], sessions) BY DEF SessionInv
<1>2. tabs[t].user # 0 /\ HomeIn(tabs[t].user, sessions) = "pos" BY <1>1 DEF TabInv, TabBase
<1> QED BY <1>2 DEF Session!PathFor, Session!IsStaff, HomeIn

(* An answer to one of a tab's reads arrives.                              *)
LEMMA ReadsAnswered ==
  ASSUME SessionInv, NEW t \in Tab, NEW r \in tabs[t].reads, UNCHANGED <<sessions, cookie>>,
         Session!InitialAnswered(t, r) \/ Session!SessionAnswered(t, r) \/ Session!DataAnswered(t, r)
  PROVE  SessionInv' /\ \A u \in Tab : TabStep(tabs[u], tabs'[u], u)
<1> DEFINE p == Session!Drop(t, r)
<1>0. cookie' \in {0, Len(sessions)} /\ sessions \in Seq(User) BY DEF SessionInv
<1>1. /\ TabInv(p, sessions) /\ p.status = tabs[t].status /\ p.user = tabs[t].user /\ p.signing = tabs[t].signing
      /\ p.at = tabs[t].at /\ p.leaving = tabs[t].leaving /\ p.reads = tabs[t].reads \ {r}
  BY DroppedTab
<1>2. TabInv(tabs[t], sessions) /\ ReadInv(r, tabs[t], sessions) BY DEF SessionInv, TabInv, TabBase
<1>3. TabBase(p, sessions) BY <1>1 DEF TabInv
<1>4. tabs[t].status # "checking" => \A k \in p.reads : k.kind # "initial" BY <1>1, <1>2 DEF TabInv, TabBase, ReadInv
<1>5. tabs[t].user \in Nat BY <1>2 DEF TabInv, TabBase
<1> HIDE DEF p
<1>6. ASSUME Session!Show(t, p) PROVE SessionInv' /\ \A u \in Tab : TabStep(tabs[u], tabs'[u], u)
  <2>1. p.user # 0 => p.user >= tabs[t].user BY <1>1, <1>5
  <2> QED BY <1>0, <1>1, <1>3, <1>6, <2>1, TabShows
<1>7. ASSUME Session!Show(t, Session!SignedOut(p, "sessionEnded")), tabs[t].status = "authenticated"
      PROVE  SessionInv' /\ \A u \in Tab : TabStep(tabs[u], tabs'[u], u)
  <2> DEFINE q == Session!SignedOut(p, "sessionEnded")
  <2>1. /\ TabBase(q, sessions) /\ q.status = "signedOut" /\ q.user = 0 /\ q.at = p.at
        /\ q.notice = "sessionEnded" /\ q.signedOutPath = Session!PathFor(p)
    BY <1>1, <1>3, <1>4, <1>7, SignedOutTab
  <2>2. tabs[t].at = "pos" => Session!PathFor(p) = "staffSignIn" BY <1>1, <1>7, StaffOfThePos
  <2>3. Session!Show(t, q) BY <1>7
  <2> HIDE DEF q
  <2> QED BY <1>0, <1>1, <1>7, <2>1, <2>2, <2>3, TabShows
<1>8. CASE Session!InitialAnswered(t, r)
  <2>1. tabs[t].status = "checking" /\ tabs[t].user = 0 BY <1>2, <1>8 DEF Session!InitialAnswered, ReadInv, TabInv,
       TabBase
  <2>4. p.reads = {} BY <1>1, <1>2, <2>1 DEF TabInv, TabBase
  <2>2. CASE r.answer # 0
    <3> DEFINE q == Session!Authenticated(p, r.answer)
    <3>1. r.answer \in 1 .. Len(sessions)
      <4>1. r.answer \in 0 .. Len(sessions) BY <1>2 DEF ReadInv
      <4> QED BY <2>2, <4>1
    <3>2. TabBase(q, sessions) /\ q.status = "authenticated" BY <1>0, <1>3, <2>4, <3>1, AuthenticatedTab
    <3>3. Session!Show(t, q) BY <1>8, <2>2 DEF Session!InitialAnswered, p
    <3> HIDE DEF q
    <3> QED BY <1>0, <2>1, <3>2, <3>3, TabShows
  <2>3. CASE r.answer = 0
    <3> DEFINE q == [p EXCEPT !.status = "signedOut"]
    <3>1. Session!Show(t, q) BY <1>8, <2>3 DEF Session!InitialAnswered, p
    <3>2. /\ DOMAIN q = TabFields /\ q.status = "signedOut" /\ q.user = p.user /\ q.signing = p.signing
          /\ q.at = p.at /\ q.leaving = p.leaving /\ q.reads = p.reads
      BY <1>3 DEF TabBase, TabFields
    <3> HIDE DEF q
    <3>3. TabBase(q, sessions) BY <1>1, <1>3, <2>1, <2>4, <3>2 DEF TabBase, ReadInv
    <3> QED BY <1>0, <2>1, <3>1, <3>2, <3>3, TabShows
  <2> QED BY <2>1, <2>2, <2>3
<1>9. CASE Session!SessionAnswered(t, r)
  <2>1. CASE ~Session!IsForThisUser(t, r) BY <1>6, <1>9, <2>1 DEF Session!SessionAnswered, p
  <2>2. CASE Session!IsForThisUser(t, r) /\ r.answer = 0 BY <1>7, <1>9, <2>2 DEF Session!SessionAnswered, p,
       Session!IsForThisUser
  <2>3. CASE Session!IsForThisUser(t, r) /\ r.answer # 0
    <3> DEFINE q == Session!Authenticated(p, r.answer)
    <3>1. tabs[t].status = "authenticated" /\ r.current BY <2>3 DEF Session!IsForThisUser
    <3>2. r.answer \in 1 .. Len(sessions) /\ r.answer >= tabs[t].user
      <4>1. r.answer \in 0 .. Len(sessions) BY <1>2 DEF ReadInv
      <4>2. tabs[t].user # 0 BY <1>2, <3>1 DEF TabInv, TabBase
      <4> QED BY <1>2, <2>3, <3>1, <4>1, <4>2 DEF ReadInv
    <3>3. \A k \in p.reads : k.kind # "initial" BY <1>4, <3>1
    <3>4. TabBase(q, sessions) /\ q.status = "authenticated" /\ q.user = r.answer
      BY <1>0, <1>3, <3>2, <3>3, AuthenticatedTab
    <3>5. Session!Show(t, q) BY <1>9, <2>3 DEF Session!SessionAnswered, p
    <3> HIDE DEF q
    <3> QED BY <1>0, <3>1, <3>2, <3>4, <3>5, TabShows
  <2> QED BY <2>1, <2>2, <2>3
<1>10. CASE Session!DataAnswered(t, r)
  <2>1. CASE r.answer = 0 /\ tabs[t].status = "authenticated" BY <1>7, <1>10, <2>1 DEF Session!DataAnswered, p
  <2>2. CASE ~(r.answer = 0 /\ tabs[t].status = "authenticated") BY <1>6, <1>10, <2>2 DEF Session!DataAnswered, p
  <2> QED BY <2>1, <2>2
<1> QED BY <1>8, <1>9, <1>10

(* A read fails for want of a connection.                                  *)
LEMMA ReadLost ==
  ASSUME SessionInv, NEW t \in Tab, NEW r \in tabs[t].reads, UNCHANGED <<sessions, cookie>>, Session!Lost(t, r)
  PROVE  SessionInv' /\ \A u \in Tab : TabStep(tabs[u], tabs'[u], u)
<1> DEFINE p == Session!Drop(t, r)
           new == Session!Read("initial")
           rs == IF r.kind = "initial" THEN {new} ELSE p.reads
           q == [p EXCEPT !.reads = rs]
<1>0. cookie' \in {0, Len(sessions)} /\ Len(sessions) \in Nat /\ cookie \in {0, Len(sessions)} BY DEF SessionInv
<1>1. /\ TabInv(p, sessions) /\ p.status = tabs[t].status /\ p.user = tabs[t].user /\ p.signing = tabs[t].signing
      /\ p.at = tabs[t].at /\ p.leaving = tabs[t].leaving /\ p.reads = tabs[t].reads \ {r}
  BY DroppedTab
<1>2. TabInv(tabs[t], sessions) /\ ReadInv(r, tabs[t], sessions) BY DEF SessionInv, TabInv, TabBase
<1>3. tabs' = [tabs EXCEPT ![t] = q] BY DEF Session!Lost
<1>4. DOMAIN new = {"kind", "answer", "current"} /\ new.answer = cookie /\ new.kind = "initial" BY DEF Session!Read
<1> HIDE DEF p, new
<1>5. (rs = {new} /\ r.kind = "initial") \/ rs = p.reads OBVIOUS
<1> HIDE DEF rs
<1>6. /\ DOMAIN q = TabFields /\ q.status = p.status /\ q.user = p.user /\ q.signing = p.signing
      /\ q.at = p.at /\ q.leaving = p.leaving /\ q.reads = rs
  BY <1>1 DEF TabInv, TabBase, TabFields
<1> HIDE DEF q
<1>7. TabInv(q, sessions)
  <2>1. CASE rs = p.reads BY <1>1, <1>6, <2>1 DEF TabInv, TabBase, ReadInv
  <2>2. CASE rs = {new} /\ r.kind = "initial"
    <3>1. p.status = "checking" /\ p.user = 0 BY <1>1, <1>2, <2>2 DEF ReadInv, TabInv, TabBase
    <3>2. ReadInv(new, q, sessions) BY <1>0, <1>4, <1>6, <3>1 DEF ReadInv
    <3> QED BY <1>1, <1>6, <2>2, <3>1, <3>2 DEF TabInv, TabBase
  <2> QED BY <1>5, <2>1, <2>2
<1>8. TabStep(tabs[t], q, t) BY <1>1, <1>2, <1>6 DEF TabStep, TabInv, TabBase
<1> QED BY <1>0, <1>3, <1>7, <1>8, OneTab

(* The form for signing in, and leaving. *)
LEMMA FormChanges ==
  ASSUME SessionInv, NEW t \in Tab, cookie' = cookie, UNCHANGED sessions, NEW us, NEW b,
         tabs' = [tabs EXCEPT ![t] = [tabs[t] EXCEPT !.signing = us, !.leaving = b]],
         us \subseteq User, tabs[t].status = "checking" => us = {} /\ b = FALSE
  PROVE  SessionInv' /\ \A u \in Tab : TabStep(tabs[u], tabs'[u], u)
<1> DEFINE p == tabs[t]
           q == [p EXCEPT !.signing = us, !.leaving = b]
<1>0. cookie' \in {0, Len(sessions)} BY DEF SessionInv
<1>1. TabInv(p, sessions) /\ tabs' = [tabs EXCEPT ![t] = q] /\ (p.status = "checking" => us = {} /\ b = FALSE)
  BY DEF SessionInv
<1> HIDE DEF p
<1>3. /\ DOMAIN q = TabFields /\ q.status = p.status /\ q.user = p.user /\ q.signing = us
      /\ q.at = p.at /\ q.leaving = b /\ q.reads = p.reads
  BY <1>1 DEF TabInv, TabBase, TabFields
<1>4. tabs' = [tabs EXCEPT ![t] = q] BY <1>1
<1> HIDE DEF q
<1>5. TabInv(q, sessions) BY <1>1, <1>3 DEF TabInv, TabBase, ReadInv
<1>6. TabStep(p, q, t) BY <1>1, <1>3 DEF TabStep, TabInv, TabBase
<1> QED BY <1>0, <1>4, <1>5, <1>6, OneTab DEF p

(* Somebody signs in, or asks to sign out.                                 *)
LEMMA FormSent ==
  ASSUME SessionInv, NEW t \in Tab,
         \/ \E u \in User : Session!SignIn(t, u)
         \/ Session!SignInRefused(t) \/ Session!SignOut(t) \/ Session!SignOutFailed(t)
  PROVE  SessionInv' /\ \A u \in Tab : TabStep(tabs[u], tabs'[u], u)
<1> DEFINE p == tabs[t]
           b == p.leaving
           us == p.signing
<1>0. UNCHANGED <<sessions, cookie>> BY DEF Session!SignIn, Session!SignInRefused, Session!SignOut,
     Session!SignOutFailed
<1>1. TabInv(p, sessions) BY DEF SessionInv
<1>2. DOMAIN p = TabFields /\ us \subseteq User /\ (p.status = "checking" => us = {} /\ b = FALSE)
  BY <1>1 DEF TabInv, TabBase
<1>3. ASSUME NEW u \in User, Session!SignIn(t, u) PROVE SessionInv' /\ \A v \in Tab : TabStep(tabs[v], tabs'[v], v)
  <2>1. tabs' = [tabs EXCEPT ![t] = [p EXCEPT !.signing = {u}]] /\ p.status # "checking" BY <1>3 DEF Session!SignIn
  <2>2. [p EXCEPT !.signing = {u}] = [p EXCEPT !.signing = {u}, !.leaving = b] BY <1>2 DEF TabFields
  <2>3. tabs' = [tabs EXCEPT ![t] = [p EXCEPT !.signing = {u}, !.leaving = b]] /\ {u} \subseteq User BY <2>1, <2>2
  <2> DEFINE one == {u}
  <2>4. /\ tabs' = [tabs EXCEPT ![t] = [p EXCEPT !.signing = one, !.leaving = b]] /\ one \subseteq User
        /\ (p.status = "checking" => one = {} /\ b = FALSE)
    BY <2>1, <2>3
  <2> HIDE DEF b, one
  <2> QED BY <1>0, <2>4, FormChanges
<1>4. CASE Session!SignInRefused(t)
  <2>1. tabs' = [tabs EXCEPT ![t] = [p EXCEPT !.signing = {}]] BY <1>4 DEF Session!SignInRefused
  <2>2. [p EXCEPT !.signing = {}] = [p EXCEPT !.signing = {}, !.leaving = b] BY <1>2 DEF TabFields
  <2>3. tabs' = [tabs EXCEPT ![t] = [p EXCEPT !.signing = {}, !.leaving = b]] BY <2>1, <2>2
  <2> DEFINE none == {}
  <2>4. tabs' = [tabs EXCEPT ![t] = [p EXCEPT !.signing = none, !.leaving = b]] /\ none \subseteq User
        /\ (p.status = "checking" => none = {} /\ b = FALSE)
    BY <1>2, <2>3
  <2> HIDE DEF b, none
  <2> QED BY <1>0, <2>4, FormChanges
<1>5. ASSUME NEW c, tabs' = [tabs EXCEPT ![t].leaving = c], p.status = "checking" => c = FALSE
      PROVE  SessionInv' /\ \A v \in Tab : TabStep(tabs[v], tabs'[v], v)
  <2>1. tabs' = [tabs EXCEPT ![t] = [p EXCEPT !.leaving = c]] BY <1>5
  <2>2. [p EXCEPT !.leaving = c] = [p EXCEPT !.signing = us, !.leaving = c] BY <1>2 DEF TabFields
  <2>3. tabs' = [tabs EXCEPT ![t] = [p EXCEPT !.signing = us, !.leaving = c]] BY <2>1, <2>2
  <2>4. p.status = "checking" => us = {} /\ c = FALSE BY <1>2, <1>5
  <2> HIDE DEF us
  <2> QED BY <1>0, <1>2, <2>3, <2>4, FormChanges
<1>6. CASE Session!SignOut(t)
  <2>1. tabs' = [tabs EXCEPT ![t].leaving = TRUE] /\ p.status # "checking" BY <1>6 DEF Session!SignOut
  <2> QED BY <1>5, <2>1
<1>7. CASE Session!SignOutFailed(t)
  <2>1. tabs' = [tabs EXCEPT ![t].leaving = FALSE] BY <1>7 DEF Session!SignOutFailed
  <2> QED BY <1>5, <2>1
<1> QED BY <1>3, <1>4, <1>6, <1>7

(* A sign-out is answered, and the other tabs are told.                    *)
LEMMA SignedOutEverywhere ==
  ASSUME SessionInv, NEW t \in Tab, Session!SignOutAnswered(t)
  PROVE  SessionInv' /\ \A u \in Tab : TabStep(tabs[u], tabs'[u], u)
<1> DEFINE p == [tabs[t] EXCEPT !.leaving = FALSE]
           q == Session!SignedOut(p, "signedOut")
<1>0. cookie' \in {0, Len(sessions)} /\ UNCHANGED sessions BY DEF Session!SignOutAnswered
<1>1. TabInv(tabs[t], sessions) /\ tabs[t].status # "checking" BY DEF SessionInv, Session!SignOutAnswered, TabInv,
     TabBase
<1>2. /\ DOMAIN p = TabFields /\ p.status = tabs[t].status /\ p.user = tabs[t].user /\ p.signing = tabs[t].signing
      /\ p.at = tabs[t].at /\ p.leaving = FALSE /\ p.reads = tabs[t].reads
  BY <1>1 DEF TabInv, TabBase, TabFields
<1>3. Session!Show(t, q) BY DEF Session!SignOutAnswered
<1> HIDE DEF p
<1>4. TabBase(p, sessions) BY <1>1, <1>2 DEF TabInv, TabBase, ReadInv
<1>5. \A k \in p.reads : k.kind # "initial" BY <1>1, <1>2 DEF TabInv, TabBase, ReadInv
<1>6. /\ TabBase(q, sessions) /\ q.status = "signedOut" /\ q.user = 0 /\ q.at = p.at
      /\ q.notice = "signedOut" /\ q.signedOutPath = Session!PathFor(p)
  BY <1>1, <1>2, <1>4, <1>5, SignedOutTab
<1>7. tabs[t].at = "pos" /\ tabs[t].status = "authenticated" => Session!PathFor(p) = "staffSignIn" BY <1>2,
     StaffOfThePos
<1> HIDE DEF q
<1> QED BY <1>0, <1>2, <1>3, <1>6, <1>7, TabShows

(* A session more: it is the last, and those of the other tabs stay. *)
LEMMA SignedIn ==
  ASSUME SessionInv, NEW t \in Tab, Session!SignInAnswered(t)
  PROVE  SessionInv' /\ \A u \in Tab : TabStep(tabs[u], tabs'[u], u)
<1>1. PICK u \in tabs[t].signing :
        /\ sessions' = Append(sessions, u) /\ cookie' = Len(sessions')
        /\ LET p == Session!Authenticated([tabs[t] EXCEPT !.signing = {}], cookie') IN
             tabs' = [tabs EXCEPT ![t] = [p EXCEPT !.at = IF u \in StaffUser THEN "pos" ELSE "admin"]]
  BY DEF Session!SignInAnswered
<1>2. TabInv(tabs[t], sessions) /\ sessions \in Seq(User) BY DEF SessionInv
<1>3. u \in User /\ tabs[t].status # "checking" BY <1>2 DEF TabInv, TabBase
<1>4. /\ sessions' \in Seq(User) /\ Len(sessions') = Len(sessions) + 1 /\ sessions'[Len(sessions) + 1] = u
      /\ \A i \in 1 .. Len(sessions) : sessions'[i] = sessions[i]
  BY <1>1, <1>2, <1>3
<1>5. Len(sessions) \in Nat BY <1>2
<1>6. ASSUME NEW p, TabInv(p, sessions) PROVE TabInv(p, sessions')
  <2>1. p.user # 0 => HomeIn(p.user, sessions') = HomeIn(p.user, sessions)
    <3>1. p.user # 0 => p.user \in 1 .. Len(sessions) BY <1>5, <1>6 DEF TabInv, TabBase
    <3> QED BY <1>4, <3>1 DEF HomeIn
  <2>2. 0 .. Len(sessions) \subseteq 0 .. Len(sessions') BY <1>4, <1>5
  <2>3. TabBase(p, sessions') BY <1>6, <2>2 DEF TabInv, TabBase, ReadInv
  <2> QED BY <1>6, <2>1, <2>3 DEF TabInv, TabBase
<1> DEFINE p == [tabs[t] EXCEPT !.signing = {}]
           s == Len(sessions) + 1
           a == Session!Authenticated(p, s)
           home == IF u \in StaffUser THEN "pos" ELSE "admin"
           q == [a EXCEPT !.at = home]
<1>7. tabs' = [tabs EXCEPT ![t] = q] /\ cookie' = s BY <1>1, <1>4
<1>8. /\ DOMAIN p = TabFields /\ p.status = tabs[t].status /\ p.user = tabs[t].user /\ p.signing = {}
      /\ p.at = tabs[t].at /\ p.leaving = tabs[t].leaving /\ p.reads = tabs[t].reads
  BY <1>2 DEF TabInv, TabBase, TabFields
<1> HIDE DEF p
<1>9. TabInv(tabs[t], sessions') BY <1>2, <1>6
<1>10. TabBase(p, sessions') BY <1>8, <1>9 DEF TabInv, TabBase, ReadInv
<1>11. \A k \in p.reads : k.kind # "initial" BY <1>2, <1>3, <1>8 DEF TabInv, TabBase, ReadInv
<1>12. s \in 1 .. Len(sessions') BY <1>4, <1>5
<1>13. TabBase(a, sessions') /\ a.status = "authenticated" /\ a.user = s BY <1>4, <1>10, <1>11, <1>12,
     AuthenticatedTab
<1>14. home = HomeIn(s, sessions') BY <1>4 DEF HomeIn
<1> HIDE DEF a, home
<1>15. /\ DOMAIN q = TabFields /\ q.status = a.status /\ q.user = a.user /\ q.signing = a.signing
       /\ q.at = home /\ q.leaving = a.leaving /\ q.reads = a.reads
  BY <1>13 DEF TabBase, TabFields
<1> HIDE DEF q
<1>16. TabInv(q, sessions') BY <1>13, <1>14, <1>15 DEF TabInv, TabBase, ReadInv
<1>17. DOMAIN tabs' = Tab /\ tabs'[t] = q /\ \A v \in Tab \ {t} : tabs'[v] = tabs[v] BY <1>7 DEF SessionInv
<1>18. \A v \in Tab : TabInv(tabs'[v], sessions')
  <2> SUFFICES ASSUME NEW v \in Tab PROVE TabInv(tabs'[v], sessions') OBVIOUS
  <2>1. CASE v = t BY <1>16, <1>17, <2>1
  <2>2. CASE v # t
    <3>1. TabInv(tabs[v], sessions) BY DEF SessionInv
    <3>2. TabInv(tabs[v], sessions') BY <1>6, <3>1
    <3> QED BY <1>17, <2>2, <3>2
  <2> QED BY <2>1, <2>2
<1>19. SessionInv' BY <1>4, <1>7, <1>17, <1>18 DEF SessionInv
<1>20. TabStep(tabs[t], q, t)
  <2>1. tabs[t].user <= Len(sessions) BY <1>2, <1>5 DEF TabInv, TabBase
  <2>2. tabs[t].signing # {} BY <1>1
  <2>3. sessions' # sessions BY <1>4, <1>5
  <2>4. tabs[t].user \in Nat BY <1>2, <1>5 DEF TabInv, TabBase
  <2> QED BY <1>5, <1>13, <1>15, <2>1, <2>2, <2>3, <2>4 DEF TabStep
<1>21. \A v \in Tab \ {t} : TabStep(tabs[v], tabs'[v], v)
  <2> SUFFICES ASSUME NEW v \in Tab \ {t} PROVE TabStep(tabs[v], tabs[v], v) BY <1>17
  <2> QED BY <1>5 DEF TabStep, SessionInv, TabInv, TabBase
<1> QED BY <1>17, <1>19, <1>20, <1>21

(* Each step keeps the invariant, and takes each tab one of the steps it   *)
(* may.                                                                    *)
LEMMA SessionNext == SessionInv /\ [Session!Next]_(Session!vars)
  => SessionInv' /\ \A u \in Tab : TabStep(tabs[u], tabs'[u], u)
<1> SUFFICES ASSUME SessionInv, [Session!Next]_(Session!vars)
             PROVE SessionInv' /\ \A u \in Tab : TabStep(tabs[u], tabs'[u], u) OBVIOUS
<1>0. cookie \in {0, Len(sessions)} BY DEF SessionInv
<1>1. CASE UNCHANGED Session!vars
  <2>1. UNCHANGED <<sessions, cookie, tabs>> BY <1>1 DEF Session!vars
  <2> QED BY <1>0, <2>1, SameTabs
<1>2. CASE Session!End
  <2>1. UNCHANGED <<sessions, tabs>> /\ cookie' = 0 BY <1>2 DEF Session!End
  <2> QED BY <2>1, SameTabs
<1>3. ASSUME NEW t \in Tab, NEW at \in Address, Session!Load(t, at)
      PROVE SessionInv' /\ \A u \in Tab : TabStep(tabs[u], tabs'[u], u)
  BY <1>3, TabLoads
<1>4. ASSUME NEW t \in Tab, Session!Revalidate(t) PROVE SessionInv' /\ \A u \in Tab : TabStep(tabs[u], tabs'[u], u)
  BY <1>4, TabAsks DEF Session!Revalidate
<1>5. ASSUME NEW t \in Tab, Session!Ignore(t) PROVE SessionInv' /\ \A u \in Tab : TabStep(tabs[u], tabs'[u], u)
  <2>1. UNCHANGED <<sessions, cookie, tabs>> BY <1>5 DEF Session!Ignore
  <2> QED BY <1>0, <2>1, SameTabs
<1>6. ASSUME NEW t \in Tab, Session!Fetch(t) PROVE SessionInv' /\ \A u \in Tab : TabStep(tabs[u], tabs'[u], u)
  BY <1>6, TabAsks DEF Session!Fetch
<1>7. ASSUME NEW t \in Tab, UNCHANGED <<sessions, cookie>>, NEW r \in tabs[t].reads,
             Session!InitialAnswered(t, r) \/ Session!SessionAnswered(t, r) \/ Session!DataAnswered(t, r) \/
               Session!Lost(t, r)
      PROVE SessionInv' /\ \A u \in Tab : TabStep(tabs[u], tabs'[u], u)
  BY <1>7, ReadsAnswered, ReadLost
<1>8. ASSUME NEW t \in Tab,
             (\E u \in User : Session!SignIn(t, u)) \/ Session!SignInRefused(t) \/ Session!SignOut(t) \/
               Session!SignOutFailed(t)
      PROVE SessionInv' /\ \A u \in Tab : TabStep(tabs[u], tabs'[u], u)
  BY <1>8, FormSent
<1>9. ASSUME NEW t \in Tab, Session!SignInAnswered(t) PROVE SessionInv' /\ \A u \in Tab : TabStep(tabs[u], tabs'[u], u)
  BY <1>9, SignedIn
<1>10. ASSUME NEW t \in Tab, Session!SignOutAnswered(t)
       PROVE SessionInv' /\ \A u \in Tab : TabStep(tabs[u], tabs'[u], u)
  BY <1>10, SignedOutEverywhere
<1> QED BY <1>1, <1>2, <1>3, <1>4, <1>5, <1>6, <1>7, <1>8, <1>9, <1>10 DEF Session!Next

(* The tabs before any is loaded.                                          *)
LEMMA SessionInit == Session!Init => SessionInv
<1> SUFFICES ASSUME Session!Init PROVE SessionInv OBVIOUS
<1> DEFINE q == Session!Loading("admin")
           r == Session!Read("initial")
<1>1. /\ tabs = [t \in Tab |-> q] /\ sessions = <<>> /\ cookie = 0 BY DEF Session!Init
<1>2. DOMAIN r = {"kind", "answer", "current"} /\ r.answer = cookie /\ r.kind = "initial" BY DEF Session!Read
<1>3. /\ DOMAIN q = TabFields /\ q.status = "checking" /\ q.user = 0 /\ q.signing = {} /\ q.leaving = FALSE
      /\ q.reads = {r}
  BY DEF Session!Loading, TabFields
<1> HIDE DEF q, r
<1>4. sessions \in Seq(User) /\ Len(sessions) = 0 BY <1>1
<1>5. TabInv(q, sessions) BY <1>1, <1>2, <1>3, <1>4 DEF TabInv, TabBase, ReadInv
<1>6. DOMAIN tabs = Tab /\ \A t \in Tab : tabs[t] = q BY <1>1
<1> QED BY <1>1, <1>4, <1>5, <1>6 DEF SessionInv

(* The invariant of the tabs.                                              *)
THEOREM SessionInvariant == Session!Spec => []SessionInv
BY SessionInit, SessionNext, PTL DEF Session!Spec

(* A tab's user changes only as its session does.                          *)
THEOREM SessionsHold == Session!Spec => Session!SessionsAreCurrent
<1>1. SessionInv /\ [Session!Next]_(Session!vars) =>
        [\A t \in Tab : tabs[t].user # 0 /\ tabs'[t].user # 0 => tabs'[t].user >= tabs[t].user]_(Session!vars)
  BY SessionNext DEF TabStep
<1>2. SessionInv /\ [Session!Next]_(Session!vars) =>
        [\A t \in Tab :
           tabs[t].status = "signedOut" /\ tabs'[t].status = "authenticated"
             => tabs[t].signing # {} /\ sessions' # sessions]_(Session!vars)
  BY SessionNext DEF TabStep
<1>3. SessionInv /\ [Session!Next]_(Session!vars) =>
        [\A t \in Tab :
           tabs[t].at = "pos" /\ tabs[t].status = "authenticated" /\ tabs'[t].status = "signedOut"
             => tabs'[t].at = "staffSignIn"]_(Session!vars)
  BY SessionNext DEF TabStep
<1> QED BY <1>1, <1>2, <1>3, SessionInvariant, PTL
       DEF Session!Spec, Session!SessionsAreCurrent, Session!SessionsNeverGoBack, Session!SignedOutUntilSignIn,
         Session!StaffStayOnTheirSide
-----------------------------------------------------------------------------
(* HistoryPages: the administrator's order history.                        *)


QueryFields == {"status", "size", "sort", "asc", "page"}

(* What a load, a void on its way and an order shown are. *)
HistoryTypes ==
  /\ hisRoute \in Order \cup {"list"} /\ DOMAIN hisUrl = QueryFields /\ hisMoves \in Nat
  /\ DOMAIN voids = Order /\ \A o \in Order : voids[o] \subseteq 0 .. hisMoves
  /\ DOMAIN voidDialog = {"open", "voiding", "id", "error"}
  /\ \A l \in hisLoads :
       IF hisRoute = "list" THEN DOMAIN l = {"of", "active"}
       ELSE DOMAIN l = {"of", "active", "read", "void"} /\ l.of \in Order /\ l.void \in BOOLEAN /\
         (l.void => voids[l.of] # {})
  /\ \A o \in shown : DOMAIN o = {"id", "void"} /\ o.id \in Order /\ o.void \in BOOLEAN /\ (o.void => voids[o.id] # {})
  /\ \A r \in hisVoids :
       /\ DOMAIN r = {"order", "id", "step", "here"} /\ r.order \in Order /\ r.id \in 0 .. hisMoves
       /\ r.step = "done" => voids[r.order] # {}
  /\ \A o \in said : o \in Order /\ voids[o] # {}

(* The load that counts is the last one, and is what is waited for. *)
LastLoadCounts ==
  /\ \A k, l \in hisLoads : k.active /\ l.active => k = l
  /\ hisRoute = "list" =>
       /\ \A l \in hisLoads : l.active => l.of = hisRendered
       /\ ~History!IsLoading /\ ~hisFailed => list = {hisRendered}
  /\ hisRoute # "list" =>
       /\ hisRendered = hisUrl
       /\ \A l \in hisLoads : l.active => l.of = hisRoute
       /\ ~History!IsLoading /\ ~hisFailed => {o.id : o \in shown} = {hisRoute}

(* What the page cannot have missed is on its way to it. *)
NothingIsMissed ==
  hisRoute # "list" /\ ~hisMissed /\ ~hisFailed =>
    /\ History!IsLoading => hisVoids = {}
    /\ \A l \in hisLoads : l.active /\ l.read => (l.void <=> voids[l.of] # {})
    /\ ~History!IsLoading =>
         /\ \A r \in hisVoids : r.here /\ r.order = hisRoute
         /\ \A o \in shown : voids[hisRoute] # {} /\ ~o.void => \E r \in hisVoids : r.step = "done"

(* The id of the dialog was made up since the order was opened. *)
IdsAreOfTheDialog ==
  /\ \A n \in voidDialog.id : voidDialog.id = {n} /\ n \in 1 .. hisMoves
  /\ \A t \in hisTried : voidDialog.id = {t.id}
  /\ \A n \in voidDialog.id :
       /\ \A o \in Order : n \in voids[o] => [order |-> o, id |-> n] \in hisTried
       /\ \A r \in hisVoids : r.id = n =>
            /\ [order |-> r.order, id |-> n] \in hisTried
            /\ r.step = "refused" =>
                 \/ voids[r.order] # {} /\ n \notin voids[r.order]
                 \/ \E o \in Order : o # r.order /\ n \in voids[o]

HistoryIInv == HistoryTypes /\ History!ChangesAreKept /\ LastLoadCounts /\ NothingIsMissed /\ IdsAreOfTheDialog

(* The list as it is first opened.                                         *)
LEMMA HistoryStarts == History!Init => HistoryIInv
<1> SUFFICES ASSUME History!Init PROVE HistoryIInv OBVIOUS
<1> USE DEF History!Init
<1>1. HistoryTypes BY DEF HistoryTypes, History!Default, QueryFields, History!Closed
<1>2. History!ChangesAreKept BY DEF History!ChangesAreKept
<1>3. LastLoadCounts BY OrderAssumption DEF LastLoadCounts, History!IsLoading
<1>4. NothingIsMissed BY DEF NothingIsMissed
<1>5. IdsAreOfTheDialog BY DEF IdsAreOfTheDialog, History!Closed
<1> QED BY <1>1, <1>2, <1>3, <1>4, <1>5 DEF HistoryIInv

(* A step that leaves the voids alone, and what a void holds. *)
LEMMA IdsStay ==
  ASSUME HistoryIInv, UNCHANGED <<voids, hisVoids, hisTried>>, voidDialog'.id = voidDialog.id, hisMoves' \in Nat,
           hisMoves' >= hisMoves
  PROVE  IdsAreOfTheDialog'
BY DEF HistoryIInv, IdsAreOfTheDialog, HistoryTypes

(* A change of the list's query. *)
LEMMA QueryChanges ==
  ASSUME HistoryIInv, hisRoute = "list", NEW q, History!Goes(q), DOMAIN q = QueryFields, History!Moved,
         chosen' = [status |-> q.status, size |-> q.size]
  PROVE  HistoryIInv'
<1>1. /\ hisUrl' = q /\ hisMoves' = hisMoves + 1 /\ hisMoves \in Nat
      /\ UNCHANGED <<hisRoute, hisRendered, list, hisLoads, hisFailed, shown, History!voiding, voids>>
  BY DEF History!Goes, History!Moved, HistoryIInv, HistoryTypes
<1> USE <1>1 DEF History!voiding
<1>2. HistoryTypes' BY DEF HistoryIInv, HistoryTypes
<1>3. History!ChangesAreKept' BY DEF History!ChangesAreKept
<1>4. LastLoadCounts' BY DEF HistoryIInv, LastLoadCounts, History!IsLoading
<1>5. NothingIsMissed' BY DEF NothingIsMissed
<1>6. IdsAreOfTheDialog' BY IdsStay
<1> QED BY <1>2, <1>3, <1>4, <1>5, <1>6 DEF HistoryIInv

(* The status, the page's size, the order or the page is chosen.           *)
LEMMA ListChanges ==
  ASSUME HistoryIInv, hisRoute = "list",
         \/ \E s \in Status : History!UpdateStatus(s)
         \/ \E n \in Size : History!UpdateSize(n)
         \/ \E sort \in {"businessDay", "total"} : History!SortBy(sort)
         \/ \E n \in 1 .. 2 : History!SetPage(n)
  PROVE  HistoryIInv'
<1>1. DOMAIN hisUrl = QueryFields /\ chosen = [status |-> hisUrl.status, size |-> hisUrl.size]
  BY DEF HistoryIInv, HistoryTypes, History!ChangesAreKept
<1>2. DOMAIN chosen = {"status", "size"} /\ chosen.status = hisUrl.status /\ chosen.size = hisUrl.size BY <1>1
<1>3. ASSUME NEW s \in Status, History!UpdateStatus(s) PROVE HistoryIInv'
  <2> DEFINE q == [hisUrl EXCEPT !.status = s, !.page = 1]
  <2>1. DOMAIN q = QueryFields /\ q.status = s /\ q.size = hisUrl.size BY <1>1 DEF QueryFields
  <2>2. History!Goes(q) /\ History!Moved /\ chosen' = [chosen EXCEPT !.status = s] BY <1>3 DEF History!UpdateStatus,
       History!LatestQuery
  <2>3. chosen' = [status |-> q.status, size |-> q.size] BY <1>1, <2>1, <2>2
  <2> HIDE DEF q
  <2> QED BY <2>1, <2>2, <2>3, QueryChanges
<1>4. ASSUME NEW n \in Size, History!UpdateSize(n) PROVE HistoryIInv'
  <2> DEFINE q == [hisUrl EXCEPT !.size = n, !.page = 1]
  <2>1. DOMAIN q = QueryFields /\ q.status = hisUrl.status /\ q.size = n BY <1>1 DEF QueryFields
  <2>2. History!Goes(q) /\ History!Moved /\ chosen' = [chosen EXCEPT !.size = n] BY <1>4 DEF History!UpdateSize,
       History!LatestQuery
  <2>3. chosen' = [status |-> q.status, size |-> q.size] BY <1>1, <2>1, <2>2
  <2> HIDE DEF q
  <2> QED BY <2>1, <2>2, <2>3, QueryChanges
<1>5. ASSUME NEW sort, History!SortBy(sort) PROVE HistoryIInv'
  <2> DEFINE a == IF hisRendered.sort = sort THEN ~hisRendered.asc ELSE TRUE
  <2> HIDE DEF a
  <2> DEFINE q == [hisUrl EXCEPT !.sort = sort, !.page = 1, !.asc = a]
  <2>1. DOMAIN q = QueryFields /\ q.status = hisUrl.status /\ q.size = hisUrl.size BY <1>1 DEF QueryFields
  <2>2. History!Goes(q) /\ History!Moved /\ chosen' = chosen BY <1>5 DEF History!SortBy, History!LatestQuery, a
  <2> HIDE DEF q
  <2>3. chosen' = [status |-> q.status, size |-> q.size] BY <1>1, <2>1, <2>2
  <2> QED BY <2>1, <2>2, <2>3, QueryChanges
<1>6. ASSUME NEW n, History!SetPage(n) PROVE HistoryIInv'
  <2> DEFINE q == [hisUrl EXCEPT !.page = n]
  <2>1. DOMAIN q = QueryFields /\ q.status = hisUrl.status /\ q.size = hisUrl.size BY <1>1 DEF QueryFields
  <2>2. History!Goes(q) /\ History!Moved /\ chosen' = chosen BY <1>6 DEF History!SetPage, History!LatestQuery
  <2> HIDE DEF q
  <2>3. chosen' = [status |-> q.status, size |-> q.size] BY <1>1, <2>1, <2>2
  <2> QED BY <2>1, <2>2, <2>3, QueryChanges
<1> QED BY <1>3, <1>4, <1>5, <1>6

(* The loads of the list. *)
LEMMA ListLoads ==
  ASSUME HistoryIInv, hisRoute = "list",
           History!Render \/ \E l \in hisLoads : History!Loaded(l) \/ History!LoadFailed(l)
  PROVE  HistoryIInv'
<1>1. UNCHANGED <<hisRoute, hisUrl, chosen, shown, History!voiding, voids, hisMoves>>
  BY DEF History!Render, History!Loaded, History!LoadFailed, History!listed
<1> USE <1>1 DEF History!voiding
<1>2. IdsAreOfTheDialog' BY IdsStay DEF HistoryIInv, HistoryTypes
<1>3. NothingIsMissed' BY DEF NothingIsMissed
<1>4. History!ChangesAreKept' BY DEF HistoryIInv, History!ChangesAreKept
<1>5. CASE History!Render
  <2>1. /\ hisRendered' = hisUrl /\ hisFailed' = FALSE
        /\ hisLoads' = {[l EXCEPT !.active = FALSE] : l \in hisLoads} \cup {[of |-> hisUrl, active |-> TRUE]}
    BY <1>5 DEF History!Render, History!Inactive
  <2>2. \A l \in hisLoads : DOMAIN l = {"of", "active"} BY DEF HistoryIInv, HistoryTypes
  <2>3. \A k \in hisLoads' : DOMAIN k = {"of", "active"} /\ (k.active => k = [of |-> hisUrl, active |-> TRUE])
    <3> SUFFICES ASSUME NEW k \in hisLoads'
                 PROVE DOMAIN k = {"of", "active"} /\ (k.active => k = [of |-> hisUrl, active |-> TRUE])
      OBVIOUS
    <3>1. CASE k = [of |-> hisUrl, active |-> TRUE] BY <3>1
    <3>2. ASSUME NEW l \in hisLoads, k = [l EXCEPT !.active = FALSE] PROVE DOMAIN k = {"of", "active"} /\ ~k.active
      BY <3>2, <2>2
    <3> QED BY <2>1, <3>1, <3>2
  <2>4. HistoryTypes' BY <2>3 DEF HistoryIInv, HistoryTypes
  <2>5. History!IsLoading'
    <3>1. [of |-> hisUrl, active |-> TRUE] \in hisLoads' BY <2>1
    <3> QED BY <3>1 DEF History!IsLoading
  <2>6. LastLoadCounts'
    <3>1. \A k \in hisLoads' : k.active => k.of = hisRendered' BY <2>1, <2>3
    <3> QED BY <2>3, <2>5, <3>1 DEF LastLoadCounts
  <2> QED BY <1>2, <1>3, <1>4, <2>4, <2>6 DEF HistoryIInv
<1>6. ASSUME NEW l \in hisLoads, History!Loaded(l) \/ History!LoadFailed(l) PROVE HistoryIInv'
  <2>1. hisLoads' = hisLoads \ {l} /\ hisRendered' = hisRendered BY <1>6 DEF History!Loaded, History!LoadFailed,
       History!listed
  <2>2. HistoryTypes' BY <2>1 DEF HistoryIInv, HistoryTypes
  <2>3. l.active => ~History!IsLoading' BY <2>1 DEF HistoryIInv, LastLoadCounts, History!IsLoading
  <2>4. ~l.active => (History!IsLoading' <=> History!IsLoading) BY <2>1 DEF History!IsLoading
  <2>5. ~History!IsLoading' /\ ~hisFailed' => list' = {hisRendered}
    <3>1. CASE History!Loaded(l) /\ l.active
      BY <3>1 DEF HistoryIInv, LastLoadCounts, History!Loaded, History!IsActive
    <3>2. CASE History!LoadFailed(l) /\ l.active
      BY <3>2 DEF History!LoadFailed, History!IsActive
    <3>3. CASE ~l.active
      BY <1>6, <2>4, <3>3 DEF HistoryIInv, LastLoadCounts, History!Loaded, History!LoadFailed, History!IsActive,
           History!listed
    <3> QED BY <1>6, <3>1, <3>2, <3>3
  <2>6. LastLoadCounts' BY <2>1, <2>5 DEF HistoryIInv, LastLoadCounts
  <2> QED BY <1>2, <1>3, <1>4, <2>2, <2>6 DEF HistoryIInv
<1> QED BY <1>5, <1>6

(* An order is opened, from the list or from another. *)
LEMMA OrderOpened ==
  ASSUME HistoryIInv, NEW o \in Order, History!Visit(o)
  PROVE  HistoryIInv'
<1> DEFINE new == [of |-> o, active |-> TRUE, read |-> FALSE, void |-> FALSE]
           before == IF hisRoute = "list" THEN {} ELSE History!Inactive(hisLoads)
<1>1. /\ hisMoves' = hisMoves + 1 /\ hisMoves \in Nat /\ hisRoute' = o /\ o # "list" /\ hisRendered = hisUrl
      /\ hisFailed' = FALSE
      /\ said' = {} /\ hisTried' = {} /\ hisMissed' = (hisVoids # {})
      /\ UNCHANGED <<hisUrl, hisRendered, chosen, shown, hisVoids, voids>>
  BY OrderAssumption DEF History!Visit, History!Moved, HistoryIInv, HistoryTypes
<1>2. hisLoads' = before \cup {new} BY DEF History!Visit
<1>3. voidDialog'.id = {} /\ DOMAIN voidDialog' = {"open", "voiding", "id", "error"} BY DEF History!Visit,
     History!Closed, History!FreshDialog
<1>4. \A l \in before : DOMAIN l = {"of", "active", "read", "void"} /\ l.active = FALSE /\ l.of \in Order /\
        l.void \in BOOLEAN /\ (l.void => voids[l.of] # {})
  <2> SUFFICES ASSUME hisRoute # "list", NEW m \in History!Inactive(hisLoads)
               PROVE  DOMAIN m = {"of", "active", "read", "void"} /\ m.active = FALSE /\ m.of \in Order /\
                        m.void \in BOOLEAN /\ (m.void => voids[m.of] # {})
    OBVIOUS
  <2>1. PICK l \in hisLoads : m = [l EXCEPT !.active = FALSE] BY DEF History!Inactive
  <2>2. DOMAIN l = {"of", "active", "read", "void"} /\ l.of \in Order /\ l.void \in BOOLEAN /\
          (l.void => voids[l.of] # {})
    BY DEF HistoryIInv, HistoryTypes
  <2>3. m.of = l.of /\ m.void = l.void BY <2>1, <2>2
  <2> QED BY <2>1, <2>2, <2>3
<1>5. DOMAIN new = {"of", "active", "read", "void"} /\ new.active = TRUE /\ new.of = o /\ new.void = FALSE /\
        new.read = FALSE
  OBVIOUS
<1> HIDE DEF before, new
<1>6. HistoryTypes'
  <2>1. \A l \in hisLoads' : /\ DOMAIN l = {"of", "active", "read", "void"} /\ l.of \in Order /\ l.void \in BOOLEAN
                             /\ l.void => voids[l.of] # {}
    BY <1>2, <1>4, <1>5
  <2> QED BY <1>1, <1>3, <2>1 DEF HistoryIInv, HistoryTypes
<1>7. History!ChangesAreKept' BY <1>1 DEF HistoryIInv, History!ChangesAreKept
<1>8. History!IsLoading' BY <1>2, <1>5 DEF History!IsLoading
<1>9. LastLoadCounts' BY <1>1, <1>2, <1>4, <1>5, <1>8 DEF LastLoadCounts
<1>10. NothingIsMissed' BY <1>1, <1>2, <1>4, <1>5, <1>8 DEF NothingIsMissed
<1>11. IdsAreOfTheDialog' BY <1>1, <1>3 DEF IdsAreOfTheDialog
<1> QED BY <1>6, <1>7, <1>9, <1>10, <1>11 DEF HistoryIInv

(* The browser's way back from an order to the list.                       *)
LEMMA BackToTheList ==
  ASSUME HistoryIInv, History!Back
  PROVE  HistoryIInv'
<1> DEFINE new == [of |-> hisUrl, active |-> TRUE]
<1>1. /\ hisMoves' = hisMoves + 1 /\ hisMoves \in Nat /\ hisRoute' = "list" /\ hisRendered = hisUrl
      /\ hisFailed' = FALSE
      /\ said' = {} /\ hisTried' = {} /\ shown' = {} /\ UNCHANGED <<hisUrl, hisRendered, chosen, voids>>
  BY DEF History!Back, History!Moved, HistoryIInv, HistoryTypes, LastLoadCounts
<1>2. hisLoads' = {new} /\ hisVoids' = {[r EXCEPT !.here = FALSE] : r \in hisVoids} BY DEF History!Back
<1>3. voidDialog'.id = {} /\ DOMAIN voidDialog' = {"open", "voiding", "id", "error"} BY DEF History!Back,
     History!Closed
<1>4. DOMAIN new = {"of", "active"} /\ new.active = TRUE /\ new.of = hisUrl OBVIOUS
<1>5. \A q \in hisVoids' :
        /\ DOMAIN q = {"order", "id", "step", "here"} /\ q.order \in Order /\ q.id \in 0 .. hisMoves
        /\ q.step = "done" => voids[q.order] # {}
  <2> SUFFICES ASSUME NEW r \in hisVoids, NEW q, q = [r EXCEPT !.here = FALSE]
               PROVE  /\ DOMAIN q = {"order", "id", "step", "here"} /\ q.order \in Order /\ q.id \in 0 .. hisMoves
                      /\ q.step = "done" => voids[q.order] # {}
    BY <1>2
  <2>1. /\ DOMAIN r = {"order", "id", "step", "here"} /\ r.order \in Order /\ r.id \in 0 .. hisMoves
        /\ r.step = "done" => voids[r.order] # {}
    BY DEF HistoryIInv, HistoryTypes
  <2>2. DOMAIN q = DOMAIN r /\ q.order = r.order /\ q.id = r.id /\ q.step = r.step BY <2>1
  <2> QED BY <2>1, <2>2
<1> HIDE DEF new
<1>6. HistoryTypes' BY <1>1, <1>2, <1>3, <1>4, <1>5 DEF HistoryIInv, HistoryTypes
<1>7. History!ChangesAreKept' BY <1>1 DEF HistoryIInv, History!ChangesAreKept
<1>8. History!IsLoading' BY <1>2, <1>4 DEF History!IsLoading
<1>9. LastLoadCounts' BY <1>1, <1>2, <1>4, <1>8 DEF LastLoadCounts
<1>10. NothingIsMissed' BY <1>1 DEF NothingIsMissed
<1>11. IdsAreOfTheDialog' BY <1>1, <1>3 DEF IdsAreOfTheDialog
<1> QED BY <1>6, <1>7, <1>9, <1>10, <1>11 DEF HistoryIInv

(* The loads of the order. *)
LEMMA OrderLoads ==
  ASSUME HistoryIInv, hisRoute # "list",
           \E l \in hisLoads : History!ReadOrder(l) \/ History!OrderLoaded(l) \/ History!LoadFailed(l)
  PROVE  HistoryIInv'
<1>1. UNCHANGED <<hisRoute, History!listed, History!voiding, voids, hisMoves>> BY DEF History!ReadOrder,
     History!OrderLoaded, History!LoadFailed
<1> USE <1>1 DEF History!voiding, History!listed
<1>2. IdsAreOfTheDialog' BY IdsStay DEF HistoryIInv, HistoryTypes
<1>3. History!ChangesAreKept' BY DEF HistoryIInv, History!ChangesAreKept
<1>4. ASSUME NEW l \in hisLoads, History!ReadOrder(l) PROVE HistoryIInv'
  <2> DEFINE stored == voids[l.of] # {}
  <2>1. ~l.read /\ UNCHANGED <<hisFailed, shown>> BY <1>4 DEF History!ReadOrder
  <2>2. DOMAIN l = {"of", "active", "read", "void"} /\ l.of \in Order BY DEF HistoryIInv, HistoryTypes
  <2> HIDE DEF stored
  <2> DEFINE k == [l EXCEPT !.read = TRUE, !.void = stored]
  <2>3. DOMAIN k = {"of", "active", "read", "void"} /\ k.of = l.of /\ k.active = l.active /\ k.void = stored BY <2>2
  <2>4. hisLoads' = (hisLoads \ {l}) \cup {k} BY <1>4 DEF History!ReadOrder, stored
  <2> HIDE DEF k
  <2>5. HistoryTypes' BY <2>1, <2>2, <2>3, <2>4 DEF HistoryIInv, HistoryTypes, stored
  <2>6. History!IsLoading' <=> History!IsLoading BY <2>3, <2>4 DEF History!IsLoading
  <2>7. LastLoadCounts' BY <2>1, <2>3, <2>4, <2>6 DEF HistoryIInv, LastLoadCounts
  <2>8. NothingIsMissed' BY <2>1, <2>3, <2>4, <2>6 DEF HistoryIInv, NothingIsMissed, stored
  <2> QED BY <1>2, <1>3, <2>5, <2>7, <2>8 DEF HistoryIInv
<1>5. ASSUME NEW l \in hisLoads, History!OrderLoaded(l) PROVE HistoryIInv'
  <2>1. l.read /\ hisLoads' = hisLoads \ {l} /\ hisFailed' = hisFailed BY <1>5 DEF History!OrderLoaded
  <2>2. l.of \in Order /\ (l.void => voids[l.of] # {}) BY DEF HistoryIInv, HistoryTypes
  <2>3. CASE l.active
    <3> DEFINE o == [id |-> l.of, void |-> l.void]
    <3>1. shown' = {o} BY <1>5, <2>3 DEF History!OrderLoaded, History!IsActive
    <3>2. DOMAIN o = {"id", "void"} /\ o.id = l.of /\ o.void = l.void OBVIOUS
    <3> HIDE DEF o
    <3>3. ~History!IsLoading' /\ l.of = hisRoute BY <2>1, <2>3 DEF HistoryIInv, LastLoadCounts, History!IsLoading
    <3>4. HistoryTypes' BY <2>1, <2>2, <3>1, <3>2 DEF HistoryIInv, HistoryTypes
    <3>5. LastLoadCounts' BY <2>1, <3>1, <3>2, <3>3 DEF HistoryIInv, LastLoadCounts
    <3>6. History!IsLoading BY <2>3 DEF History!IsLoading
    <3>7. NothingIsMissed' BY <2>1, <2>3, <3>1, <3>2, <3>3, <3>6 DEF HistoryIInv, NothingIsMissed
    <3> QED BY <1>2, <1>3, <3>4, <3>5, <3>7 DEF HistoryIInv
  <2>4. CASE ~l.active
    <3>1. shown' = shown BY <1>5, <2>4 DEF History!OrderLoaded, History!IsActive
    <3>2. History!IsLoading' <=> History!IsLoading BY <2>1, <2>4 DEF History!IsLoading
    <3>3. HistoryTypes' BY <2>1, <3>1 DEF HistoryIInv, HistoryTypes
    <3>4. LastLoadCounts' BY <2>1, <3>1, <3>2 DEF HistoryIInv, LastLoadCounts
    <3>5. NothingIsMissed' BY <2>1, <3>1, <3>2 DEF HistoryIInv, NothingIsMissed
    <3> QED BY <1>2, <1>3, <3>3, <3>4, <3>5 DEF HistoryIInv
  <2> QED BY <2>3, <2>4
<1>6. ASSUME NEW l \in hisLoads, History!LoadFailed(l) PROVE HistoryIInv'
  <2>1. hisLoads' = hisLoads \ {l} /\ hisFailed' = (hisFailed \/ l.active) /\ shown' = shown BY <1>6
       DEF History!LoadFailed, History!IsActive
  <2>2. ~l.active => (History!IsLoading' <=> History!IsLoading) BY <2>1 DEF History!IsLoading
  <2>3. HistoryTypes' BY <2>1 DEF HistoryIInv, HistoryTypes
  <2>4. LastLoadCounts' BY <2>1, <2>2 DEF HistoryIInv, LastLoadCounts
  <2>5. NothingIsMissed' BY <2>1, <2>2 DEF HistoryIInv, NothingIsMissed
  <2> QED BY <1>2, <1>3, <2>3, <2>4, <2>5 DEF HistoryIInv
<1> QED BY <1>4, <1>5, <1>6

(* The dialog, and a void that is sent. *)
LEMMA DialogMoves ==
  ASSUME HistoryIInv, hisRoute # "list", History!CloseDialog \/ \E o \in shown : History!OpenDialog(o)
  PROVE  HistoryIInv'
<1>1. /\ UNCHANGED <<hisRoute, History!listed, hisLoads, hisFailed, shown, said, hisVoids, hisTried, hisMissed, voids,
           hisMoves>>
      /\ voidDialog'.id = voidDialog.id /\ DOMAIN voidDialog' = DOMAIN voidDialog
  BY DEF History!CloseDialog, History!OpenDialog, HistoryIInv, HistoryTypes
<1> USE <1>1 DEF History!listed
<1>2. HistoryTypes' BY DEF HistoryIInv, HistoryTypes
<1>3. History!ChangesAreKept' BY DEF HistoryIInv, History!ChangesAreKept
<1>4. LastLoadCounts' BY DEF HistoryIInv, LastLoadCounts, History!IsLoading
<1>5. NothingIsMissed' BY DEF HistoryIInv, NothingIsMissed, History!IsLoading
<1>6. IdsAreOfTheDialog' BY DEF HistoryIInv, IdsAreOfTheDialog
<1> QED BY <1>2, <1>3, <1>4, <1>5, <1>6 DEF HistoryIInv

(* A void is confirmed, with the dialog's id.                              *)
LEMMA VoidSent ==
  ASSUME HistoryIInv, hisRoute # "list", NEW o \in shown, History!ConfirmVoid(o)
  PROVE  HistoryIInv'
<1> DEFINE id == IF voidDialog.id = {} THEN hisMoves' ELSE CHOOSE n \in voidDialog.id : TRUE
<1>1. /\ UNCHANGED <<hisRoute, History!listed, hisLoads, hisFailed, shown, said, voids>> /\ hisMoves' = hisMoves + 1
      /\ hisMoves \in Nat
      /\ hisMissed' = (hisMissed \/ History!IsLoading) /\ DOMAIN o = {"id", "void"} /\ o.id \in Order
  BY DEF History!ConfirmVoid, History!Moved, HistoryIInv, HistoryTypes
<1>2. /\ voidDialog' = [voidDialog EXCEPT !.id = {id}, !.voiding = TRUE, !.error = FALSE]
      /\ hisVoids' = hisVoids \cup {[order |-> o.id, id |-> id, step |-> "sent", here |-> TRUE]}
      /\ hisTried' = hisTried \cup {[order |-> o.id, id |-> id]}
  BY DEF History!ConfirmVoid
<1>3. id \in 1 .. hisMoves' /\ (voidDialog.id = {} => id = hisMoves + 1) /\ (voidDialog.id # {} => voidDialog.id = {id})
  <2>1. CASE voidDialog.id = {} BY <1>1, <2>1
  <2>2. CASE voidDialog.id # {}
    <3>1. id \in voidDialog.id BY <2>2
    <3> HIDE DEF id
    <3> QED BY <1>1, <2>2, <3>1 DEF HistoryIInv, IdsAreOfTheDialog
  <2> QED BY <2>1, <2>2
<1> HIDE DEF id
<1> DEFINE r == [order |-> o.id, id |-> id, step |-> "sent", here |-> TRUE]
           t == [order |-> o.id, id |-> id]
<1>4. /\ DOMAIN r = {"order", "id", "step", "here"} /\ r.order = o.id /\ r.id = id /\ r.step = "sent" /\ r.here = TRUE
      /\ t.id = id
  OBVIOUS
<1>5. hisVoids' = hisVoids \cup {r} /\ hisTried' = hisTried \cup {t} BY <1>2
<1>6. voidDialog'.id = {id} /\ DOMAIN voidDialog' = DOMAIN voidDialog BY <1>2 DEF HistoryIInv, HistoryTypes
<1>7. IdsAreOfTheDialog'
  <2>1. \A u \in hisTried' : voidDialog'.id = {u.id}
    BY <1>3, <1>4, <1>5, <1>6 DEF HistoryIInv, IdsAreOfTheDialog
  <2>2. ASSUME NEW p \in Order, id \in voids[p] PROVE [order |-> p, id |-> id] \in hisTried'
    <3>1. voidDialog.id # {} BY <1>1, <1>3, <2>2 DEF HistoryIInv, HistoryTypes
    <3> QED BY <1>3, <1>5, <2>2, <3>1 DEF HistoryIInv, IdsAreOfTheDialog
  <2>3. ASSUME NEW q \in hisVoids', q.id = id
        PROVE  /\ [order |-> q.order, id |-> id] \in hisTried'
               /\ q.step = "refused" =>
                    \/ voids[q.order] # {} /\ id \notin voids[q.order]
                    \/ \E p \in Order : p # q.order /\ id \in voids[p]
    <3>1. CASE q = r BY <1>4, <1>5, <3>1
    <3>2. CASE q \in hisVoids
      <4>1. voidDialog.id # {} BY <1>1, <1>3, <2>3, <3>2 DEF HistoryIInv, HistoryTypes
      <4> QED BY <1>3, <1>5, <2>3, <3>2, <4>1 DEF HistoryIInv, IdsAreOfTheDialog
    <3> QED BY <1>5, <3>1, <3>2
  <2> QED BY <1>1, <1>3, <1>6, <2>1, <2>2, <2>3 DEF IdsAreOfTheDialog
<1> HIDE DEF r, t
<1>8. HistoryTypes' BY <1>1, <1>3, <1>4, <1>5, <1>6 DEF HistoryIInv, HistoryTypes, History!listed
<1>9. History!ChangesAreKept' BY <1>1 DEF HistoryIInv, History!ChangesAreKept, History!listed
<1>10. History!IsLoading' <=> History!IsLoading BY <1>1 DEF History!IsLoading
<1>11. LastLoadCounts' BY <1>1, <1>10 DEF HistoryIInv, LastLoadCounts, History!listed
<1>12. NothingIsMissed'
  <2> SUFFICES ASSUME ~hisMissed, ~hisFailed, ~History!IsLoading PROVE NothingIsMissed' BY <1>1, <1>10
       DEF NothingIsMissed
  <2>1. o.id = hisRoute BY DEF HistoryIInv, LastLoadCounts
  <2>2. \A q \in hisVoids' : q.here /\ q.order = hisRoute BY <1>4, <1>5, <2>1 DEF HistoryIInv, NothingIsMissed
  <2>3. \A p \in shown : voids[hisRoute] # {} /\ ~p.void => \E q \in hisVoids' : q.step = "done"
    BY <1>5 DEF HistoryIInv, NothingIsMissed
  <2>4. \A l \in hisLoads : ~l.active BY DEF History!IsLoading
  <2> QED BY <1>1, <1>10, <2>2, <2>3, <2>4 DEF NothingIsMissed
<1> QED BY <1>7, <1>8, <1>9, <1>11, <1>12 DEF HistoryIInv

(* The server voids an order once. *)
LEMMA VoidServed ==
  ASSUME HistoryIInv, NEW r \in hisVoids, History!Serve(r)
  PROVE  HistoryIInv'
<1> DEFINE isReplay == r.id \in voids[r.order]
           mayVoid == voids[r.order] = {} /\ \A o \in Order : r.id \notin voids[o]
           answer == IF isReplay \/ mayVoid THEN "done" ELSE "refused"
<1>1. /\ UNCHANGED <<hisRoute, History!listed, hisLoads, hisFailed, shown, voidDialog, said, hisTried, hisMissed,
           hisMoves>>
      /\ r.step = "sent"
      /\ voids' = IF mayVoid THEN [voids EXCEPT ![r.order] = {r.id}] ELSE voids
      /\ hisVoids' = (hisVoids \ {r}) \cup {[r EXCEPT !.step = answer]}
  BY DEF History!Serve
<1>2. DOMAIN r = {"order", "id", "step", "here"} /\ r.order \in Order /\ r.id \in 0 .. hisMoves /\ DOMAIN voids = Order
  BY DEF HistoryIInv, HistoryTypes
<1> HIDE DEF answer
<1> DEFINE q == [r EXCEPT !.step = answer]
<1>3. DOMAIN q = {"order", "id", "step", "here"} /\ q.order = r.order /\ q.id = r.id /\ q.step = answer /\
        q.here = r.here
  BY <1>2
<1> HIDE DEF q
<1>4. hisVoids' = (hisVoids \ {r}) \cup {q} BY <1>1 DEF q
<1>5. /\ DOMAIN voids' = Order
      /\ \A o \in Order : voids'[o] = IF mayVoid /\ o = r.order THEN {r.id} ELSE voids[o]
  BY <1>1, <1>2
<1>6. \A o \in Order : (voids[o] # {} => voids'[o] = voids[o]) /\ (o # r.order => voids'[o] = voids[o])
  BY <1>5
<1>7. answer = "done" => voids'[r.order] # {} BY <1>2, <1>5 DEF answer
<1>8. answer = "refused" => voids' = voids /\ ~isReplay /\ ~mayVoid BY <1>1 DEF answer
<1>9. HistoryTypes'
  <2>1. \A o \in Order : voids'[o] \subseteq 0 .. hisMoves BY <1>2, <1>5 DEF HistoryIInv, HistoryTypes
  <2>2. \A k \in hisVoids' : /\ DOMAIN k = {"order", "id", "step", "here"} /\ k.order \in Order /\ k.id \in 0 .. hisMoves
                             /\ k.step = "done" => voids'[k.order] # {}
    BY <1>2, <1>3, <1>4, <1>6, <1>7 DEF HistoryIInv, HistoryTypes
  <2> QED BY <1>1, <1>5, <1>6, <2>1, <2>2 DEF HistoryIInv, HistoryTypes, History!listed
<1>10. History!ChangesAreKept' BY <1>1 DEF HistoryIInv, History!ChangesAreKept, History!listed
<1>11. History!IsLoading' <=> History!IsLoading BY <1>1 DEF History!IsLoading
<1>12. LastLoadCounts' BY <1>1, <1>11 DEF HistoryIInv, LastLoadCounts, History!listed
<1>13. NothingIsMissed'
  <2> SUFFICES ASSUME hisRoute # "list", ~hisMissed, ~hisFailed PROVE NothingIsMissed' BY <1>1 DEF NothingIsMissed
  <2>1. ~History!IsLoading BY DEF HistoryIInv, NothingIsMissed
  <2>2. \A l \in hisLoads : ~l.active BY <2>1 DEF History!IsLoading
  <2>3. \A k \in hisVoids' : k.here /\ k.order = hisRoute BY <1>3, <1>4, <2>1 DEF HistoryIInv, NothingIsMissed
  <2>4. r.order = hisRoute BY <2>1 DEF HistoryIInv, NothingIsMissed
  <2>5. ASSUME NEW o \in shown, voids'[hisRoute] # {}, ~o.void PROVE \E k \in hisVoids' : k.step = "done"
    <3>1. CASE voids[hisRoute] # {}
      <4>1. PICK k \in hisVoids : k.step = "done" BY <2>1, <2>5, <3>1 DEF HistoryIInv, NothingIsMissed
      <4> QED BY <1>1, <1>4, <4>1
    <3>2. CASE voids[hisRoute] = {}
      <4>1. mayVoid BY <1>2, <1>5, <2>4, <2>5, <3>2
      <4>2. answer = "done" BY <4>1 DEF answer
      <4> QED BY <1>3, <1>4, <4>2
    <3> QED BY <3>1, <3>2
  <2> QED BY <1>1, <1>11, <2>1, <2>2, <2>3, <2>5 DEF NothingIsMissed
<1>14. IdsAreOfTheDialog'
  <2>1. (\A n \in voidDialog'.id : voidDialog'.id = {n} /\ n \in 1 .. hisMoves') /\ \A t \in hisTried' :
          voidDialog'.id = {t.id}
    BY <1>1 DEF HistoryIInv, IdsAreOfTheDialog
  <2>2. ASSUME NEW n \in voidDialog.id, NEW o \in Order, n \in voids'[o] PROVE [order |-> o, id |-> n] \in hisTried
    <3>1. CASE n \in voids[o] BY <3>1 DEF HistoryIInv, IdsAreOfTheDialog
    <3>2. CASE n \notin voids[o]
      <4>1. o = r.order /\ n = r.id BY <1>5, <2>2, <3>2
      <4> QED BY <4>1 DEF HistoryIInv, IdsAreOfTheDialog
    <3> QED BY <3>1, <3>2
  <2>3. ASSUME NEW n \in voidDialog.id, NEW k \in hisVoids', k.id = n
        PROVE  /\ [order |-> k.order, id |-> n] \in hisTried
               /\ k.step = "refused" =>
                    \/ voids'[k.order] # {} /\ n \notin voids'[k.order]
                    \/ \E o \in Order : o # k.order /\ n \in voids'[o]
    <3>1. CASE k = q
      <4>1. [order |-> k.order, id |-> n] \in hisTried BY <1>3, <2>3, <3>1 DEF HistoryIInv, IdsAreOfTheDialog
      <4>2. k.step = "refused" => \/ voids[r.order] # {} /\ n \notin voids[r.order]
                                  \/ \E o \in Order : o # r.order /\ n \in voids[o]
        BY <1>3, <1>8, <2>3, <3>1
      <4> QED BY <1>3, <1>8, <3>1, <4>1, <4>2
    <3>2. CASE k \in hisVoids
      <4>1. /\ [order |-> k.order, id |-> n] \in hisTried
            /\ k.step = "refused" =>
                 \/ voids[k.order] # {} /\ n \notin voids[k.order]
                 \/ \E o \in Order : o # k.order /\ n \in voids[o]
        BY <2>3, <3>2 DEF HistoryIInv, IdsAreOfTheDialog
      <4>2. k.order \in Order BY <3>2 DEF HistoryIInv, HistoryTypes
      <4> QED BY <1>6, <4>1, <4>2
    <3> QED BY <1>4, <3>1, <3>2
  <2> QED BY <1>1, <2>1, <2>2, <2>3 DEF IdsAreOfTheDialog
<1> QED BY <1>9, <1>10, <1>12, <1>13, <1>14 DEF HistoryIInv

(* The answer to a void. *)
LEMMA VoidAnswered ==
  ASSUME HistoryIInv, NEW r \in hisVoids, History!Voided(r) \/ History!VoidFailed(r)
  PROVE  HistoryIInv'
<1>1. UNCHANGED <<hisRoute, History!listed, hisLoads, hisFailed, hisTried, voids, hisMoves>> /\
        hisVoids' = hisVoids \ {r}
  BY DEF History!Voided, History!VoidFailed
<1>3. voidDialog'.id = voidDialog.id /\ DOMAIN voidDialog' = DOMAIN voidDialog
  BY DEF History!Voided, History!VoidFailed, HistoryIInv, HistoryTypes
<1>4. /\ DOMAIN r = {"order", "id", "step", "here"} /\ r.order \in Order
      /\ r.step = "done" => voids[r.order] # {}
  BY DEF HistoryIInv, HistoryTypes
<1>5. IdsAreOfTheDialog' BY <1>1, <1>3 DEF HistoryIInv, IdsAreOfTheDialog
<1>6. History!ChangesAreKept' BY <1>1 DEF HistoryIInv, History!ChangesAreKept, History!listed
<1>7. History!IsLoading' <=> History!IsLoading BY <1>1 DEF History!IsLoading
<1>8. CASE History!Voided(r) /\ r.here
  <2>1. /\ shown' = {[o EXCEPT !.void = o.void \/ History!IsItsOrder(o, r)] : o \in shown} /\ said' = {r.order}
        /\ hisMissed' = hisMissed /\ r.step = "done"
    BY <1>8 DEF History!Voided
  <2>2. \A o \in shown : DOMAIN o = {"id", "void"} /\ o.id \in Order /\ o.void \in BOOLEAN /\
          (o.void => voids[o.id] # {})
    BY DEF HistoryIInv, HistoryTypes
  <2>3. ASSUME NEW o \in shown, NEW p, p = [o EXCEPT !.void = o.void \/ History!IsItsOrder(o, r)]
        PROVE  /\ DOMAIN p = {"id", "void"} /\ p.id = o.id /\ p.void \in BOOLEAN /\ (p.void => voids[o.id] # {})
               /\ r.order = o.id => p.void
    <3> DEFINE b == o.void \/ History!IsItsOrder(o, r)
    <3>1. p = [o EXCEPT !.void = b] BY <2>3
    <3>2. b \in BOOLEAN /\ (b => voids[o.id] # {}) /\ (r.order = o.id => b) BY <1>4, <2>1, <2>2 DEF History!IsItsOrder
    <3> HIDE DEF b
    <3>3. DOMAIN p = {"id", "void"} /\ p.id = o.id /\ p.void = b BY <2>2, <3>1
    <3> QED BY <3>2, <3>3
  <2>4. \A p \in shown' : \E o \in shown : p = [o EXCEPT !.void = o.void \/ History!IsItsOrder(o, r)] BY <2>1
  <2>5. {p.id : p \in shown'} = {o.id : o \in shown}
    <3>1. \A p \in shown' : \E o \in shown : p.id = o.id BY <2>3, <2>4
    <3>2. ASSUME NEW o \in shown PROVE \E p \in shown' : p.id = o.id
      <4>1. [o EXCEPT !.void = o.void \/ History!IsItsOrder(o, r)] \in shown' BY <2>1
      <4> QED BY <2>3, <4>1
    <3> QED BY <3>1, <3>2
  <2>6. \A p \in shown' : DOMAIN p = {"id", "void"} /\ p.id \in Order /\ p.void \in BOOLEAN /\
          (p.void => voids[p.id] # {})
    <3> SUFFICES ASSUME NEW p \in shown'
                 PROVE DOMAIN p = {"id", "void"} /\ p.id \in Order /\ p.void \in BOOLEAN /\ (p.void => voids[p.id] # {})
      OBVIOUS
    <3>1. PICK o \in shown : p = [o EXCEPT !.void = o.void \/ History!IsItsOrder(o, r)] BY <2>4
    <3> QED BY <2>2, <2>3, <3>1
  <2>7. HistoryTypes' BY <1>1, <1>3, <1>4, <2>1, <2>6 DEF HistoryIInv, HistoryTypes, History!listed
  <2>8. LastLoadCounts' BY <1>1, <1>7, <2>5 DEF HistoryIInv, LastLoadCounts, History!listed
  <2>9. NothingIsMissed'
    <3> SUFFICES ASSUME hisRoute # "list", ~hisMissed, ~hisFailed PROVE NothingIsMissed' BY <1>1, <2>1
         DEF NothingIsMissed
    <3>1. ~History!IsLoading BY DEF HistoryIInv, NothingIsMissed
    <3>2. \A l \in hisLoads : ~l.active BY <3>1 DEF History!IsLoading
    <3>3. r.order = hisRoute BY <3>1 DEF HistoryIInv, NothingIsMissed
    <3>4. ASSUME NEW p \in shown' PROVE p.void
      <4>1. PICK o \in shown : p = [o EXCEPT !.void = o.void \/ History!IsItsOrder(o, r)] BY <2>4
      <4>2. o.id = hisRoute BY <3>1 DEF HistoryIInv, LastLoadCounts
      <4> QED BY <2>3, <3>3, <4>1, <4>2
    <3>5. \A k \in hisVoids' : k.here /\ k.order = hisRoute BY <1>1, <3>1 DEF HistoryIInv, NothingIsMissed
    <3> QED BY <1>1, <1>7, <3>1, <3>2, <3>4, <3>5 DEF NothingIsMissed
  <2> QED BY <1>5, <1>6, <2>7, <2>8, <2>9 DEF HistoryIInv
<1>9. CASE History!VoidFailed(r) \/ ~r.here
  <2>1. shown' = shown /\ said' = said BY <1>9 DEF History!Voided, History!VoidFailed
  <2>2. HistoryTypes' BY <1>1, <1>3, <2>1 DEF HistoryIInv, HistoryTypes, History!listed
  <2>3. LastLoadCounts' BY <1>1, <1>7, <2>1 DEF HistoryIInv, LastLoadCounts, History!listed
  <2>4. NothingIsMissed'
    <3> SUFFICES ASSUME hisRoute # "list", ~hisMissed', ~hisFailed PROVE NothingIsMissed' BY <1>1 DEF NothingIsMissed
    <3>1. ~hisMissed BY DEF History!Voided, History!VoidFailed
    <3>2. ~History!IsLoading BY <3>1 DEF HistoryIInv, NothingIsMissed
    <3>3. \A l \in hisLoads : ~l.active BY <3>2 DEF History!IsLoading
    <3>4. r.here BY <3>1, <3>2 DEF HistoryIInv, NothingIsMissed
    <3>5. r.step # "done" BY <1>9, <3>4 DEF History!VoidFailed
    <3>6. \A k \in hisVoids' : k.here /\ k.order = hisRoute BY <1>1, <3>1, <3>2 DEF HistoryIInv, NothingIsMissed
    <3>7. \A o \in shown : voids[hisRoute] # {} /\ ~o.void => \E k \in hisVoids' : k.step = "done"
      BY <1>1, <3>1, <3>2, <3>5 DEF HistoryIInv, NothingIsMissed
    <3> QED BY <1>1, <1>7, <2>1, <3>2, <3>3, <3>6, <3>7 DEF NothingIsMissed
  <2> QED BY <1>5, <1>6, <2>2, <2>3, <2>4 DEF HistoryIInv
<1> QED BY <1>8, <1>9

(* Somebody else voids an order.                                           *)
LEMMA VoidedElsewhere ==
  ASSUME HistoryIInv, hisRoute # "list", NEW o \in Order, History!Elsewhere(o)
  PROVE  HistoryIInv'
<1>1. /\ UNCHANGED <<hisRoute, History!listed, hisLoads, hisFailed, shown, voidDialog, said, hisVoids, hisTried>>
      /\ hisMissed' = TRUE
      /\ hisMoves' = hisMoves + 1 /\ hisMoves \in Nat /\ voids[o] = {} /\ voids' = [voids EXCEPT ![o] = {0}]
  BY DEF History!Elsewhere, History!Moved, HistoryIInv, HistoryTypes
<1>2. DOMAIN voids' = Order /\ \A p \in Order : voids'[p] = IF p = o THEN {0} ELSE voids[p]
  BY <1>1 DEF HistoryIInv, HistoryTypes
<1>3. \A p \in Order : voids[p] # {} => voids'[p] = voids[p] BY <1>1, <1>2
<1>4. HistoryTypes'
  <2>1. \A p \in Order : voids'[p] \subseteq 0 .. hisMoves' BY <1>1, <1>2 DEF HistoryIInv, HistoryTypes
  <2>2. \A r \in hisVoids : r.id \in 0 .. hisMoves' BY <1>1 DEF HistoryIInv, HistoryTypes
  <2> QED BY <1>1, <1>2, <1>3, <2>1, <2>2 DEF HistoryIInv, HistoryTypes, History!listed
<1>5. History!ChangesAreKept' BY <1>1 DEF HistoryIInv, History!ChangesAreKept, History!listed
<1>6. LastLoadCounts' BY <1>1 DEF HistoryIInv, LastLoadCounts, History!IsLoading, History!listed
<1>7. NothingIsMissed' BY <1>1 DEF NothingIsMissed
<1>8. IdsAreOfTheDialog'
  <2>1. \A n \in voidDialog.id : n \in 1 .. hisMoves' /\ n # 0 BY <1>1 DEF HistoryIInv, IdsAreOfTheDialog
  <2>2. \A n \in voidDialog.id : \A p \in Order : n \in voids'[p] => n \in voids[p] BY <1>2, <2>1
  <2>3. ASSUME NEW n \in voidDialog.id, NEW r \in hisVoids, r.id = n, r.step = "refused"
        PROVE  \/ voids'[r.order] # {} /\ n \notin voids'[r.order]
               \/ \E p \in Order : p # r.order /\ n \in voids'[p]
    <3>1. \/ voids[r.order] # {} /\ n \notin voids[r.order]
          \/ \E p \in Order : p # r.order /\ n \in voids[p]
      BY <2>3 DEF HistoryIInv, IdsAreOfTheDialog
    <3>2. r.order \in Order BY DEF HistoryIInv, HistoryTypes
    <3> QED BY <1>3, <3>1, <3>2
  <2> QED BY <1>1, <2>1, <2>2, <2>3 DEF HistoryIInv, IdsAreOfTheDialog
<1> QED BY <1>4, <1>5, <1>6, <1>7, <1>8 DEF HistoryIInv

(* The invariant of the order history.                                     *)
THEOREM HistoryInvariant == History!Spec => []HistoryIInv
<1>1. HistoryIInv /\ [History!Next]_(History!vars) => HistoryIInv'
  <2> SUFFICES ASSUME HistoryIInv, [History!Next]_(History!vars) PROVE HistoryIInv' OBVIOUS
  <2>1. CASE UNCHANGED History!vars
    BY <2>1 DEF History!vars, History!listed, History!voiding, HistoryIInv, HistoryTypes, History!ChangesAreKept,
         LastLoadCounts, History!IsLoading,
       NothingIsMissed, IdsAreOfTheDialog
  <2>2. CASE hisRoute = "list" /\ \/ \E s \in Status : History!UpdateStatus(s)
                                  \/ \E n \in Size : History!UpdateSize(n)
                                  \/ \E sort \in {"businessDay", "total"} : History!SortBy(sort)
                                  \/ \E n \in 1 .. 2 : History!SetPage(n)
    BY <2>2, ListChanges
  <2>3. CASE hisRoute = "list" /\ (History!Render \/ \E l \in hisLoads : History!Loaded(l) \/ History!LoadFailed(l))
               BY <2>3, ListLoads
  <2>4. CASE \E o \in Order : History!Visit(o) BY <2>4, OrderOpened
  <2>5. CASE History!Back BY <2>5, BackToTheList
  <2>6. CASE hisRoute # "list" /\ \E l \in hisLoads : History!ReadOrder(l) \/ History!OrderLoaded(l) \/
               History!LoadFailed(l) BY <2>6, OrderLoads
  <2>7. CASE hisRoute # "list" /\ (History!CloseDialog \/ \E o \in shown : History!OpenDialog(o)) BY <2>7, DialogMoves
  <2>8. CASE hisRoute # "list" /\ \E o \in shown : History!ConfirmVoid(o) BY <2>8, VoidSent
  <2>9. CASE hisRoute # "list" /\ \E o \in Order : History!Elsewhere(o) BY <2>9, VoidedElsewhere
  <2>10. CASE \E r \in hisVoids : History!Serve(r) \/ History!Voided(r) \/ History!VoidFailed(r) BY <2>10, VoidServed,
       VoidAnswered
  <2> QED BY <2>1, <2>2, <2>3, <2>4, <2>5, <2>6, <2>7, <2>8, <2>9, <2>10 DEF History!Next
<1> QED BY <1>1, HistoryStarts, PTL DEF History!Spec

(* The invariant gives the properties of the order history.                *)
THEOREM HistoryHolds == History!Spec => []History!HistoryPagesInv
<1>1. HistoryIInv => History!HistoryPagesInv
  <2> SUFFICES ASSUME HistoryIInv PROVE History!HistoryPagesInv OBVIOUS
  <2>1. History!ShowsWhatWasAskedFor BY DEF HistoryIInv, LastLoadCounts, History!ShowsWhatWasAskedFor
  <2>2. History!VoidsShownAreStored
    <3>1. \A o \in said : voids[o] # {} BY DEF HistoryIInv, HistoryTypes
    <3>2. \A o \in shown : o.void \in BOOLEAN /\ (o.void => voids[o.id] # {}) BY DEF HistoryIInv, HistoryTypes
    <3>3. ASSUME NEW o \in shown, o.id = hisRoute, ~History!IsLoading, ~hisFailed, hisVoids = {}, ~hisMissed
          PROVE  o.void = (voids[o.id] # {})
      <4>1. hisRoute # "list" BY <3>3, OrderAssumption DEF HistoryIInv, HistoryTypes
      <4>2. voids[hisRoute] # {} => o.void BY <3>3, <4>1 DEF HistoryIInv, NothingIsMissed
      <4> QED BY <3>2, <3>3, <4>2
    <3> QED BY <3>1, <3>2, <3>3 DEF History!VoidsShownAreStored
  <2>3. History!RefusedForOthersOnly
    <3> SUFFICES ASSUME NEW r \in hisVoids, r.step = "refused", [order |-> r.order, id |-> r.id] \in hisTried,
                        \A t \in hisTried : t.order = hisRoute
                 PROVE  /\ voids[r.order] # {}
                        /\ [order |-> r.order, id |-> CHOOSE n \in voids[r.order] : TRUE] \notin hisTried
      BY DEF History!RefusedForOthersOnly
    <3>1. voidDialog.id = {r.id} /\ r.order = hisRoute /\ r.order \in Order
      <4> DEFINE t == [order |-> r.order, id |-> r.id]
      <4>1. t.order = r.order /\ t.id = r.id /\ t \in hisTried OBVIOUS
      <4> HIDE DEF t
      <4> QED BY <4>1 DEF HistoryIInv, IdsAreOfTheDialog, HistoryTypes
    <3>2. \/ voids[r.order] # {} /\ r.id \notin voids[r.order]
          \/ \E o \in Order : o # r.order /\ r.id \in voids[o]
      BY <3>1 DEF HistoryIInv, IdsAreOfTheDialog
    <3>3. ASSUME NEW o \in Order, r.id \in voids[o] PROVE o = r.order
      <4> DEFINE t == [order |-> o, id |-> r.id]
      <4>1. t \in hisTried BY <3>1, <3>3 DEF HistoryIInv, IdsAreOfTheDialog
      <4>2. t.order = o OBVIOUS
      <4> HIDE DEF t
      <4> QED BY <3>1, <4>1, <4>2
    <3>4. voids[r.order] # {} /\ r.id \notin voids[r.order] BY <3>2, <3>3
    <3> DEFINE v == CHOOSE n \in voids[r.order] : TRUE
    <3>5. v \in voids[r.order] BY <3>4
    <3> HIDE DEF v
    <3>6. [order |-> r.order, id |-> v] \notin hisTried
      <4> SUFFICES ASSUME [order |-> r.order, id |-> v] \in hisTried PROVE FALSE OBVIOUS
      <4> DEFINE t == [order |-> r.order, id |-> v]
      <4>1. t \in hisTried /\ t.id = v OBVIOUS
      <4> HIDE DEF t
      <4>2. v = r.id BY <3>1, <4>1 DEF HistoryIInv, IdsAreOfTheDialog
      <4> QED BY <3>4, <3>5, <4>2
    <3> QED BY <3>4, <3>6 DEF v
  <2> QED BY <2>1, <2>2, <2>3 DEF History!HistoryPagesInv, HistoryIInv
<1> QED BY <1>1, HistoryInvariant, PTL
-----------------------------------------------------------------------------
(* StaffHistory: the staff's ledger of the days' orders.                   *)


LedgerRow == [status : {"Void", "Completed"}, settled : BOOLEAN]

(* Rows say of no order what is not stored. *)
RowsOfStored(rows) ==
  /\ DOMAIN rows \subseteq Date
  /\ \A d \in DOMAIN rows : /\ rows[d] \in LedgerRow
                            /\ rows[d].settled => ledgerOrders[d].settled
                            /\ rows[d].status = "Void" => ledgerOrders[d].void # {}

(* What is stored, and the days and the address. *)
ShopTypes ==
  /\ DOMAIN ledgerOrders = Date /\ openDay \subseteq Date /\ ledgerDays \subseteq Date \cup {0} /\ \A x,
       y \in ledgerDays : x = y
  /\ \A d \in Date :
       DOMAIN ledgerOrders[d] = {"void", "settled"} /\ ledgerOrders[d].settled \in BOOLEAN /\ \A m,
         n \in ledgerOrders[d].void : m = n
  /\ \A a \in {ledgerUrl, ledgerRendered, asked} : DOMAIN a = {"day", "status"} /\ a.day \in Date \cup {0}

(* The load that counts is the last one, and is what is waited for. *)
LastLedgerCounts ==
  /\ \A k, l \in ledgerLoads : k.active /\ l.active => k = l
  /\ \A l \in ledgerLoads :
       /\ DOMAIN l = {"key", "active", "read", "rows"} /\ l.key[1] \in Date
       /\ l.active => l.key = ledgerKey
       /\ l.read => RowsOfStored(l.rows)
  /\ \A l \in ledger : DOMAIN l = {"key", "rows"} /\ l.key = ledgerKey /\ RowsOfStored(l.rows)
  /\ StaffLedger!IsLoading => ledger = {}
  /\ StaffLedger!LedgerIsCurrent

(* What is sent, and the one id by which the void of an order goes. *)
WritesAreKnown ==
  /\ DOMAIN voidIds = Date /\ \A t \in ledgerTried : t.order \in Date /\ voidIds[t.order] = {t.id}
  /\ target \subseteq Date
  /\ \A r \in writes :
       /\ DOMAIN r = {"op", "order", "id", "step"} /\ r.op \in {"settle", "void"} /\ r.order \in Date
       /\ r.op = "void" => [order |-> r.order, id |-> r.id] \in ledgerTried
       /\ r.step = "done" => IF r.op = "settle" THEN ledgerOrders[r.order].settled ELSE ledgerOrders[r.order].void # {}
       /\ r.step = "refused" =>
            r.op = "void" /\ r.id \notin ledgerOrders[r.order].void /\
              (r.order \in openDay => ledgerOrders[r.order].void # {})

(* What the ledger cannot have missed is on its way to it. *)
NoWriteIsMissed ==
  ~ledgerMissed =>
    /\ StaffLedger!IsLoading => writes = {}
    /\ \A l \in ledgerLoads : l.active /\ l.read =>
         \A d \in DOMAIN l.rows : l.rows[d].status = StaffLedger!StatusOf(d) /\
           l.rows[d].settled = ledgerOrders[d].settled
    /\ ~StaffLedger!IsLoading => \A l \in ledger : \A d \in DOMAIN l.rows :
         /\ l.rows[d].status = StaffLedger!StatusOf(d) \/ \E r \in writes : r.op = "void" /\ r.order = d /\
              r.step = "done"
         /\ l.rows[d].settled = ledgerOrders[d].settled \/ \E r \in writes : r.op = "settle" /\ r.order = d /\
              r.step = "done"

LedgerIInv == ShopTypes /\ LastLedgerCounts /\ WritesAreKnown /\ NoWriteIsMissed

(* The last business day is one of the dates, which are numbered from one. *)
LEMMA LastIsADay == StaffLedger!Last \in Date /\ 0 \notin Date
<1>1. PICK n \in Date : n \in Nat /\ Date = 1 .. n BY DateAssumption
<1>2. \A e \in Date : e <= n BY <1>1
<1> QED BY <1>1, <1>2 DEF StaffLedger!Last

(* The day a link leads to is one of the list's. *)
LEMMA ChosenDay ==
  ASSUME NEW S, S \subseteq Date \cup {0}, S # {}, \A x, y \in S : x = y
  PROVE  (CHOOSE d \in Date : \E o \in S : d = StaffLedger!DefaultDay(o)) \in Date
<1>1. PICK o \in S : TRUE OBVIOUS
<1>2. StaffLedger!DefaultDay(o) \in Date BY LastIsADay DEF StaffLedger!DefaultDay
<1> QED BY <1>1, <1>2

(* The staff's ledger as it is first opened.                               *)
LEMMA LedgerStarts == StaffLedger!Init => LedgerIInv
<1> SUFFICES ASSUME StaffLedger!Init PROVE LedgerIInv OBVIOUS
<1> USE DEF StaffLedger!Init
<1>1. ShopTypes
  <2>1. \A d \in Date : DOMAIN ledgerOrders[d] = {"void", "settled"} /\ ledgerOrders[d].settled = FALSE /\
          ledgerOrders[d].void = {} OBVIOUS
  <2>2. openDay \subseteq Date /\ ledgerDays = {} BY LastIsADay
  <2>3. DOMAIN StaffLedger!NoDay = {"day", "status"} /\ StaffLedger!NoDay.day = 0 BY DEF StaffLedger!NoDay
  <2> QED BY <2>1, <2>2, <2>3 DEF ShopTypes
<1>2. LastLedgerCounts BY DEF LastLedgerCounts, StaffLedger!LedgerIsCurrent
<1>3. WritesAreKnown BY DEF WritesAreKnown
<1>4. NoWriteIsMissed BY DEF NoWriteIsMissed
<1> QED BY <1>1, <1>2, <1>3, <1>4 DEF LedgerIInv

(* What is read of the address. *)
LEMMA AddressChanges ==
  ASSUME LedgerIInv,
         \/ StaffLedger!DaysLoaded \/ StaffLedger!DaysFailed \/ StaffLedger!RetryDays
         \/ \E d \in Date : StaffLedger!SelectDay(d)
         \/ \E s \in Status : StaffLedger!SelectStatus(s)
  PROVE  LedgerIInv'
<1>1. UNCHANGED <<StaffLedger!shop, ledgerRendered, StaffLedger!shown, StaffLedger!dialog, StaffLedger!sent,
        ledgerMissed>>
  BY DEF StaffLedger!DaysLoaded, StaffLedger!DaysFailed, StaffLedger!RetryDays, StaffLedger!SelectDay,
       StaffLedger!SelectStatus, StaffLedger!UpdateParams
<1> USE <1>1 DEF StaffLedger!shop, StaffLedger!shown, StaffLedger!dialog, StaffLedger!sent
<1>2. LastLedgerCounts' BY DEF LedgerIInv, LastLedgerCounts, StaffLedger!LedgerIsCurrent, RowsOfStored,
     StaffLedger!IsLoading
<1>3. WritesAreKnown' BY DEF LedgerIInv, WritesAreKnown
<1>4. NoWriteIsMissed' BY DEF LedgerIInv, NoWriteIsMissed, StaffLedger!StatusOf, StaffLedger!IsLoading
<1>5. ShopTypes'
  <2> SUFFICES /\ ledgerDays' \subseteq Date \cup {0} /\ \A x, y \in ledgerDays' : x = y
               /\ \A a \in {ledgerUrl', asked'} : DOMAIN a = {"day", "status"} /\ a.day \in Date \cup {0}
    BY DEF LedgerIInv, ShopTypes
  <2> USE DEF LedgerIInv, ShopTypes
  <2>1. CASE StaffLedger!DaysLoaded
    <3> DEFINE o == IF openDay = {} THEN 0 ELSE CHOOSE d \in openDay : TRUE
    <3>1. o \in Date \cup {0} OBVIOUS
    <3>2. ledgerDays' = {o} /\ asked' = asked BY <2>1 DEF StaffLedger!DaysLoaded
    <3> HIDE DEF o
    <3> DEFINE d == CHOOSE d \in Date : \E x \in ledgerDays' : d = StaffLedger!DefaultDay(x)
    <3>5. ledgerDays' \subseteq Date \cup {0} /\ ledgerDays' # {} /\ \A x, y \in ledgerDays' : x = y BY <3>1, <3>2
    <3>3. d \in Date
      <4> HIDE DEF d
      <4> DEFINE S == ledgerDays'
      <4>1. S \subseteq Date \cup {0} /\ S # {} /\ \A x, y \in S : x = y BY <3>5
      <4> HIDE DEF S
      <4>2. (CHOOSE e \in Date : \E x \in S : e = StaffLedger!DefaultDay(x)) \in Date BY <4>1, ChosenDay
      <4> QED BY <4>2 DEF d, S
    <3>4. ledgerUrl' = IF asked.day = 0 THEN [asked EXCEPT !.day = d] ELSE ledgerUrl BY <2>1
         DEF StaffLedger!DaysLoaded
    <3> HIDE DEF d
    <3> QED BY <3>1, <3>2, <3>3, <3>4
  <2>2. CASE StaffLedger!DaysFailed BY <2>2 DEF StaffLedger!DaysFailed
  <2>3. CASE StaffLedger!RetryDays BY <2>3 DEF StaffLedger!RetryDays
  <2>4. ASSUME NEW d \in Date, StaffLedger!SelectDay(d) PROVE ShopTypes'
    BY <2>4 DEF StaffLedger!SelectDay, StaffLedger!UpdateParams
  <2>5. ASSUME NEW s \in Status, StaffLedger!SelectStatus(s) PROVE ShopTypes'
    BY <2>5 DEF StaffLedger!SelectStatus, StaffLedger!UpdateParams
  <2> QED BY <2>1, <2>2, <2>3, <2>4, <2>5
<1> QED BY <1>2, <1>3, <1>4, <1>5 DEF LedgerIInv

(* Another ledger is asked for. *)
LEMMA LedgerAsked ==
  ASSUME LedgerIInv, StaffLedger!Render
  PROVE  LedgerIInv'
<1>1. UNCHANGED <<StaffLedger!shop, ledgerUrl, ledgerDays, asked, StaffLedger!dialog, StaffLedger!sent>> /\
        ledgerRendered' = ledgerUrl /\ ledgerKey' = StaffLedger!KeyOf(ledgerUrl) BY DEF StaffLedger!Render
<1> USE <1>1 DEF StaffLedger!shop, StaffLedger!dialog, StaffLedger!sent
<1>2. ShopTypes' BY DEF LedgerIInv, ShopTypes
<1>3. WritesAreKnown' BY DEF LedgerIInv, WritesAreKnown
<1>4. CASE ledgerKey' = ledgerKey
  <2>1. UNCHANGED <<ledger, ledgerLoads, ledgerFailed, ledgerMissed>> BY <1>4 DEF StaffLedger!Render
  <2>2. LastLedgerCounts' BY <1>4, <2>1 DEF LedgerIInv, LastLedgerCounts, StaffLedger!LedgerIsCurrent, RowsOfStored,
       StaffLedger!IsLoading
  <2>3. NoWriteIsMissed' BY <2>1 DEF LedgerIInv, NoWriteIsMissed, StaffLedger!StatusOf, StaffLedger!IsLoading
  <2> QED BY <1>2, <1>3, <2>2, <2>3 DEF LedgerIInv
<1>5. CASE ledgerKey' # ledgerKey
  <2> DEFINE new == [key |-> ledgerKey', active |-> TRUE, read |-> FALSE, rows |-> <<>>]
  <2>1. /\ ledger' = {} /\ ledgerFailed' = FALSE /\ ledgerMissed' = (writes # {})
        /\ ledgerLoads' = {[l EXCEPT !.active = FALSE] : l \in ledgerLoads} \cup {new : d \in {ledgerKey'[1]} \ {0}}
    BY <1>5 DEF StaffLedger!Render
  <2>2. ledgerKey'[1] \in Date \cup {0}
    <3>1. ledgerKey'[1] = StaffLedger!Selected(ledgerUrl) BY DEF StaffLedger!KeyOf
    <3>2. StaffLedger!Selected(ledgerUrl) \in Date \cup {0} BY ChosenDay DEF StaffLedger!Selected, LedgerIInv,
         ShopTypes
    <3> QED BY <3>1, <3>2
  <2>3. DOMAIN new = {"key", "active", "read", "rows"} /\ new.active = TRUE /\ new.read = FALSE /\
          new.key = ledgerKey' OBVIOUS
  <2>4. ASSUME NEW l \in ledgerLoads, NEW k, k = [l EXCEPT !.active = FALSE]
        PROVE  /\ DOMAIN k = {"key", "active", "read", "rows"} /\ k.key[1] \in Date /\ k.active = FALSE
               /\ k.read => RowsOfStored(k.rows)
    <3>1. DOMAIN l = {"key", "active", "read", "rows"} /\ l.key[1] \in Date /\ (l.read => RowsOfStored(l.rows))
      BY DEF LedgerIInv, LastLedgerCounts
    <3>2. DOMAIN k = DOMAIN l /\ k.key = l.key /\ k.active = FALSE /\ k.read = l.read /\ k.rows = l.rows BY <2>4, <3>1
    <3> QED BY <3>1, <3>2
  <2> HIDE DEF new
  <2>5. \A k \in ledgerLoads' : (k = new /\ ledgerKey'[1] \in Date) \/ \E l \in ledgerLoads :
          k = [l EXCEPT !.active = FALSE]
    BY <2>1, <2>2
  <2>6. \A k \in ledgerLoads' :
          /\ DOMAIN k = {"key", "active", "read", "rows"} /\ k.key[1] \in Date /\ (k.active => k = new)
          /\ k.read => RowsOfStored(k.rows)
    BY <2>3, <2>4, <2>5
  <2>7. \A rows : RowsOfStored(rows) => RowsOfStored(rows)' BY DEF RowsOfStored
  <2>8. StaffLedger!LedgerIsCurrent'
    <3> SUFFICES ASSUME ledgerKey'[1] # 0 PROVE StaffLedger!IsLoading' BY DEF StaffLedger!LedgerIsCurrent
    <3>1. new \in ledgerLoads' BY <2>1
    <3> QED BY <2>3, <3>1 DEF StaffLedger!IsLoading
  <2>9. LastLedgerCounts' BY <2>1, <2>3, <2>6, <2>7, <2>8 DEF LastLedgerCounts
  <2>10. NoWriteIsMissed'
    <3>1. \A k \in ledgerLoads' : ~(k.active /\ k.read) BY <2>3, <2>6
    <3> QED BY <2>1, <3>1 DEF NoWriteIsMissed
  <2> QED BY <1>2, <1>3, <2>9, <2>10 DEF LedgerIInv
<1> QED BY <1>4, <1>5

(* The loads of ledgers. *)
LEMMA LedgerLoads ==
  ASSUME LedgerIInv,
           StaffLedger!RetryLedger \/ \E l \in ledgerLoads : StaffLedger!ReadLedger(l) \/ StaffLedger!LedgerLoaded(l) \/
             StaffLedger!LedgerFailed(l)
  PROVE  LedgerIInv'
<1>1. UNCHANGED <<StaffLedger!shop, StaffLedger!address, ledgerKey, StaffLedger!dialog, StaffLedger!sent, ledgerMissed>>
  BY DEF StaffLedger!RetryLedger, StaffLedger!ReadLedger, StaffLedger!LedgerLoaded, StaffLedger!LedgerFailed
<1> USE <1>1 DEF StaffLedger!shop, StaffLedger!address, StaffLedger!dialog, StaffLedger!sent
<1>2. ShopTypes' BY DEF LedgerIInv, ShopTypes
<1>3. WritesAreKnown' BY DEF LedgerIInv, WritesAreKnown
<1>4. \A rows : RowsOfStored(rows) => RowsOfStored(rows)' BY DEF RowsOfStored
<1>5. CASE StaffLedger!RetryLedger
  <2>1. UNCHANGED <<ledger, ledgerLoads, ledgerFailed>> BY <1>5 DEF StaffLedger!RetryLedger
  <2>2. LastLedgerCounts' BY <1>4, <2>1 DEF LedgerIInv, LastLedgerCounts, StaffLedger!LedgerIsCurrent,
       StaffLedger!IsLoading
  <2>3. NoWriteIsMissed' BY <2>1 DEF LedgerIInv, NoWriteIsMissed, StaffLedger!StatusOf, StaffLedger!IsLoading
  <2> QED BY <1>2, <1>3, <2>2, <2>3 DEF LedgerIInv
<1>6. ASSUME NEW l \in ledgerLoads, StaffLedger!ReadLedger(l) PROVE LedgerIInv'
  <2> DEFINE matching == {d \in {l.key[1]} : l.key[2] \in {"", StaffLedger!StatusOf(d)}}
             stored == [d \in matching |-> [status |-> StaffLedger!StatusOf(d), settled |-> ledgerOrders[d].settled]]
  <2>1. ~l.read /\ UNCHANGED <<ledger, ledgerFailed>> BY <1>6 DEF StaffLedger!ReadLedger
  <2>2. ledgerLoads' = (ledgerLoads \ {l}) \cup {[l EXCEPT !.read = TRUE, !.rows = stored]} BY <1>6
       DEF StaffLedger!ReadLedger
  <2>3. /\ DOMAIN stored \subseteq Date
        /\ \A d \in DOMAIN stored : stored[d] = [status |-> StaffLedger!StatusOf(d),
             settled |-> ledgerOrders[d].settled]
    BY DEF LedgerIInv, LastLedgerCounts
  <2> HIDE DEF stored
  <2>4. \A d \in DOMAIN stored :
          stored[d] \in LedgerRow /\ stored[d].status = StaffLedger!StatusOf(d) /\
            stored[d].settled = ledgerOrders[d].settled
    BY <2>3 DEF LedgerRow, StaffLedger!StatusOf, LedgerIInv, ShopTypes
  <2>5. RowsOfStored(stored) BY <2>3, <2>4 DEF RowsOfStored, StaffLedger!StatusOf
  <2>6. DOMAIN l = {"key", "active", "read", "rows"} /\ l.key[1] \in Date BY DEF LedgerIInv, LastLedgerCounts
  <2> DEFINE k == [l EXCEPT !.read = TRUE, !.rows = stored]
  <2>7. DOMAIN k = DOMAIN l /\ k.key = l.key /\ k.active = l.active /\ k.read = TRUE /\ k.rows = stored BY <2>6
  <2> HIDE DEF k
  <2>8. ledgerLoads' = (ledgerLoads \ {l}) \cup {k} BY <2>2 DEF k
  <2>9. StaffLedger!IsLoading' <=> StaffLedger!IsLoading BY <2>7, <2>8 DEF StaffLedger!IsLoading
  <2>10. StaffLedger!LedgerIsCurrent' BY <2>1, <2>9 DEF LedgerIInv, LastLedgerCounts, StaffLedger!LedgerIsCurrent
  <2>11. LastLedgerCounts' BY <1>4, <2>1, <2>5, <2>6, <2>7, <2>8, <2>9, <2>10 DEF LedgerIInv, LastLedgerCounts
  <2>12. NoWriteIsMissed'
    <3>1. \A d : StaffLedger!StatusOf(d)' = StaffLedger!StatusOf(d) BY DEF StaffLedger!StatusOf
    <3> QED BY <2>1, <2>4, <2>7, <2>8, <2>9, <3>1 DEF LedgerIInv, NoWriteIsMissed
  <2> QED BY <1>2, <1>3, <2>11, <2>12 DEF LedgerIInv
<1>7. ASSUME NEW l \in ledgerLoads, StaffLedger!LedgerLoaded(l) PROVE LedgerIInv'
  <2>1. l.read /\ ledgerLoads' = ledgerLoads \ {l} /\ ledgerFailed' = ledgerFailed BY <1>7
       DEF StaffLedger!LedgerLoaded
  <2>2. \A d : StaffLedger!StatusOf(d)' = StaffLedger!StatusOf(d) BY DEF StaffLedger!StatusOf
  <2>3. CASE l.active
    <3> DEFINE k == [key |-> l.key, rows |-> l.rows]
    <3>1. ledger' = {k} BY <1>7, <2>3 DEF StaffLedger!LedgerLoaded, StaffLedger!IsActive
    <3>2. DOMAIN k = {"key", "rows"} /\ k.key = l.key /\ k.rows = l.rows OBVIOUS
    <3> HIDE DEF k
    <3>3. ~StaffLedger!IsLoading' /\ StaffLedger!IsLoading /\ l.key = ledgerKey /\ RowsOfStored(l.rows)
      BY <2>1, <2>3 DEF LedgerIInv, LastLedgerCounts, StaffLedger!IsLoading
    <3>4. StaffLedger!LedgerIsCurrent' BY <3>1, <3>2, <3>3 DEF StaffLedger!LedgerIsCurrent
    <3>5. LastLedgerCounts'
      <4>1. /\ \A j, m \in ledgerLoads' : j.active /\ m.active => j = m
            /\ \A m \in ledgerLoads' : /\ DOMAIN m = {"key", "active", "read", "rows"} /\ m.key[1] \in Date
                                       /\ m.active => m.key = ledgerKey
                                       /\ m.read => RowsOfStored(m.rows)
        BY <2>1 DEF LedgerIInv, LastLedgerCounts
      <4> QED BY <1>4, <3>1, <3>2, <3>3, <3>4, <4>1 DEF LastLedgerCounts
    <3>6. NoWriteIsMissed' BY <2>1, <2>2, <2>3, <3>1, <3>2, <3>3 DEF LedgerIInv, NoWriteIsMissed
    <3> QED BY <1>2, <1>3, <3>5, <3>6 DEF LedgerIInv
  <2>4. CASE ~l.active
    <3>1. ledger' = ledger BY <1>7, <2>4 DEF StaffLedger!LedgerLoaded, StaffLedger!IsActive
    <3>2. StaffLedger!IsLoading' <=> StaffLedger!IsLoading BY <2>1, <2>4 DEF StaffLedger!IsLoading
    <3>3. LastLedgerCounts' BY <1>4, <2>1, <3>1, <3>2 DEF LedgerIInv, LastLedgerCounts, StaffLedger!LedgerIsCurrent
    <3>4. NoWriteIsMissed' BY <2>1, <2>2, <3>1, <3>2 DEF LedgerIInv, NoWriteIsMissed
    <3> QED BY <1>2, <1>3, <3>3, <3>4 DEF LedgerIInv
  <2> QED BY <2>3, <2>4
<1>8. ASSUME NEW l \in ledgerLoads, StaffLedger!LedgerFailed(l) PROVE LedgerIInv'
  <2>1. ledgerLoads' = ledgerLoads \ {l} /\ ledgerFailed' = (ledgerFailed \/ l.active) /\ ledger' = ledger BY <1>8
       DEF StaffLedger!LedgerFailed, StaffLedger!IsActive
  <2>2. \A d : StaffLedger!StatusOf(d)' = StaffLedger!StatusOf(d) BY DEF StaffLedger!StatusOf
  <2>3. ~l.active => (StaffLedger!IsLoading' <=> StaffLedger!IsLoading) BY <2>1 DEF StaffLedger!IsLoading
  <2>4. ledger # {} => (StaffLedger!IsLoading' <=> StaffLedger!IsLoading) /\ ~StaffLedger!IsLoading
    BY <2>1, <2>3 DEF LedgerIInv, LastLedgerCounts, StaffLedger!IsLoading
  <2>5. LastLedgerCounts' BY <1>4, <2>1, <2>3, <2>4 DEF LedgerIInv, LastLedgerCounts, StaffLedger!LedgerIsCurrent
  <2>6. NoWriteIsMissed'
    <3>1. StaffLedger!IsLoading' => StaffLedger!IsLoading BY <2>1 DEF StaffLedger!IsLoading
    <3> QED BY <2>1, <2>2, <2>4, <3>1 DEF LedgerIInv, NoWriteIsMissed
  <2> QED BY <1>2, <1>3, <2>5, <2>6 DEF LedgerIInv
<1> QED BY <1>5, <1>6, <1>7, <1>8

(* A write that is sent. *)
LEMMA WriteSent ==
  ASSUME LedgerIInv, NEW r, StaffLedger!Send(r), DOMAIN r = {"op", "order", "id", "step"},
           r.op \in {"settle", "void"}, r.order \in Date,
         r.step = "sent", r.op = "void" => [order |-> r.order, id |-> r.id] \in ledgerTried',
           ledgerTried \subseteq ledgerTried',
         DOMAIN voidIds' = Date, \A t \in ledgerTried' : t.order \in Date /\ voidIds'[t.order] = {t.id}
  PROVE  LedgerIInv'
<1>1. /\ UNCHANGED <<StaffLedger!shop, StaffLedger!address, StaffLedger!shown, target>> /\ writes' = writes \cup {r}
      /\ ledgerMissed' = (ledgerMissed \/ StaffLedger!IsLoading)
  BY DEF StaffLedger!Send
<1> USE <1>1 DEF StaffLedger!shop, StaffLedger!address, StaffLedger!shown
<1>2. ShopTypes' BY DEF LedgerIInv, ShopTypes
<1>3. LastLedgerCounts' BY DEF LedgerIInv, LastLedgerCounts, StaffLedger!LedgerIsCurrent, RowsOfStored,
     StaffLedger!IsLoading
<1>4. WritesAreKnown' BY DEF LedgerIInv, WritesAreKnown
<1>5. NoWriteIsMissed'
  <2>1. (StaffLedger!IsLoading' <=> StaffLedger!IsLoading) /\ \A d : StaffLedger!StatusOf(d)' = StaffLedger!StatusOf(d)
          BY DEF StaffLedger!IsLoading, StaffLedger!StatusOf
  <2>2. ~ledgerMissed' => ~ledgerMissed /\ ~StaffLedger!IsLoading /\ ledger' = ledger /\ ledgerLoads' = ledgerLoads /\
          ledgerOrders' = ledgerOrders OBVIOUS
  <2>3. ~StaffLedger!IsLoading => ~\E l \in ledgerLoads : l.active BY DEF StaffLedger!IsLoading
  <2> QED BY <2>1, <2>2, <2>3 DEF LedgerIInv, NoWriteIsMissed
<1> QED BY <1>2, <1>3, <1>4, <1>5 DEF LedgerIInv

(* An order is handed over, or its void is asked for, confirmed or         *)
(* dropped.                                                                *)
LEMMA DialogOfTheLedger ==
  ASSUME LedgerIInv,
           StaffLedger!CloseVoid \/ (\E d \in StaffLedger!Rows : StaffLedger!ConfirmHandover(d) \/
             StaffLedger!OpenVoid(d)) \/ \E d \in target : StaffLedger!ConfirmVoid(d)
  PROVE  LedgerIInv'
<1>1. StaffLedger!Rows \subseteq Date BY DEF StaffLedger!Rows, LedgerIInv, LastLedgerCounts, RowsOfStored
<1>2. ASSUME UNCHANGED <<StaffLedger!shop, StaffLedger!address, StaffLedger!shown, voidIds, StaffLedger!sent,
               ledgerMissed>>, target' \subseteq Date
      PROVE LedgerIInv'
  <2> USE <1>2 DEF StaffLedger!shop, StaffLedger!address, StaffLedger!shown, StaffLedger!sent
  <2>1. ShopTypes' BY DEF LedgerIInv, ShopTypes
  <2>2. LastLedgerCounts' BY DEF LedgerIInv, LastLedgerCounts, StaffLedger!LedgerIsCurrent, RowsOfStored,
       StaffLedger!IsLoading
  <2>3. WritesAreKnown' BY DEF LedgerIInv, WritesAreKnown
  <2>4. NoWriteIsMissed' BY DEF LedgerIInv, NoWriteIsMissed, StaffLedger!StatusOf, StaffLedger!IsLoading
  <2> QED BY <2>1, <2>2, <2>3, <2>4 DEF LedgerIInv
<1>3. CASE StaffLedger!CloseVoid BY <1>2, <1>3 DEF StaffLedger!CloseVoid
<1>4. ASSUME NEW d \in StaffLedger!Rows, StaffLedger!OpenVoid(d) PROVE LedgerIInv' BY <1>1, <1>2, <1>4
     DEF StaffLedger!OpenVoid
<1>5. ASSUME NEW d \in StaffLedger!Rows, StaffLedger!ConfirmHandover(d) PROVE LedgerIInv'
  <2> DEFINE r == [op |-> "settle", order |-> d, id |-> 0, step |-> "sent"]
  <2>1. StaffLedger!Send(r) /\ UNCHANGED <<voidIds, ledgerTried>> BY <1>5 DEF StaffLedger!ConfirmHandover
  <2>2. DOMAIN r = {"op", "order", "id", "step"} /\ r.op = "settle" /\ r.order \in Date /\ r.step = "sent" BY <1>1
  <2> HIDE DEF r
  <2>3. DOMAIN voidIds' = Date /\ \A t \in ledgerTried' : t.order \in Date /\ voidIds'[t.order] = {t.id}
    BY <2>1 DEF LedgerIInv, WritesAreKnown
  <2> QED BY <2>1, <2>2, <2>3, WriteSent
<1>6. ASSUME NEW d \in target, StaffLedger!ConfirmVoid(d) PROVE LedgerIInv'
  <2> DEFINE i == StaffLedger!VoidId(d)
             r == [op |-> "void", order |-> d, id |-> i, step |-> "sent"]
             t == [order |-> d, id |-> i]
  <2>1. StaffLedger!Send(r) /\ voidIds' = [voidIds EXCEPT ![d] = {i}] /\ ledgerTried' = ledgerTried \cup {t} BY <1>6
       DEF StaffLedger!ConfirmVoid
  <2>2. d \in Date BY DEF LedgerIInv, WritesAreKnown
  <2>3. \A u \in ledgerTried : u.order = d => u.id = i
    <3> SUFFICES ASSUME NEW u \in ledgerTried, u.order = d PROVE u.id = i OBVIOUS
    <3>1. voidIds[d] = {u.id} BY DEF LedgerIInv, WritesAreKnown
    <3>2. i \in voidIds[d] BY <3>1 DEF StaffLedger!VoidId
    <3> QED BY <3>1, <3>2
  <2> HIDE DEF i
  <2>4. /\ DOMAIN r = {"op", "order", "id", "step"} /\ r.op = "void" /\ r.order = d /\ r.id = i /\ r.step = "sent"
        /\ t.order = d /\ t.id = i
    OBVIOUS
  <2>5. DOMAIN voidIds' = Date /\ voidIds'[d] = {i} /\ \A e \in Date : e # d => voidIds'[e] = voidIds[e]
    BY <2>1, <2>2 DEF LedgerIInv, WritesAreKnown
  <2>6. [order |-> r.order, id |-> r.id] \in ledgerTried' BY <2>1, <2>4
  <2> HIDE DEF r, t
  <2>7. \A u \in ledgerTried' : u.order \in Date /\ voidIds'[u.order] = {u.id}
    BY <2>1, <2>2, <2>3, <2>4, <2>5 DEF LedgerIInv, WritesAreKnown
  <2>8. ledgerTried \subseteq ledgerTried' BY <2>1
  <2> QED BY <2>1, <2>2, <2>4, <2>5, <2>6, <2>7, <2>8, WriteSent
<1> QED BY <1>3, <1>4, <1>5, <1>6

(* A write that is served: what is done is stored, and a refused void is   *)
(* not the one that is stored.                                             *)
LEMMA WriteServed ==
  ASSUME LedgerIInv, NEW r \in writes, StaffLedger!Serve(r)
  PROVE  LedgerIInv'
<1> DEFINE old == ledgerOrders[r.order]
           done == r.op = "settle" \/ r.id \in old.void \/ (old.void = {} /\ r.order \in openDay)
           s == [r EXCEPT !.step = IF done THEN "done" ELSE "refused"]
<1>1. /\ UNCHANGED <<openDay, StaffLedger!address, StaffLedger!shown, StaffLedger!dialog, busy, ledgerTried,
           ledgerMissed>>
      /\ r.step = "sent"
      /\ writes' = (writes \ {r}) \cup {s}
      /\ ledgerOrders' = IF ~done THEN ledgerOrders
                         ELSE IF r.op = "settle" THEN [ledgerOrders EXCEPT ![r.order].settled = TRUE]
                         ELSE [ledgerOrders EXCEPT ![r.order].void = {r.id}]
  BY DEF StaffLedger!Serve
<1> USE <1>1 DEF StaffLedger!address, StaffLedger!shown, StaffLedger!dialog
<1>2. /\ DOMAIN r = {"op", "order", "id", "step"} /\ r.op \in {"settle", "void"} /\ r.order \in Date
      /\ r.op = "void" => [order |-> r.order, id |-> r.id] \in ledgerTried
  BY DEF LedgerIInv, WritesAreKnown
<1>3. DOMAIN s = DOMAIN r /\ s.op = r.op /\ s.order = r.order /\ s.id = r.id /\ s.step = IF done THEN "done"
        ELSE "refused"
  BY <1>2
<1>4. DOMAIN ledgerOrders = Date /\ \A d \in Date :
        DOMAIN ledgerOrders[d] = {"void", "settled"} /\ ledgerOrders[d].settled \in BOOLEAN /\ \A m,
          n \in ledgerOrders[d].void : m = n
  BY DEF LedgerIInv, ShopTypes
<1> HIDE DEF s, done
<1>5. /\ DOMAIN ledgerOrders' = Date
      /\ \A d \in Date : /\ DOMAIN ledgerOrders'[d] = {"void", "settled"}
                         /\ d # r.order \/ ~done => ledgerOrders'[d] = ledgerOrders[d]
                         /\ ledgerOrders'[d].settled = IF done /\ r.op = "settle" /\ d = r.order THEN TRUE
                              ELSE ledgerOrders[d].settled
                         /\ ledgerOrders'[d].void = IF done /\ r.op = "void" /\ d = r.order THEN {r.id}
                              ELSE ledgerOrders[d].void
  <2>1. CASE ~done
    <3>1. ledgerOrders' = ledgerOrders BY <2>1
    <3> QED BY <1>4, <2>1, <3>1
  <2>2. CASE done /\ r.op = "settle"
    <3>1. ledgerOrders' = [ledgerOrders EXCEPT ![r.order].settled = TRUE] BY <2>2
    <3> QED BY <1>2, <1>4, <2>2, <3>1
  <2>3. CASE done /\ r.op = "void"
    <3>1. ledgerOrders' = [ledgerOrders EXCEPT ![r.order].void = {r.id}] BY <2>3
    <3> QED BY <1>2, <1>4, <2>3, <3>1
  <2> QED BY <1>2, <2>1, <2>2, <2>3
<1>6. \A d \in Date : ledgerOrders'[d].settled \in BOOLEAN /\ \A m, n \in ledgerOrders'[d].void : m = n
  <2> SUFFICES ASSUME NEW d \in Date
               PROVE ledgerOrders'[d].settled \in BOOLEAN /\ \A m, n \in ledgerOrders'[d].void : m = n OBVIOUS
  <2>1. ledgerOrders[d].settled \in BOOLEAN /\ \A m, n \in ledgerOrders[d].void : m = n BY <1>4
  <2>2. ledgerOrders'[d].settled \in BOOLEAN BY <1>5, <2>1
  <2>3. ledgerOrders'[d].void \in {{r.id}, ledgerOrders[d].void} BY <1>5
  <2> QED BY <2>1, <2>2, <2>3
<1>7. \A d \in Date : /\ ledgerOrders[d].settled => ledgerOrders'[d].settled
                      /\ ledgerOrders[d].void # {} => ledgerOrders'[d].void = ledgerOrders[d].void
  <2> SUFFICES ASSUME NEW d \in Date,
       ledgerOrders[d].void # {} PROVE ledgerOrders'[d].void = ledgerOrders[d].void BY <1>5
  <2>1. CASE done /\ r.op = "void" /\ d = r.order BY <1>4, <1>5, <2>1 DEF done
  <2> QED BY <1>5, <2>1
<1>8. ShopTypes' BY <1>5, <1>6 DEF LedgerIInv, ShopTypes
<1>9. \A rows : RowsOfStored(rows) => RowsOfStored(rows)' BY <1>7 DEF RowsOfStored
<1>10. StaffLedger!IsLoading' <=> StaffLedger!IsLoading BY DEF StaffLedger!IsLoading
<1>11. LastLedgerCounts' BY <1>9, <1>10 DEF LedgerIInv, LastLedgerCounts, StaffLedger!LedgerIsCurrent
<1>12. WritesAreKnown'
  <2>1. ASSUME NEW q \in writes'
        PROVE  /\ DOMAIN q = {"op", "order", "id", "step"} /\ q.op \in {"settle", "void"} /\ q.order \in Date
               /\ q.op = "void" => [order |-> q.order, id |-> q.id] \in ledgerTried
               /\ q.step = "done" => IF q.op = "settle" THEN ledgerOrders'[q.order].settled
                    ELSE ledgerOrders'[q.order].void # {}
               /\ q.step = "refused" =>
                    q.op = "void" /\ q.id \notin ledgerOrders'[q.order].void /\
                      (q.order \in openDay => ledgerOrders'[q.order].void # {})
    <3>1. CASE q = s BY <1>2, <1>3, <1>5, <3>1 DEF done
    <3>2. CASE q \in writes
      <4>1. /\ DOMAIN q = {"op", "order", "id", "step"} /\ q.op \in {"settle", "void"} /\ q.order \in Date
            /\ q.op = "void" => [order |-> q.order, id |-> q.id] \in ledgerTried
            /\ q.step = "done" => IF q.op = "settle" THEN ledgerOrders[q.order].settled
                 ELSE ledgerOrders[q.order].void # {}
            /\ q.step = "refused" =>
                 q.op = "void" /\ q.id \notin ledgerOrders[q.order].void /\
                   (q.order \in openDay => ledgerOrders[q.order].void # {})
        BY <3>2 DEF LedgerIInv, WritesAreKnown
      <4>2. q.step = "refused" => ledgerOrders'[q.order].void = ledgerOrders[q.order].void
        <5>1. CASE ledgerOrders[q.order].void # {} BY <1>7, <4>1, <5>1
        <5>2. CASE ledgerOrders[q.order].void = {} /\ q.step = "refused"
          <6>1. q.order \notin openDay BY <4>1, <5>2
          <6>2. ~(done /\ r.op = "void" /\ q.order = r.order) BY <5>2, <6>1 DEF done
          <6> QED BY <1>5, <4>1, <6>2
        <5> QED BY <5>1, <5>2
      <4> QED BY <1>7, <4>1, <4>2
    <3> QED BY <3>1, <3>2
  <2> QED BY <2>1 DEF LedgerIInv, WritesAreKnown
<1>13. NoWriteIsMissed'
  <2> SUFFICES ASSUME ~ledgerMissed PROVE NoWriteIsMissed' BY DEF NoWriteIsMissed
  <2>1. ~StaffLedger!IsLoading BY DEF LedgerIInv, NoWriteIsMissed
  <2>2. ASSUME NEW l \in ledger, NEW d \in DOMAIN l.rows
        PROVE  /\ l.rows[d].status = StaffLedger!StatusOf(d)' \/ \E q \in writes' : q.op = "void" /\ q.order = d /\
                    q.step = "done"
               /\ \/ l.rows[d].settled = ledgerOrders'[d].settled
                  \/ \E q \in writes' : q.op = "settle" /\ q.order = d /\ q.step = "done"
    <3>1. d \in Date BY DEF LedgerIInv, LastLedgerCounts, RowsOfStored
    <3>2. /\ l.rows[d].status = StaffLedger!StatusOf(d) \/ \E q \in writes : q.op = "void" /\ q.order = d /\
               q.step = "done"
          /\ \/ l.rows[d].settled = ledgerOrders[d].settled
             \/ \E q \in writes : q.op = "settle" /\ q.order = d /\ q.step = "done"
      BY <2>1 DEF LedgerIInv, NoWriteIsMissed
    <3>3. \A q \in writes : q.step = "done" => q \in writes' OBVIOUS
    <3>4. CASE done /\ d = r.order
      <4>1. s \in writes' /\ s.op = r.op /\ s.order = d /\ s.step = "done" BY <1>3, <3>4
      <4>2. CASE r.op = "settle"
        <5>1. StaffLedger!StatusOf(d)' = StaffLedger!StatusOf(d) BY <1>5, <3>1, <4>2 DEF StaffLedger!StatusOf
        <5> QED BY <3>2, <3>3, <4>1, <4>2, <5>1
      <4>3. CASE r.op = "void"
        <5>1. ledgerOrders'[d].settled = ledgerOrders[d].settled BY <1>4, <1>5, <3>1, <4>3
        <5> QED BY <3>2, <3>3, <4>1, <4>3, <5>1
      <4> QED BY <1>2, <4>2, <4>3
    <3>5. CASE d # r.order \/ ~done
      <4>1. ledgerOrders'[d] = ledgerOrders[d] BY <1>5, <3>1, <3>5
      <4>2. StaffLedger!StatusOf(d)' = StaffLedger!StatusOf(d) BY <4>1 DEF StaffLedger!StatusOf
      <4> QED BY <3>2, <3>3, <4>1, <4>2
    <3> QED BY <3>4, <3>5
  <2>3. ~\E l \in ledgerLoads : l.active BY <2>1 DEF StaffLedger!IsLoading
  <2> QED BY <1>10, <2>1, <2>2, <2>3 DEF NoWriteIsMissed
<1> QED BY <1>8, <1>11, <1>12, <1>13 DEF LedgerIInv

(* The answer to a write: the row says what is stored. *)
LEMMA WriteAnswered ==
  ASSUME LedgerIInv, NEW r \in writes, StaffLedger!Answered(r)
  PROVE  LedgerIInv'
<1> DEFINE written(d, row) == IF d = r.order THEN StaffLedger!Written(r, row) ELSE row
           after(l) == [l EXCEPT !.rows = [d \in DOMAIN l.rows |-> IF d = r.order THEN StaffLedger!Written(r, l.rows[d])
                                                                  ELSE l.rows[d]]]
<1>1. /\ UNCHANGED <<StaffLedger!shop, StaffLedger!address, ledgerKey, attempt, ledgerLoads, ledgerFailed, voidIds,
           ledgerTried, ledgerMissed>>
      /\ r.step = "done"
      /\ writes' = writes \ {r} /\ ledger' = {after(l) : l \in ledger}
      /\ target' = IF r.op = "void" THEN {} ELSE target
  BY DEF StaffLedger!Answered
<1> USE <1>1 DEF StaffLedger!shop, StaffLedger!address
<1>2. /\ r.op \in {"settle", "void"} /\ r.order \in Date
      /\ IF r.op = "settle" THEN ledgerOrders[r.order].settled ELSE ledgerOrders[r.order].void # {}
  BY DEF LedgerIInv, WritesAreKnown
<1>3. \A d \in Date : ledgerOrders[d].settled \in BOOLEAN BY DEF LedgerIInv, ShopTypes
<1>4. ASSUME NEW row \in LedgerRow
      PROVE  /\ StaffLedger!Written(r, row) \in LedgerRow
             /\ r.op = "settle" => StaffLedger!Written(r, row).settled = TRUE /\
                  StaffLedger!Written(r, row).status = row.status
             /\ r.op = "void" => StaffLedger!Written(r, row).status = "Void" /\
                  StaffLedger!Written(r, row).settled = row.settled
  BY <1>2 DEF StaffLedger!Written, LedgerRow
<1>5. ASSUME NEW l \in ledger
      PROVE  /\ DOMAIN after(l) = {"key", "rows"} /\ after(l).key = l.key /\ DOMAIN after(l).rows = DOMAIN l.rows
             /\ \A d \in DOMAIN l.rows : after(l).rows[d] = IF d = r.order THEN StaffLedger!Written(r, l.rows[d])
                  ELSE l.rows[d]
  BY DEF LedgerIInv, LastLedgerCounts
<1> HIDE DEF after
<1>6. ShopTypes' BY DEF LedgerIInv, ShopTypes
<1>7. WritesAreKnown' BY DEF LedgerIInv, WritesAreKnown
<1>8. StaffLedger!IsLoading' <=> StaffLedger!IsLoading BY DEF StaffLedger!IsLoading
<1>9. \A rows : RowsOfStored(rows) => RowsOfStored(rows)' BY DEF RowsOfStored
<1>10. ASSUME NEW l \in ledger PROVE RowsOfStored(after(l).rows)
  <2>1. RowsOfStored(l.rows) BY DEF LedgerIInv, LastLedgerCounts
  <2> SUFFICES ASSUME NEW d \in DOMAIN l.rows
               PROVE  /\ after(l).rows[d] \in LedgerRow
                      /\ after(l).rows[d].settled => ledgerOrders[d].settled
                      /\ after(l).rows[d].status = "Void" => ledgerOrders[d].void # {}
    BY <1>5, <2>1 DEF RowsOfStored
  <2>2. l.rows[d] \in LedgerRow /\ (l.rows[d].settled => ledgerOrders[d].settled) /\
          (l.rows[d].status = "Void" => ledgerOrders[d].void # {})
    BY <2>1 DEF RowsOfStored
  <2>3. CASE d # r.order BY <1>5, <2>2, <2>3
  <2>4. CASE d = r.order /\ r.op = "settle" BY <1>2, <1>4, <1>5, <2>2, <2>4
  <2>5. CASE d = r.order /\ r.op = "void" BY <1>2, <1>4, <1>5, <2>2, <2>5
  <2> QED BY <1>2, <2>3, <2>4, <2>5
<1>11. LastLedgerCounts'
  <2>1. {l.key : l \in ledger'} = {l.key : l \in ledger} BY <1>5
  <2>2. StaffLedger!LedgerIsCurrent' BY <1>8, <2>1 DEF LedgerIInv, LastLedgerCounts, StaffLedger!LedgerIsCurrent
  <2>3. \A k \in ledger' : DOMAIN k = {"key", "rows"} /\ k.key = ledgerKey /\ RowsOfStored(k.rows)
    BY <1>5, <1>10 DEF LedgerIInv, LastLedgerCounts
  <2>4. StaffLedger!IsLoading => ledger' = {} BY DEF LedgerIInv, LastLedgerCounts
  <2> QED BY <1>8, <1>9, <2>2, <2>3, <2>4 DEF LedgerIInv, LastLedgerCounts
<1>12. NoWriteIsMissed'
  <2> SUFFICES ASSUME ~ledgerMissed PROVE NoWriteIsMissed' BY DEF NoWriteIsMissed
  <2>1. ~StaffLedger!IsLoading BY DEF LedgerIInv, NoWriteIsMissed
  <2>2. ASSUME NEW l \in ledger, NEW d \in DOMAIN l.rows
        PROVE  /\ \/ after(l).rows[d].status = StaffLedger!StatusOf(d)
                  \/ \E q \in writes' : q.op = "void" /\ q.order = d /\ q.step = "done"
               /\ \/ after(l).rows[d].settled = ledgerOrders[d].settled
                  \/ \E q \in writes' : q.op = "settle" /\ q.order = d /\ q.step = "done"
    <3>1. d \in Date /\ l.rows[d] \in LedgerRow BY DEF LedgerIInv, LastLedgerCounts, RowsOfStored
    <3>2. /\ l.rows[d].status = StaffLedger!StatusOf(d) \/ \E q \in writes : q.op = "void" /\ q.order = d /\
               q.step = "done"
          /\ \/ l.rows[d].settled = ledgerOrders[d].settled
             \/ \E q \in writes : q.op = "settle" /\ q.order = d /\ q.step = "done"
      BY <2>1 DEF LedgerIInv, NoWriteIsMissed
    <3>3. CASE d # r.order
      <4>1. after(l).rows[d] = l.rows[d] BY <1>5, <3>3
      <4> QED BY <3>2, <3>3, <4>1
    <3>4. CASE d = r.order /\ r.op = "settle"
      <4>1. after(l).rows[d].settled = TRUE /\ after(l).rows[d].status = l.rows[d].status BY <1>4, <1>5, <3>1, <3>4
      <4>2. ledgerOrders[d].settled = TRUE BY <1>2, <1>3, <3>4
      <4> QED BY <3>2, <3>4, <4>1, <4>2
    <3>5. CASE d = r.order /\ r.op = "void"
      <4>1. after(l).rows[d].status = "Void" /\ after(l).rows[d].settled = l.rows[d].settled BY <1>4, <1>5, <3>1, <3>5
      <4>2. StaffLedger!StatusOf(d) = "Void" BY <1>2, <3>5 DEF StaffLedger!StatusOf
      <4> QED BY <3>2, <3>5, <4>1, <4>2
    <3> QED BY <1>2, <3>3, <3>4, <3>5
  <2>3. ~\E l \in ledgerLoads : l.active BY <2>1 DEF StaffLedger!IsLoading
  <2>4. \A d : StaffLedger!StatusOf(d)' = StaffLedger!StatusOf(d) BY DEF StaffLedger!StatusOf
  <2>5. \A k \in ledger' : \E l \in ledger : k = after(l) /\ DOMAIN k.rows = DOMAIN l.rows BY <1>5
  <2> QED BY <1>8, <2>1, <2>2, <2>3, <2>4, <2>5 DEF NoWriteIsMissed
<1> QED BY <1>6, <1>7, <1>11, <1>12 DEF LedgerIInv

(* A write that fails, and what is done at another tablet. *)
LEMMA WriteFailedOrElsewhere ==
  ASSUME LedgerIInv, StaffLedger!Elsewhere \/ \E r \in writes : StaffLedger!Failed(r)
  PROVE  LedgerIInv'
<1>1. ASSUME NEW r \in writes, StaffLedger!Failed(r) PROVE LedgerIInv'
  <2>1. /\ UNCHANGED <<StaffLedger!shop, StaffLedger!address, StaffLedger!shown, StaffLedger!dialog, ledgerTried>>
        /\ writes' = writes \ {r}
        /\ ledgerMissed' = (ledgerMissed \/ r.step = "done")
    BY <1>1 DEF StaffLedger!Failed
  <2> USE <2>1 DEF StaffLedger!shop, StaffLedger!address, StaffLedger!shown, StaffLedger!dialog
  <2>2. ShopTypes' BY DEF LedgerIInv, ShopTypes
  <2>3. LastLedgerCounts' BY DEF LedgerIInv, LastLedgerCounts, StaffLedger!LedgerIsCurrent, RowsOfStored,
       StaffLedger!IsLoading
  <2>4. WritesAreKnown' BY DEF LedgerIInv, WritesAreKnown
  <2>5. NoWriteIsMissed'
    <3>1. (StaffLedger!IsLoading' <=> StaffLedger!IsLoading) /\ \A d :
            StaffLedger!StatusOf(d)' = StaffLedger!StatusOf(d) BY DEF StaffLedger!IsLoading, StaffLedger!StatusOf
    <3>2. ~ledgerMissed' => ~ledgerMissed /\ \A q \in writes : q.step = "done" => q \in writes' OBVIOUS
    <3> QED BY <3>1, <3>2 DEF LedgerIInv, NoWriteIsMissed
  <2> QED BY <2>2, <2>3, <2>4, <2>5 DEF LedgerIInv
<1>2. CASE StaffLedger!Elsewhere
  <2>1. UNCHANGED <<StaffLedger!address, StaffLedger!shown, StaffLedger!dialog, StaffLedger!sent>> /\
          ledgerMissed' = TRUE BY <1>2 DEF StaffLedger!Elsewhere
  <2> USE <2>1 DEF StaffLedger!address, StaffLedger!shown, StaffLedger!dialog, StaffLedger!sent
  <2>2. DOMAIN ledgerOrders = Date /\ \A d \in Date :
          DOMAIN ledgerOrders[d] = {"void", "settled"} /\ ledgerOrders[d].settled \in BOOLEAN /\ \A m,
            n \in ledgerOrders[d].void : m = n
    BY DEF LedgerIInv, ShopTypes
  <2> DEFINE kept(d) ==
        /\ DOMAIN ledgerOrders'[d] = {"void", "settled"} /\ ledgerOrders'[d].settled \in BOOLEAN
        /\ \A m, n \in ledgerOrders'[d].void : m = n
        /\ ledgerOrders[d].settled => ledgerOrders'[d].settled
        /\ ledgerOrders'[d].void = ledgerOrders[d].void \/
             (d \in openDay /\ ledgerOrders[d].void = {} /\ ledgerOrders'[d].void = {0})
  <2>3. openDay' \subseteq openDay /\ DOMAIN ledgerOrders' = Date /\ \A d \in Date : kept(d)
    <3>1. CASE openDay' = {} /\ UNCHANGED ledgerOrders BY <2>2, <3>1
    <3>2. ASSUME NEW d \in Date, ledgerOrders' = [ledgerOrders EXCEPT ![d].settled = TRUE], UNCHANGED openDay
          PROVE  openDay' \subseteq openDay /\ DOMAIN ledgerOrders' = Date /\ \A e \in Date : kept(e)
      BY <2>2, <3>2
    <3>3. ASSUME NEW d \in openDay, ledgerOrders[d].void = {}, ledgerOrders' = [ledgerOrders EXCEPT ![d].void = {0}],
                   UNCHANGED openDay
          PROVE  openDay' \subseteq openDay /\ DOMAIN ledgerOrders' = Date /\ \A e \in Date : kept(e)
      <4>1. d \in Date BY DEF LedgerIInv, ShopTypes
      <4> QED BY <2>2, <3>3, <4>1
    <3> QED BY <1>2, <3>1, <3>2, <3>3 DEF StaffLedger!Elsewhere
  <2>4. ShopTypes' BY <2>3 DEF LedgerIInv, ShopTypes
  <2>5. \A rows : RowsOfStored(rows) => RowsOfStored(rows)' BY <2>3 DEF RowsOfStored
  <2>6. StaffLedger!IsLoading' <=> StaffLedger!IsLoading BY DEF StaffLedger!IsLoading
  <2>7. LastLedgerCounts' BY <2>5, <2>6 DEF LedgerIInv, LastLedgerCounts, StaffLedger!LedgerIsCurrent
  <2>8. WritesAreKnown' BY <2>3 DEF LedgerIInv, WritesAreKnown
  <2>9. NoWriteIsMissed' BY DEF NoWriteIsMissed
  <2> QED BY <2>4, <2>7, <2>8, <2>9 DEF LedgerIInv
<1> QED BY <1>1, <1>2

(* The invariant holds throughout. *)
THEOREM LedgerInvariant == StaffLedger!Spec => []LedgerIInv
<1>1. LedgerIInv /\ [StaffLedger!Next]_(StaffLedger!vars) => LedgerIInv'
  <2> SUFFICES ASSUME LedgerIInv, [StaffLedger!Next]_(StaffLedger!vars) PROVE LedgerIInv' OBVIOUS
  <2>1. CASE UNCHANGED StaffLedger!vars
    <3> USE <2>1 DEF StaffLedger!vars, StaffLedger!shop, StaffLedger!address, StaffLedger!shown, StaffLedger!dialog,
          StaffLedger!sent
    <3>1. ShopTypes' BY DEF LedgerIInv, ShopTypes
    <3>2. LastLedgerCounts' BY DEF LedgerIInv, LastLedgerCounts, StaffLedger!LedgerIsCurrent, RowsOfStored,
         StaffLedger!IsLoading
    <3>3. WritesAreKnown' BY DEF LedgerIInv, WritesAreKnown
    <3>4. NoWriteIsMissed' BY DEF LedgerIInv, NoWriteIsMissed, StaffLedger!StatusOf, StaffLedger!IsLoading
    <3> QED BY <3>1, <3>2, <3>3, <3>4 DEF LedgerIInv
  <2>2. CASE StaffLedger!DaysLoaded \/ StaffLedger!DaysFailed \/ StaffLedger!RetryDays BY <2>2, AddressChanges
  <2>3. ASSUME NEW d \in Date, StaffLedger!SelectDay(d) PROVE LedgerIInv' BY <2>3, AddressChanges
  <2>4. ASSUME NEW s \in Status, StaffLedger!SelectStatus(s) PROVE LedgerIInv' BY <2>4, AddressChanges
  <2>5. CASE StaffLedger!Render BY <2>5, LedgerAsked
  <2>6. CASE StaffLedger!RetryLedger BY <2>6, LedgerLoads
  <2>7. ASSUME NEW l \in ledgerLoads,
       StaffLedger!ReadLedger(l) \/ StaffLedger!LedgerLoaded(l) \/ StaffLedger!LedgerFailed(l) PROVE LedgerIInv'
         BY <2>7, LedgerLoads
  <2>8. CASE StaffLedger!CloseVoid BY <2>8, DialogOfTheLedger
  <2>9. ASSUME NEW d \in StaffLedger!Rows,
       StaffLedger!ConfirmHandover(d) \/ StaffLedger!OpenVoid(d) PROVE LedgerIInv' BY <2>9, DialogOfTheLedger
  <2>10. ASSUME NEW d \in target, StaffLedger!ConfirmVoid(d) PROVE LedgerIInv' BY <2>10, DialogOfTheLedger
  <2>11. ASSUME NEW r \in writes, StaffLedger!Serve(r) PROVE LedgerIInv' BY <2>11, WriteServed
  <2>12. ASSUME NEW r \in writes, StaffLedger!Answered(r) PROVE LedgerIInv' BY <2>12, WriteAnswered
  <2>13. ASSUME NEW r \in writes, StaffLedger!Failed(r) PROVE LedgerIInv' BY <2>13, WriteFailedOrElsewhere
  <2>14. CASE StaffLedger!Elsewhere BY <2>14, WriteFailedOrElsewhere
  <2> QED BY <2>1, <2>2, <2>3, <2>4, <2>5, <2>6, <2>7, <2>8, <2>9, <2>10, <2>11, <2>12, <2>13, <2>14
       DEF StaffLedger!Next
<1> QED BY <1>1, LedgerStarts, PTL DEF StaffLedger!Spec

(* The ledger is the one last asked for, its rows are what is stored, and  *)
(* what is refused was voided by somebody else.                            *)
THEOREM LedgerHolds == StaffLedger!Spec => []StaffLedger!StaffHistoryInv
<1>1. LedgerIInv => StaffLedger!StaffHistoryInv
  <2> SUFFICES ASSUME LedgerIInv PROVE StaffLedger!StaffHistoryInv OBVIOUS
  <2>1. StaffLedger!LedgerIsCurrent BY DEF LedgerIInv, LastLedgerCounts
  <2>2. StaffLedger!RowsAreStored
    <3> SUFFICES ASSUME NEW l \in ledger, NEW d \in DOMAIN l.rows
                 PROVE  /\ l.rows[d].settled => ledgerOrders[d].settled
                        /\ l.rows[d].status = "Void" => ledgerOrders[d].void # {}
                        /\ ~StaffLedger!IsLoading /\ writes = {} /\ ~ledgerMissed =>
                             l.rows[d] = [status |-> StaffLedger!StatusOf(d), settled |-> ledgerOrders[d].settled]
      BY DEF StaffLedger!RowsAreStored
    <3>1. /\ l.rows[d] \in LedgerRow
          /\ l.rows[d].settled => ledgerOrders[d].settled
          /\ l.rows[d].status = "Void" => ledgerOrders[d].void # {}
      BY DEF LedgerIInv, LastLedgerCounts, RowsOfStored
    <3>2. ASSUME ~StaffLedger!IsLoading, writes = {}, ~ledgerMissed
          PROVE  l.rows[d] = [status |-> StaffLedger!StatusOf(d), settled |-> ledgerOrders[d].settled]
      <4>1. l.rows[d].status = StaffLedger!StatusOf(d) /\ l.rows[d].settled = ledgerOrders[d].settled
        BY <3>2 DEF LedgerIInv, NoWriteIsMissed
      <4>2. l.rows[d] = [status |-> l.rows[d].status, settled |-> l.rows[d].settled] BY <3>1 DEF LedgerRow
      <4> QED BY <4>1, <4>2
    <3> QED BY <3>1, <3>2
  <2>3. StaffLedger!RefusedForOthersOnly
    <3> SUFFICES ASSUME NEW r \in writes, r.step = "refused", r.order \in openDay
                 PROVE  \E n \in ledgerOrders[r.order].void : [order |-> r.order, id |-> n] \notin ledgerTried
      BY DEF StaffLedger!RefusedForOthersOnly
    <3>1. r.op = "void" /\ r.id \notin ledgerOrders[r.order].void /\ ledgerOrders[r.order].void # {} /\ r.order \in Date
          /\ [order |-> r.order, id |-> r.id] \in ledgerTried
      BY DEF LedgerIInv, WritesAreKnown
    <3>2. PICK n \in ledgerOrders[r.order].void : TRUE BY <3>1
    <3>3. \A t \in ledgerTried : voidIds[t.order] = {t.id} BY DEF LedgerIInv, WritesAreKnown
    <3>4. voidIds[r.order] = {r.id} BY <3>1, <3>3
    <3>5. [order |-> r.order, id |-> n] \in ledgerTried => voidIds[r.order] = {n} BY <3>3
    <3> QED BY <3>1, <3>2, <3>4, <3>5
  <2> QED BY <2>1, <2>2, <2>3 DEF StaffLedger!StaffHistoryInv
<1> QED BY <1>1, LedgerInvariant, PTL
-----------------------------------------------------------------------------
(* CashPage: the cash entries of a day.                                    *)

CashPageFields == {"status", "dayOpen", "movements", "form", "retryIdentity", "target", "draft", "review", "sending"}

(* An id that was made up already.                                         *)
IdIsMade(i) == i \in CashBook!Id /\ i \in Nat /\ i <= entryIds

EntryTypes ==
  /\ DOMAIN cashPage = CashPageFields /\ entryIds \in Nat
  /\ DOMAIN entries = CashBook!Id /\ \A i \in CashBook!Id : entries[i] # {} => IdIsMade(i)
  /\ \A x, y \in cashPage.retryIdentity : x = y
  /\ \A x \in cashPage.retryIdentity : DOMAIN x = {"signature", "id"} /\ IdIsMade(x.id)
  /\ \A r, s \in cashPage.review : r = s
  /\ \A r \in cashPage.review : DOMAIN r = {"id", "value"} /\ IdIsMade(r.id)
  /\ \A i, j \in cashPage.target : i = j
  /\ \A s, t \in cashPage.sending : s = t
  /\ \A s \in cashPage.sending : DOMAIN s = {"op", "id", "value", "amends", "reply"} /\ IdIsMade(s.id)

(* What is on its way is the entry whose identity is kept, or the review,  *)
(* and these two have ids of their own.                                    *)
SentIsKept ==
  /\ \A s \in cashPage.sending :
       \/ /\ s.op = "record" /\ s.amends = 0
          /\ \E x \in cashPage.retryIdentity : x.id = s.id /\ x.signature = s.value
       \/ /\ s.op = "amend"
          /\ \E r \in cashPage.review : r.id = s.id /\ r.value = s.value /\ cashPage.target = {s.amends}
  /\ \A x \in cashPage.retryIdentity, r \in cashPage.review : x.id # r.id

(* What is stored under an id the page keeps is what the page would send.  *)
KeptIsStored ==
  /\ \A x \in cashPage.retryIdentity : \A e \in entries[x.id] : e.value = x.signature
  /\ CashBook!ReviewIsStored
  /\ CashBook!NothingSavedIsTrue

CashIInv == EntryTypes /\ SentIsKept /\ KeptIsStored

(* The page as it is first opened, with nothing kept.                      *)
LEMMA CashStarts == CashBook!Init => CashIInv
<1> SUFFICES ASSUME CashBook!Init PROVE CashIInv OBVIOUS
<1>1. /\ DOMAIN cashPage = CashPageFields /\ cashPage.retryIdentity = {} /\ cashPage.review = {} /\ cashPage.target = {}
      /\ cashPage.sending = {}
  BY DEF CashBook!Init, CashPageFields
<1>2. entryIds = 0 /\ DOMAIN entries = CashBook!Id /\ \A i \in CashBook!Id : entries[i] = {} BY DEF CashBook!Init
<1> QED BY <1>1, <1>2 DEF CashIInv, EntryTypes, SentIsKept, KeptIsStored, CashBook!ReviewIsStored,
     CashBook!NothingSavedIsTrue, CashBook!IsStored

(* What the page keeps of ids and of what is sent stays.                   *)
SameCashPage ==
  /\ DOMAIN cashPage' = CashPageFields /\ cashPage'.retryIdentity = cashPage.retryIdentity
  /\ cashPage'.review = cashPage.review
  /\ cashPage'.target = cashPage.target /\ cashPage'.sending = cashPage.sending

(* The page loads, fails to load or is left alone.                         *)
LEMMA CashLoads ==
  ASSUME CashIInv, CashBook!Loaded \/ CashBook!LoadFailed \/ CashBook!Retry \/ UNCHANGED CashBook!vars
  PROVE  CashIInv'
<1>1. SameCashPage /\ entries' = entries /\ entryIds' = entryIds
  <2>1. DOMAIN cashPage = CashPageFields BY DEF CashIInv, EntryTypes
  <2>2. CASE CashBook!Loaded BY <2>1, <2>2 DEF CashBook!Loaded, SameCashPage, CashPageFields
  <2>3. CASE CashBook!LoadFailed \/ CashBook!Retry BY <2>1, <2>3 DEF CashBook!LoadFailed, CashBook!Retry,
       SameCashPage, CashPageFields
  <2>4. CASE UNCHANGED CashBook!vars BY <2>1, <2>4 DEF CashBook!vars, SameCashPage
  <2> QED BY <2>2, <2>3, <2>4
<1>2. EntryTypes' BY <1>1 DEF CashIInv, EntryTypes, IdIsMade, SameCashPage
<1>3. SentIsKept' BY <1>1 DEF CashIInv, SentIsKept, SameCashPage
<1>4. KeptIsStored' BY <1>1 DEF CashIInv, KeptIsStored, CashBook!ReviewIsStored, CashBook!NothingSavedIsTrue,
     CashBook!IsStored, SameCashPage
<1> QED BY <1>2, <1>3, <1>4 DEF CashIInv

(* With nothing on its way, an identity or a review is given up, or made   *)
(* with a new id.                                                          *)
LEMMA CashFilled ==
  ASSUME CashIInv, NEW v,
           CashBook!Fill(v) \/ CashBook!ChangeDraft(v) \/ CashBook!StartAmendment \/ CashBook!ReviewAmendment \/
             CashBook!Edit \/ CashBook!Cancel
  PROVE  CashIInv'
<1>1. DOMAIN cashPage = CashPageFields /\ entryIds \in Nat BY DEF CashIInv, EntryTypes
<1>2. cashPage.sending = {} /\ entries' = entries
  BY DEF CashBook!Fill, CashBook!ChangeDraft, CashBook!StartAmendment, CashBook!ReviewAmendment, CashBook!Edit,
       CashBook!Cancel, CashBook!Idle
<1>3. /\ DOMAIN cashPage' = CashPageFields /\ cashPage'.sending = {}
      /\ cashPage'.retryIdentity = cashPage.retryIdentity \/ cashPage'.retryIdentity = {}
      /\ \/ cashPage'.review = cashPage.review /\ cashPage'.target = cashPage.target /\ entryIds' = entryIds
         \/ cashPage'.review = {} /\ (cashPage'.target = {} \/ \E i : cashPage'.target = {i}) /\ entryIds' = entryIds
         \/ cashPage'.review = {} /\ cashPage'.target = cashPage.target /\ entryIds' = entryIds
         \/ /\ cashPage'.target = cashPage.target /\ entryIds' = entryIds + 1 /\ entryIds + 1 \in CashBook!Id
            /\ \E value : cashPage'.review = {[id |-> entryIds + 1, value |-> value]}
  <2>1. CASE CashBook!Fill(v) BY <1>1, <1>2, <2>1 DEF CashBook!Fill, CashPageFields
  <2>2. CASE CashBook!ChangeDraft(v) BY <1>1, <1>2, <2>2 DEF CashBook!ChangeDraft, CashPageFields
  <2>3. CASE CashBook!StartAmendment
    <3>1. PICK i, e : cashPage' = [cashPage EXCEPT !.target = {i}, !.draft = {e}, !.review = {}] BY <2>3
         DEF CashBook!StartAmendment
    <3>2. entryIds' = entryIds BY <2>3 DEF CashBook!StartAmendment
    <3> QED BY <1>1, <1>2, <3>1, <3>2 DEF CashPageFields
  <2>4. CASE CashBook!ReviewAmendment
    <3>1. PICK value : /\ entryIds + 1 \in CashBook!Id /\ entryIds' = entryIds + 1
                       /\ cashPage' = [cashPage EXCEPT !.review = {[id |-> entryIds + 1, value |-> value]}]
      BY <2>4 DEF CashBook!ReviewAmendment, CashBook!ReviewId
    <3> QED BY <1>1, <1>2, <3>1 DEF CashPageFields
  <2>5. CASE CashBook!Edit BY <1>1, <1>2, <2>5 DEF CashBook!Edit, CashPageFields
  <2>6. CASE CashBook!Cancel BY <1>1, <1>2, <2>6 DEF CashBook!Cancel, CashBook!NoAmendment, CashPageFields
  <2> QED BY <2>1, <2>2, <2>3, <2>4, <2>5, <2>6
<1>4. /\ \A i : IdIsMade(i) => IdIsMade(i)'
      /\ entryIds' \in Nat /\ ~IdIsMade(entryIds + 1)
      /\ entryIds' = entryIds + 1 /\ entryIds + 1 \in CashBook!Id => \A i : i = entryIds + 1 => IdIsMade(i)'
  <2>1. entryIds' \in Nat /\ entryIds <= entryIds' BY <1>1, <1>3
  <2> QED BY <1>1, <2>1 DEF IdIsMade, CashBook!Id
<1>5. \A i \in CashBook!Id : ~IdIsMade(i) => entries[i] = {} BY DEF CashIInv, EntryTypes
<1>6. CASE \E value : cashPage'.review = {[id |-> entryIds + 1, value |-> value]} /\ entryIds' = entryIds + 1 /\
             entryIds + 1 \in CashBook!Id
           /\ cashPage'.target = cashPage.target
  <2>1. PICK value : cashPage'.review = {[id |-> entryIds + 1, value |-> value]} BY <1>6
  <2> DEFINE r == [id |-> entryIds + 1, value |-> value]
  <2>2. DOMAIN r = {"id", "value"} /\ r.id = entryIds + 1 OBVIOUS
  <2>3. cashPage'.review = {r} BY <2>1
  <2> HIDE DEF r
  <2>4. EntryTypes' BY <1>2, <1>3, <1>4, <1>6, <2>2, <2>3 DEF CashIInv, EntryTypes, CashBook!Id
  <2>5. \A x \in cashPage'.retryIdentity : x.id # r.id BY <1>3, <1>4, <1>6, <2>2 DEF CashIInv, EntryTypes
  <2>6. SentIsKept' BY <1>3, <2>3, <2>5 DEF SentIsKept
  <2>7. entries[r.id] = {} BY <1>4, <1>5, <1>6, <2>2
  <2>8. KeptIsStored' BY <1>2, <1>3, <2>3, <2>7 DEF CashIInv, KeptIsStored, CashBook!ReviewIsStored,
       CashBook!NothingSavedIsTrue, CashBook!IsStored
  <2> QED BY <2>4, <2>6, <2>8 DEF CashIInv
<1>7. CASE /\ entryIds' = entryIds
           /\ \/ cashPage'.review = cashPage.review /\ cashPage'.target = cashPage.target
              \/ cashPage'.review = {} /\ \A i, j \in cashPage'.target : i = j
  <2>1. EntryTypes' BY <1>1, <1>2, <1>3, <1>4, <1>7 DEF CashIInv, EntryTypes, CashBook!Id
  <2>2. SentIsKept' BY <1>3, <1>7 DEF CashIInv, SentIsKept
  <2>3. KeptIsStored' BY <1>2, <1>3, <1>7 DEF CashIInv, KeptIsStored, CashBook!ReviewIsStored,
       CashBook!NothingSavedIsTrue, CashBook!IsStored
  <2> QED BY <2>1, <2>2, <2>3 DEF CashIInv
<1>8. \A i, j \in cashPage.target : i = j BY DEF CashIInv, EntryTypes
<1> QED BY <1>3, <1>6, <1>7, <1>8

(* An entry or a correction is sent.                                       *)
LEMMA CashSent ==
  ASSUME CashIInv, CashBook!Submit \/ CashBook!ConfirmAmendment
  PROVE  CashIInv'
<1>1. DOMAIN cashPage = CashPageFields /\ entryIds \in Nat BY DEF CashIInv, EntryTypes
<1>2. cashPage.sending = {} /\ entries' = entries BY DEF CashBook!Submit, CashBook!ConfirmAmendment, CashBook!Idle
<1>3. \A op, i, v, amends : \A s \in CashBook!Send(op, i, v, amends) :
        /\ DOMAIN s = {"op", "id", "value", "amends", "reply"} /\ s.op = op /\ s.id = i /\ s.value = v
        /\ s.amends = amends
        /\ s.reply = "none"
  BY DEF CashBook!Send
<1>4. \A op, i, v, amends : \A s, t \in CashBook!Send(op, i, v, amends) : s = t BY DEF CashBook!Send
<1>5. ASSUME NEW v, entryIds + 1 \in CashBook!Id, entryIds' = entryIds + 1,
             cashPage' = [cashPage EXCEPT !.retryIdentity = {[signature |-> v, id |-> entryIds + 1]},
                                      !.sending = CashBook!Send("record", entryIds + 1, v, 0)]
      PROVE  CashIInv'
  <2> DEFINE x == [signature |-> v, id |-> entryIds + 1]
  <2>1. DOMAIN x = {"signature", "id"} /\ x.signature = v /\ x.id = entryIds + 1 OBVIOUS
  <2>2. /\ DOMAIN cashPage' = CashPageFields /\ cashPage'.retryIdentity = {x}
        /\ cashPage'.sending = CashBook!Send("record", entryIds + 1, v, 0)
        /\ cashPage'.review = cashPage.review /\ cashPage'.target = cashPage.target
    BY <1>1, <1>5 DEF CashPageFields
  <2> HIDE DEF x
  <2>3. entryIds' \in Nat /\ (\A i : IdIsMade(i) => IdIsMade(i)') /\ (\A i : i = entryIds + 1 => IdIsMade(i)') /\
          ~IdIsMade(entryIds + 1)
    BY <1>1, <1>5 DEF IdIsMade, CashBook!Id
  <2>4. entries[entryIds + 1] = {} BY <1>5, <2>3 DEF CashIInv, EntryTypes
  <2>5. EntryTypes' BY <1>2, <1>3, <1>4, <2>1, <2>2, <2>3 DEF CashIInv, EntryTypes, CashBook!Id
  <2>6. \A r \in cashPage.review : r.id # entryIds + 1 BY <2>3 DEF CashIInv, EntryTypes
  <2>7. SentIsKept' BY <1>3, <2>1, <2>2, <2>6 DEF SentIsKept
  <2>8. KeptIsStored' BY <1>2, <1>3, <2>1, <2>2, <2>4 DEF CashIInv, KeptIsStored, CashBook!ReviewIsStored,
       CashBook!NothingSavedIsTrue, CashBook!IsStored
  <2> QED BY <2>5, <2>7, <2>8 DEF CashIInv
<1>6. ASSUME NEW op, NEW i, NEW v, NEW amends, entryIds' = entryIds,
               cashPage' = [cashPage EXCEPT !.sending = CashBook!Send(op, i, v, amends)],
             \/ op = "record" /\ amends = 0 /\ \E x \in cashPage.retryIdentity : x.id = i /\ x.signature = v
             \/ op = "amend" /\ \E r \in cashPage.review : r.id = i /\ r.value = v /\ cashPage.target = {amends}
      PROVE  CashIInv'
  <2>1. /\ DOMAIN cashPage' = CashPageFields /\ cashPage'.retryIdentity = cashPage.retryIdentity
        /\ cashPage'.sending = CashBook!Send(op, i, v, amends) /\ cashPage'.review = cashPage.review
        /\ cashPage'.target = cashPage.target
    BY <1>1, <1>6 DEF CashPageFields
  <2>2. IdIsMade(i) BY <1>6 DEF CashIInv, EntryTypes
  <2>3. \A k : IdIsMade(k)' <=> IdIsMade(k) BY <1>6 DEF IdIsMade, CashBook!Id
  <2>4. EntryTypes' BY <1>1, <1>2, <1>3, <1>4, <1>6, <2>1, <2>2, <2>3 DEF CashIInv, EntryTypes, CashBook!Id
  <2>5. SentIsKept' BY <1>3, <1>6, <2>1 DEF CashIInv, SentIsKept
  <2>6. KeptIsStored' BY <1>2, <1>3, <2>1 DEF CashIInv, KeptIsStored, CashBook!ReviewIsStored,
       CashBook!NothingSavedIsTrue, CashBook!IsStored
  <2> QED BY <2>4, <2>5, <2>6 DEF CashIInv
<1>7. CASE CashBook!Submit
  <2>1. PICK v \in cashPage.form :
          \/ /\ entryIds + 1 \in CashBook!Id /\ entryIds' = entryIds + 1
             /\ cashPage' = [cashPage EXCEPT !.retryIdentity = {[signature |-> v, id |-> entryIds + 1]},
                                         !.sending = CashBook!Send("record", entryIds + 1, v, 0)]
          \/ \E i \in CashBook!RetriedId(v) :
               cashPage' = [cashPage EXCEPT !.sending = CashBook!Send("record", i, v, 0)] /\ entryIds' = entryIds
    BY <1>7 DEF CashBook!Submit
  <2>2. \A i \in CashBook!RetriedId(v) : \E x \in cashPage.retryIdentity : x.id = i /\ x.signature = v BY
       DEF CashBook!RetriedId
  <2> QED BY <1>5, <1>6, <2>1, <2>2
<1>8. CASE CashBook!ConfirmAmendment
  <2>1. PICK t \in cashPage.target, r \in cashPage.review :
               cashPage' = [cashPage EXCEPT !.sending = CashBook!Send("amend", r.id, r.value, t)]
    BY <1>8 DEF CashBook!ConfirmAmendment
  <2>2. cashPage.target = {t} BY DEF CashIInv, EntryTypes
  <2>3. entryIds' = entryIds BY <1>8 DEF CashBook!ConfirmAmendment
  <2> QED BY <1>6, <2>1, <2>2, <2>3
<1> QED BY <1>7, <1>8

(* The server answers, or somebody else is served.                         *)
LEMMA CashServed ==
  ASSUME CashIInv, CashBook!Serve
  PROVE  CashIInv'
<1>1. DOMAIN cashPage = CashPageFields /\ entryIds \in Nat /\ DOMAIN entries = CashBook!Id BY DEF CashIInv, EntryTypes
<1>2. PICK s \in cashPage.sending :
        /\ s.reply = "none"
        /\ entries' = IF CashBook!Outcome(s) = "ok" /\ ~CashBook!IsStored(s.id)
                      THEN [entries EXCEPT ![s.id] = {[value |-> s.value, amends |-> s.amends]}] ELSE entries
        /\ cashPage' = [cashPage EXCEPT !.sending = {[s EXCEPT !.reply = CashBook!Outcome(s)]}]
        /\ entryIds' = entryIds
  BY DEF CashBook!Serve
<1> DEFINE q == [s EXCEPT !.reply = CashBook!Outcome(s)]  e == [value |-> s.value, amends |-> s.amends]
<1>3. DOMAIN s = {"op", "id", "value", "amends", "reply"} /\ IdIsMade(s.id) BY DEF CashIInv, EntryTypes
<1>4. /\ DOMAIN q = DOMAIN s /\ q.op = s.op /\ q.id = s.id /\ q.value = s.value /\ q.amends = s.amends
      /\ q.reply = CashBook!Outcome(s)
  BY <1>3
<1>5. e.value = s.value /\ e.amends = s.amends OBVIOUS
<1>6. /\ DOMAIN cashPage' = CashPageFields /\ cashPage'.retryIdentity = cashPage.retryIdentity
      /\ cashPage'.sending = {q}
      /\ cashPage'.review = cashPage.review /\ cashPage'.target = cashPage.target
  BY <1>1, <1>2 DEF CashPageFields
<1>7. entries' = IF CashBook!Outcome(s) = "ok" /\ ~CashBook!IsStored(s.id) THEN [entries EXCEPT ![s.id] = {e}]
        ELSE entries BY <1>2
<1> HIDE DEF q, e
<1>8. \A i : IdIsMade(i)' <=> IdIsMade(i) BY <1>2 DEF IdIsMade, CashBook!Id
<1>9. /\ DOMAIN entries' = CashBook!Id
      /\ \A i \in CashBook!Id : i # s.id => entries'[i] = entries[i]
      /\ entries'[s.id] = entries[s.id] \/ entries'[s.id] = {e}
      /\ q.reply # "ok" => entries' = entries
  BY <1>1, <1>3, <1>4, <1>7 DEF IdIsMade
<1>10. EntryTypes' BY <1>1, <1>2, <1>3, <1>4, <1>6, <1>8, <1>9 DEF CashIInv, EntryTypes, CashBook!Id, IdIsMade
<1>11. SentIsKept' BY <1>4, <1>6 DEF CashIInv, SentIsKept
<1>12. KeptIsStored'
  <2>1. ASSUME NEW x \in cashPage.retryIdentity, NEW d \in entries'[x.id] PROVE d.value = x.signature
    <3>1. x.id \in CashBook!Id /\ (\A c \in entries[x.id] : c.value = x.signature) /\ \A y \in cashPage.retryIdentity :
            y = x
      BY DEF CashIInv, EntryTypes, KeptIsStored, IdIsMade
    <3>2. CASE x.id # s.id BY <1>9, <2>1, <3>1, <3>2
    <3>3. CASE x.id = s.id
      <4>1. x.signature = s.value BY <3>1, <3>3 DEF CashIInv, SentIsKept
      <4> QED BY <1>5, <1>9, <2>1, <3>1, <3>3, <4>1
    <3> QED BY <3>2, <3>3
  <2>2. ASSUME NEW r \in cashPage.review, NEW d \in entries'[r.id]
        PROVE d.value = r.value /\ {d.amends} = cashPage.target
    <3>1. /\ r.id \in CashBook!Id /\ \A y \in cashPage.review : y = r
          /\ \A c \in entries[r.id] : c.value = r.value /\ {c.amends} = cashPage.target
      BY DEF CashIInv, EntryTypes, KeptIsStored, CashBook!ReviewIsStored, IdIsMade
    <3>2. CASE r.id # s.id BY <1>9, <2>2, <3>1, <3>2
    <3>3. CASE r.id = s.id
      <4>1. r.value = s.value /\ cashPage.target = {s.amends} BY <3>1, <3>3 DEF CashIInv, SentIsKept
      <4> QED BY <1>5, <1>9, <2>2, <3>1, <3>3, <4>1
    <3> QED BY <3>2, <3>3
  <2>3. q.reply \in {"closed", "superseded"} => entries'[q.id] = {}
    <3>1. q.reply # "ok" => ~CashBook!IsStored(s.id) BY <1>4 DEF CashBook!Outcome, CashBook!IsReplay
    <3> QED BY <1>4, <1>9, <3>1 DEF CashBook!IsStored
  <2>4. CashBook!NothingSavedIsTrue' BY <1>6, <2>3 DEF CashBook!NothingSavedIsTrue, CashBook!IsStored
  <2>5. CashBook!ReviewIsStored' BY <1>6, <2>2 DEF CashBook!ReviewIsStored
  <2> QED BY <1>6, <2>1, <2>4, <2>5 DEF KeptIsStored
<1> QED BY <1>10, <1>11, <1>12 DEF CashIInv

(* Others record and amend entries, and open and close days.               *)
LEMMA CashElsewhere ==
  ASSUME CashIInv, CashBook!Elsewhere
  PROVE  CashIInv'
<1>1. DOMAIN cashPage = CashPageFields /\ entryIds \in Nat /\ DOMAIN entries = CashBook!Id BY DEF CashIInv, EntryTypes
<1>2. /\ cashPage' = cashPage
      /\ \/ entries' = entries /\ entryIds' = entryIds
         \/ entryIds + 1 \in CashBook!Id /\ entryIds' = entryIds + 1 /\ \E row :
              entries' = [entries EXCEPT ![entryIds + 1] = {row}]
  BY DEF CashBook!Elsewhere
<1>3. entryIds' \in Nat /\ (\A i : IdIsMade(i) => IdIsMade(i)')
  <2>1. entryIds' \in Nat /\ entryIds <= entryIds' BY <1>1, <1>2
  <2> QED BY <1>1, <2>1 DEF IdIsMade, CashBook!Id
<1>4. DOMAIN entries' = CashBook!Id /\ \A i \in CashBook!Id : IdIsMade(i) => entries'[i] = entries[i]
  BY <1>1, <1>2 DEF IdIsMade
<1>5. \A i \in CashBook!Id : entries'[i] # {} => IdIsMade(i)'
  <2>1. CASE entries' = entries BY <1>3, <2>1 DEF CashIInv, EntryTypes
  <2>2. CASE entryIds + 1 \in CashBook!Id /\ entryIds' = entryIds + 1 /\ \E row :
               entries' = [entries EXCEPT ![entryIds + 1] = {row}]
    <3>1. \A i : i = entryIds + 1 => IdIsMade(i)' BY <1>1, <2>2 DEF IdIsMade, CashBook!Id
    <3> QED BY <1>1, <1>3, <2>2, <3>1 DEF CashIInv, EntryTypes
  <2> QED BY <1>2, <2>1, <2>2
<1>6. EntryTypes' BY <1>2, <1>3, <1>4, <1>5 DEF CashIInv, EntryTypes, CashBook!Id
<1>7. SentIsKept' BY <1>2 DEF CashIInv, SentIsKept
<1>8. KeptIsStored'
  <2>1. /\ \A x \in cashPage.retryIdentity : entries'[x.id] = entries[x.id]
        /\ \A r \in cashPage.review : entries'[r.id] = entries[r.id]
        /\ \A s \in cashPage.sending : entries'[s.id] = entries[s.id]
    BY <1>4 DEF CashIInv, EntryTypes, IdIsMade
  <2> QED BY <1>2, <2>1 DEF CashIInv, KeptIsStored, CashBook!ReviewIsStored, CashBook!NothingSavedIsTrue,
       CashBook!IsStored
<1> QED BY <1>6, <1>7, <1>8 DEF CashIInv

(* The answer arrives, or not.                                             *)
LEMMA CashAnswered ==
  ASSUME CashIInv, CashBook!Answered \/ CashBook!Lost
  PROVE  CashIInv'
<1>1. DOMAIN cashPage = CashPageFields /\ entries' = entries /\ entryIds' = entryIds BY DEF CashIInv, EntryTypes,
     CashBook!Answered, CashBook!Lost
<1>2. /\ DOMAIN cashPage' = CashPageFields /\ cashPage'.sending = {}
      /\ cashPage'.retryIdentity = cashPage.retryIdentity \/ cashPage'.retryIdentity = {}
      /\ (cashPage'.review = cashPage.review /\ cashPage'.target = cashPage.target) \/
           (cashPage'.review = {} /\ cashPage'.target = {})
  <2>1. CASE CashBook!Lost BY <1>1, <2>1 DEF CashBook!Lost, CashPageFields
  <2>2. CASE CashBook!Answered
    <3>1. PICK r \in cashPage.sending :
            cashPage' = IF r.op = "amend" THEN [CashBook!NoAmendment EXCEPT !.sending = {}, !.status = "loading"]
                        ELSE IF r.reply = "ok"
                        THEN [cashPage EXCEPT !.sending = {}, !.form = {}, !.retryIdentity = {},
                          !.movements = CashBook!MovementsWith(r.id)]
                        ELSE [cashPage EXCEPT !.sending = {}, !.status = "loading"]
      BY <2>2 DEF CashBook!Answered
    <3>2. CASE r.op = "amend"
      <4> DEFINE none == CashBook!NoAmendment
      <4>1. DOMAIN none = CashPageFields /\ none.review = {} /\ none.target = {} /\
              none.retryIdentity = cashPage.retryIdentity
        BY <1>1 DEF CashBook!NoAmendment, CashPageFields
      <4>2. cashPage' = [none EXCEPT !.sending = {}, !.status = "loading"] BY <3>1, <3>2
      <4> HIDE DEF none
      <4> QED BY <4>1, <4>2 DEF CashPageFields
    <3>3. CASE r.op # "amend" BY <1>1, <3>1, <3>3 DEF CashPageFields
    <3> QED BY <3>2, <3>3
  <2> QED BY <2>1, <2>2
<1>3. EntryTypes' BY <1>1, <1>2 DEF CashIInv, EntryTypes, IdIsMade, CashBook!Id
<1>4. SentIsKept' BY <1>2 DEF CashIInv, SentIsKept
<1>5. KeptIsStored' BY <1>1, <1>2 DEF CashIInv, KeptIsStored, CashBook!ReviewIsStored, CashBook!NothingSavedIsTrue,
     CashBook!IsStored
<1> QED BY <1>3, <1>4, <1>5 DEF CashIInv

(* The invariant holds throughout.                                         *)
THEOREM CashInvariant == CashBook!Spec => []CashIInv
<1>1. CashIInv /\ [CashBook!Next]_(CashBook!vars) => CashIInv'
  <2> SUFFICES ASSUME CashIInv, [CashBook!Next]_(CashBook!vars) PROVE CashIInv' OBVIOUS
  <2>1. CASE CashBook!Loaded \/ CashBook!LoadFailed \/ CashBook!Retry \/ UNCHANGED CashBook!vars BY <2>1, CashLoads
  <2>2. ASSUME NEW v \in EntryValue, CashBook!Fill(v) \/ CashBook!ChangeDraft(v) PROVE CashIInv' BY <2>2, CashFilled
  <2>3. CASE CashBook!StartAmendment \/ CashBook!ReviewAmendment \/ CashBook!Edit \/ CashBook!Cancel BY <2>3,
       CashFilled
  <2>4. CASE CashBook!Submit \/ CashBook!ConfirmAmendment BY <2>4, CashSent
  <2>5. CASE CashBook!Serve BY <2>5, CashServed
  <2>6. CASE CashBook!Elsewhere BY <2>6, CashElsewhere
  <2>7. CASE CashBook!Answered \/ CashBook!Lost BY <2>7, CashAnswered
  <2> QED BY <2>1, <2>2, <2>3, <2>4, <2>5, <2>6, <2>7 DEF CashBook!Next
<1> QED BY <1>1, CashStarts, PTL DEF CashBook!Spec

(* An entry sent again is the one in the form, a review's correction the   *)
(* one reviewed, and what is said not to be saved is not.                  *)
THEOREM CashHolds == CashBook!Spec => []CashBook!CashPageInv
<1>1. CashIInv => CashBook!CashPageInv
  <2> SUFFICES ASSUME CashIInv PROVE CashBook!CashPageInv OBVIOUS
  <2>1. ASSUME NEW x \in cashPage.retryIdentity, NEW v \in cashPage.form, CashBook!RetriedId(v) = {x.id},
                 NEW e \in entries[x.id]
        PROVE  e.value = v
    <3>1. PICK y \in cashPage.retryIdentity : y.signature = v BY <2>1 DEF CashBook!RetriedId
    <3>2. y = x BY DEF CashIInv, EntryTypes
    <3> QED BY <3>1, <3>2 DEF CashIInv, KeptIsStored
  <2>2. CashBook!EntryIsTheForm BY <2>1 DEF CashBook!EntryIsTheForm
  <2> QED BY <2>2 DEF CashIInv, KeptIsStored, CashBook!CashPageInv
<1> QED BY <1>1, CashInvariant, PTL
-----------------------------------------------------------------------------
(* The pages side by side.                                                 *)

(* The id a tablet keeps names the order it shows, and a void that is made *)
(* again, by any of the tablets, is a replay.                              *)
THEOREM TakeOrderOfThePages == PagesSpec => []TakeOrderInv
BY TakeOrderHolds, PTL DEF PagesSpec, TakeOrderInv

(* What a count sheet, a week's schedule and a day's pay hold agrees with  *)
(* what they say of it.                                                    *)
THEOREM FormsOfThePages == PagesSpec => []FormsInv
<1>1. SchedulePageIInv => Schedule!SchedulePageInv
  BY DEF SchedulePageIInv
<1>2. Schedule!Spec => []Schedule!SchedulePageInv
  BY <1>1, ScheduleInvariant, PTL
<1> QED BY <1>2, SheetHolds, PayHolds, PTL DEF PagesSpec, FormsInv

(* An attempt to close a day closes it once, and as the form says.         *)
THEOREM LedgersOfThePages == PagesSpec => []LedgerPagesInv
BY DaysHold, HistoryHolds, LedgerHolds, CashHolds, PTL DEF PagesSpec, LedgerPagesInv

(* What was typed, and the id of an attempt, outlive fills and errors.     *)
THEOREM FormsStayAsTyped == PagesSpec => FormsAreKept
BY TouchedHolds, AttemptsHold, TypedRowsHold, TypedHolds, PTL DEF PagesSpec, FormsAreKept

(* What a page shows once it has loaded is for what was chosen last.       *)
THEOREM LoadsOfThePages == PagesSpec => LoadsAreForWhatIsChosen
BY SchedLoads, ProductsLoads, SessionsHold, PTL DEF PagesSpec, LoadsAreForWhatIsChosen
=============================================================================
