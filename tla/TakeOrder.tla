------------------------------ MODULE TakeOrder -------------------------------
(***************************************************************************)
(* TakeOrderPage.tsx on several tablets: a cashier taps items into an      *)
(* order, parks it, resumes one that any tablet parked, charges and voids, *)
(* one request at a time, while answers may be lost.  An order goes by the *)
(* id its tablet made up, and the page makes up a new one whenever the     *)
(* last may be in use.  The server is OrdersService, one step a request;   *)
(* OrderCapture has its steps.                                             *)
(***************************************************************************)
EXTENDS Naturals, FiniteSets

CONSTANTS
  Tablet,  \* tablets: 1 .. n
  MaxId,   \* bound on the ids that tablets make up
  MaxTaps, \* bound on the requests
  MaxItems \* bound on an order's items

VARIABLES
  stored, \* orders by id: items, status and the ids of their voids
  used,   \* number of ids made up so far
  page,   \* by tablet, what TakeOrderPage keeps
  taps,   \* number of requests so far
  unsure  \* ids whose create was not answered

vars == <<stored, used, page, taps, unsure>>

TabletsAreNumbered == MaxId \in Nat /\ \E n \in 0 .. MaxId : Tablet = 1 .. n

Id == 1 .. MaxId
NextId == used + 1

NoOrder == [items |-> 0, status |-> "NONE", voids |-> {}]
(* order is the order shown, at most one, parkedOrders the last list, and  *)
(* pending the request on its way with its reply; tried, the ids sent to   *)
(* void the order shown, is kept for the property only.                    *)
Fresh(i) ==
  [clientGeneratedId |-> i, order |-> {}, parkedOrders |-> {}, voidId |-> {}, tried |-> {}, pending |-> {}]
Snapshot(i) == [id |-> i, items |-> stored[i].items, status |-> stored[i].status]
Parked == {Snapshot(i) : i \in {j \in Id : stored[j].status = "PARKED"}}

Init ==
  /\ stored = [i \in Id |-> NoOrder] /\ taps = 0 /\ unsure = {}
  /\ page = [t \in Tablet |-> Fresh(t)] /\ used = Cardinality(Tablet)

IsIdle(t) == page[t].pending = {}
Shows(t, status) == \E o \in page[t].order : o.status = status

Send(t, op, i, v) ==
  /\ IsIdle(t) /\ taps < MaxTaps /\ taps' = taps + 1
  /\ LET p == page[t] IN page' = [page EXCEPT ![t] =
       [p EXCEPT !.pending = {[op |-> op, id |-> i, void |-> v, reply |-> "none", result |-> {}]},
                 !.voidId = IF op = "void" THEN {v} ELSE p.voidId,
                 !.tried = IF op = "void" THEN p.tried \cup {v} ELSE p.tried]]
  /\ UNCHANGED <<stored, unsure>>

-----------------------------------------------------------------------------

(* addVariant: the first item creates the order.                           *)
AddVariant(t) ==
  /\ ~Shows(t, "COMPLETED") /\ UNCHANGED used
  /\ IF page[t].order = {} THEN Send(t, "create", page[t].clientGeneratedId, 0)
     ELSE \E o \in page[t].order : Send(t, "add", o.id, 0)

(* changeLine with decrement or remove                                     *)
RemoveItem(t) ==
  \E o \in page[t].order : o.status = "PARKED" /\ Send(t, "remove", o.id, 0) /\ UNCHANGED used

(* completeCurrentOrder, from the charge sheet                             *)
Charge(t) ==
  \E o \in page[t].order :
    o.status = "PARKED" /\ o.items # 0 /\ Send(t, "complete", o.id, 0) /\ UNCHANGED used

(* Mutant: each attempt to void makes up an id.                            *)
FreshVoidId(t) == {NextId}

(* voidCurrentOrder: an attempt that is made again keeps its id.           *)
VoidId(t) == IF page[t].voidId # {} THEN page[t].voidId ELSE {NextId}

Void(t) ==
  \E o \in page[t].order, v \in VoidId(t) :
    /\ o.status = "COMPLETED" /\ v \in Id /\ Send(t, "void", o.id, v)
    /\ used' = IF v = NextId THEN v ELSE used

(* clearDraft(false): the next order has an id of its own; the list is     *)
(* loaded again, or it fails to be.                                        *)
NewDraft(t) ==
  \E list \in {page[t].parkedOrders, Parked} :
    /\ NextId \in Id /\ used' = NextId
    /\ page' = [page EXCEPT ![t] = [Fresh(NextId) EXCEPT !.parkedOrders = list]]

(* parkCurrentOrder and startNewOrder                                      *)
ParkOrStartNew(t) == IsIdle(t) /\ NewDraft(t) /\ UNCHANGED <<stored, taps, unsure>>

ResumedId(t, o) == o.id

(* resumeOrder: the order as it was listed.                                *)
Resume(t) ==
  /\ IsIdle(t) /\ page[t].order = {}
  /\ \E o \in page[t].parkedOrders :
       page' = [page EXCEPT ![t] = [@ EXCEPT !.order = {o}, !.clientGeneratedId = ResumedId(t, o)]]
  /\ UNCHANGED <<stored, used, taps, unsure>>

(* The page is loaded again: what it kept is gone.                         *)
Reload(t) == NewDraft(t) /\ UNCHANGED <<stored, taps, unsure>>

-----------------------------------------------------------------------------
(* The server takes a request and replies.                                 *)

Changed(r) ==
  CASE r.op = "create" /\ stored[r.id] = NoOrder -> [NoOrder EXCEPT !.items = 1, !.status = "PARKED"]
    [] r.op = "add" /\ stored[r.id].items < MaxItems -> [stored[r.id] EXCEPT !.items = @ + 1]
    [] r.op = "remove" -> IF stored[r.id].items = 1 THEN NoOrder ELSE [stored[r.id] EXCEPT !.items = @ - 1]
    [] r.op = "complete" -> [stored[r.id] EXCEPT !.status = "COMPLETED"]
    [] r.op = "void" -> [stored[r.id] EXCEPT !.voids = @ \cup {r.void}]
    [] OTHER -> stored[r.id]

(* A create, a completion and a void that were done before are replayed.   *)
IsAllowed(r) ==
  CASE r.op = "create" -> TRUE
    [] r.op = "complete" -> stored[r.id] # NoOrder
    [] r.op = "void" -> stored[r.id].status = "COMPLETED" /\ stored[r.id].voids \subseteq {r.void}
    [] OTHER -> stored[r.id].status = "PARKED"

Serve(t) == \E r \in page[t].pending :
  /\ r.reply = "none"
  /\ stored' = IF IsAllowed(r) THEN [stored EXCEPT ![r.id] = Changed(r)] ELSE stored
  /\ page' = [page EXCEPT ![t].pending =
                {[r EXCEPT !.reply = IF IsAllowed(r) THEN "ok" ELSE "refused",
                           !.result = IF stored'[r.id] = NoOrder THEN {}
                                      ELSE {[id |-> r.id, items |-> stored'[r.id].items, status |-> stored'[r.id].status]}]}]
  /\ UNCHANGED <<used, taps, unsure>>

(* runOrderMutation: null means that the order was emptied and discarded;  *)
(* the page then keeps the order's id for the next one.                    *)
Answered(t) == \E r \in page[t].pending :
  /\ r.reply # "none"
  /\ page' = [page EXCEPT ![t] = [@ EXCEPT !.pending = {}, !.order = IF r.reply = "ok" THEN r.result ELSE page[t].order]]
  /\ UNCHANGED <<stored, used, taps, unsure>>

(* The request or its answer is lost: the page shows an error.             *)
Lost(t) == \E r \in page[t].pending :
  /\ page' = [page EXCEPT ![t].pending = {}]
  /\ unsure' = IF r.op = "create" THEN unsure \cup {r.id} ELSE unsure
  /\ UNCHANGED <<stored, used, taps>>

Next ==
  \E t \in Tablet :
    \/ AddVariant(t) \/ RemoveItem(t) \/ Charge(t) \/ Void(t)
    \/ ParkOrStartNew(t) \/ Resume(t) \/ Reload(t)
    \/ Serve(t) \/ Answered(t) \/ Lost(t)
Spec == Init /\ [][Next]_vars

-----------------------------------------------------------------------------

(* The page shows one order at most and waits for one answer at most.      *)
TypeOK == \A t \in Tablet :
  Cardinality(page[t].order) <= 1 /\ Cardinality(page[t].pending) <= 1 /\ page[t].clientGeneratedId <= used

(* The order shown is the one the page's id names, which a discard leaves  *)
(* for the next order: another id would be that of an order still there.   *)
IdNamesTheOrder == \A t \in Tablet : \A o \in page[t].order : o.id = page[t].clientGeneratedId

(* With no order shown, the id the first item will be sent with names no   *)
(* order, unless a create went unanswered: the server would answer with    *)
(* that order, of other customers, and drop the item.                      *)
FirstItemStartsAnOrder ==
  \A t \in Tablet :
    IsIdle(t) /\ page[t].order = {} /\ page[t].clientGeneratedId \notin unsure
      => stored[page[t].clientGeneratedId] = NoOrder

(* An attempt to void that is made again after a lost answer is answered   *)
(* with the void that was stored, not refused for it.                      *)
VoidsAreReplayed ==
  \A t \in Tablet : \A r \in page[t].pending :
    r.op = "void" /\ r.reply = "refused" => stored[r.id].voids \cap page[t].tried = {}

(* The parts above, for the run of all counter parts.                      *)
TakeOrderInv == IdNamesTheOrder /\ FirstItemStartsAnOrder /\ VoidsAreReplayed
==============================================================================
