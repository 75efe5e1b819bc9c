---------------------------- MODULE StaffHistory -----------------------------
(***************************************************************************)
(* StaffOrderHistoryPage.tsx on a tablet: the orders of one business day,  *)
(* whose change is handed over and which are voided while their day is     *)
(* open.  The day and the filters are the page's address; it is rendered,  *)
(* and the ledger loaded, some time after its address changes.  Each day   *)
(* has one order, which goes by the day.                                   *)
(***************************************************************************)
EXTENDS Integers, FiniteSets

CONSTANTS
  Day,      \* business days; the last one is open at first
  Status,   \* statuses to filter by; "" is none
  MaxMoves  \* bound on what is done at the tablet and elsewhere

VARIABLES
  orders,   \* as stored, by day: [void, settled], void the id of its void if it has one
  open,     \* the open day, if any
  url,      \* the page's address: [day, status]; day 0 is none
  rendered, \* the one it was rendered with
  days,     \* what was loaded of the business days, if anything: the open one or 0
  daysLoad, \* the load of the days: "failed", "done" or "asked"
  asked,    \* the address it was started with
  key,      \* the ledger that was asked for last: <<day, status, attempt>>
  attempt,
  ledger,   \* the ledger that is kept, if any: [key, rows]
  loads,    \* loads of ledgers on their way: [key, active, read, rows]
  failed,   \* whether the last load failed
  target,   \* the order the void dialog is about, if it is open
  ids,      \* by order, the id its void goes by, once it has one
  busy,     \* what is being sent: "settle", "void"
  requests, \* settlements and voids on their way: [op, order, id, step]
  tried,    \* [order, id] of the voids that were sent
  missed,   \* whether the ledger may have missed a write since it was asked for
  moves

shop == <<orders, open>>
address == <<url, rendered, days, daysLoad, asked>>
shown == <<key, attempt, ledger, loads, failed>>
dialog == <<target, ids>>
sent == <<busy, requests, tried>>
vars == <<shop, address, shown, dialog, sent, missed, moves>>

Last == CHOOSE d \in Day : \A e \in Day : e <= d
NoDay == [day |-> 0, status |-> ""]
Moved == moves < MaxMoves /\ moves' = moves + 1

Init ==
  /\ orders = [d \in Day |-> [void |-> {}, settled |-> FALSE]] /\ open = {Last}
  /\ url = NoDay /\ rendered = NoDay /\ days = {} /\ daysLoad = "asked" /\ asked = NoDay
  /\ key = <<0, "", 0>> /\ attempt = 0 /\ ledger = {} /\ loads = {} /\ failed = FALSE
  /\ target = {} /\ ids = [d \in Day |-> {}] /\ busy = {} /\ requests = {} /\ tried = {}
  /\ missed = FALSE /\ moves = 0

-----------------------------------------------------------------------------
(* The days, and the address.                                              *)

DefaultDay(o) == IF o = 0 THEN Last ELSE o
Selected(params) ==
  IF days = {} THEN 0 ELSE IF params.day # 0 THEN params.day
    ELSE CHOOSE d \in Day : \E o \in days : d = DefaultDay(o)
KeyOf(params) == <<Selected(params), params.status, attempt>>

DaysLoaded ==
  /\ daysLoad = "asked" /\ daysLoad' = "done" /\ days' = {IF open = {} THEN 0 ELSE CHOOSE d \in open : TRUE}
  /\ url' = IF asked.day = 0 THEN [asked EXCEPT !.day = CHOOSE d \in Day : \E o \in days' : d = DefaultDay(o)]
            ELSE url
  /\ UNCHANGED <<shop, rendered, asked, shown, dialog, sent, missed, moves>>

DaysFailed ==
  /\ daysLoad = "asked" /\ daysLoad' = "failed"
  /\ UNCHANGED <<shop, url, rendered, days, asked, shown, dialog, sent, missed, moves>>

RetryDays ==
  /\ Moved /\ daysLoad = "failed" /\ daysLoad' = "asked" /\ asked' = rendered
  /\ UNCHANGED <<shop, url, rendered, days, shown, dialog, sent, missed>>

UpdateParams(params) ==
  /\ Moved /\ target = {} /\ url' = params
  /\ UNCHANGED <<shop, rendered, days, daysLoad, asked, shown, dialog, sent, missed>>
SelectDay(d) == days # {} /\ UpdateParams([rendered EXCEPT !.day = d])
SelectStatus(s) == UpdateParams([rendered EXCEPT !.status = s])

-----------------------------------------------------------------------------
(* The ledger.                                                             *)

(* The effect of a render that asks for another ledger.                    *)
Render ==
  /\ (url # rendered \/ key # KeyOf(url)) /\ rendered' = url /\ key' = KeyOf(url)
  /\ IF key' = key THEN UNCHANGED <<ledger, loads, failed, missed>>
     ELSE /\ ledger' = {} /\ failed' = FALSE /\ missed' = (requests # {})
          /\ loads' = {[l EXCEPT !.active = FALSE] : l \in loads}
                        \cup {[key |-> key', active |-> TRUE, read |-> FALSE, rows |-> <<>>] :
                               d \in {key'[1]} \ {0}}
  /\ UNCHANGED <<shop, url, days, daysLoad, asked, attempt, dialog, sent, moves>>
IsLoading == \E l \in loads : l.active

StatusOf(d) == IF orders[d].void # {} THEN "Void" ELSE "Completed"
ReadLedger(l) ==
  /\ ~l.read /\ UNCHANGED <<shop, address, key, attempt, ledger, failed, dialog, sent, missed, moves>>
  /\ LET matching == {d \in {l.key[1]} : l.key[2] \in {"", StatusOf(d)}}
     IN loads' = (loads \ {l}) \cup
          {[l EXCEPT !.read = TRUE,
                      !.rows = [d \in matching |-> [status |-> StatusOf(d), settled |-> orders[d].settled]]]}

(* Mutant: the ledger of an earlier day or filter is kept.                 *)
AnyLoad(l) == TRUE

IsActive(l) == l.active

LedgerLoaded(l) ==
  /\ l.read /\ loads' = loads \ {l}
  /\ ledger' = IF IsActive(l) THEN {[key |-> l.key, rows |-> l.rows]} ELSE ledger
  /\ UNCHANGED <<shop, address, key, attempt, failed, dialog, sent, missed, moves>>

LedgerFailed(l) ==
  /\ loads' = loads \ {l} /\ failed' = (failed \/ IsActive(l))
  /\ UNCHANGED <<shop, address, key, attempt, ledger, dialog, sent, missed, moves>>

RetryLedger ==
  /\ Moved /\ failed /\ attempt' = attempt + 1
  /\ UNCHANGED <<shop, address, key, ledger, loads, failed, dialog, sent, missed>>

Rows == UNION {DOMAIN l.rows : l \in {k \in ledger : k.key = key}}
Row(d) == (CHOOSE l \in ledger : TRUE).rows[d]

-----------------------------------------------------------------------------
(* Change handed over, and voids.                                          *)

Send(r) ==
  /\ Moved /\ r.op \notin busy /\ busy' = busy \cup {r.op}
  /\ requests' = requests \cup {r} /\ missed' = (missed \/ IsLoading)
  /\ UNCHANGED <<shop, address, shown, target>>

ConfirmHandover(d) ==
  /\ Row(d).status = "Completed" /\ ~Row(d).settled /\ target = {}
  /\ Send([op |-> "settle", order |-> d, id |-> 0, step |-> "sent"]) /\ UNCHANGED <<ids, tried>>

CanVoid == days # {0} /\ days = {Selected(rendered)}
OpenVoid(d) ==
  /\ Row(d).status = "Completed" /\ CanVoid /\ target = {} /\ target' = {d}
  /\ UNCHANGED <<shop, address, shown, ids, sent, missed, moves>>

CloseVoid ==
  /\ "void" \notin busy /\ target # {} /\ target' = {}
  /\ UNCHANGED <<shop, address, shown, ids, sent, missed, moves>>

Unused == {n \in 1 .. MaxMoves : ~\E t \in tried : t.id = n}
Fresh == CHOOSE n \in Unused : \A k \in Unused : n <= k

(* Mutant: a void that is sent again has another id.                       *)
AnotherId(d) == Fresh

VoidId(d) == IF ids[d] = {} THEN Fresh ELSE CHOOSE n \in ids[d] : TRUE

ConfirmVoid(d) ==
  /\ Send([op |-> "void", order |-> d, id |-> VoidId(d), step |-> "sent"])
  /\ ids' = [ids EXCEPT ![d] = {VoidId(d)}] /\ tried' = tried \cup {[order |-> d, id |-> VoidId(d)]}

(* settleChange answers again what was settled; void is OrdersService's.   *)
Serve(r) ==
  /\ r.step = "sent" /\ UNCHANGED <<open, address, shown, dialog, busy, tried, missed, moves>>
  /\ LET done == r.op = "settle" \/ r.id \in orders[r.order].void
       \/ (orders[r.order].void = {} /\ r.order \in open)
     IN /\ requests' = (requests \ {r}) \cup {[r EXCEPT !.step = IF done THEN "done" ELSE "refused"]}
        /\ orders' = IF ~done THEN orders
                     ELSE IF r.op = "settle" THEN [orders EXCEPT ![r.order].settled = TRUE]
                     ELSE [orders EXCEPT ![r.order].void = {r.id}]

Written(r, row) == IF r.op = "settle" THEN [row EXCEPT !.settled = TRUE] ELSE [row EXCEPT !.status = "Void"]

Answered(r) ==
  /\ r.step = "done" /\ requests' = requests \ {r} /\ busy' = busy \ {r.op}
  /\ ledger' = {[l EXCEPT !.rows = [d \in DOMAIN l.rows |-> IF d = r.order THEN Written(r, l.rows[d])
                                    ELSE l.rows[d]]] : l \in ledger}
  /\ target' = IF r.op = "void" THEN {} ELSE target
  /\ UNCHANGED <<shop, address, key, attempt, loads, failed, ids, tried, missed, moves>>

(* It was refused, never served, or its answer is lost.                    *)
Failed(r) ==
  /\ requests' = requests \ {r} /\ busy' = busy \ {r.op} /\ missed' = (missed \/ r.step = "done")
  /\ UNCHANGED <<shop, address, shown, dialog, tried, moves>>

(* At another tablet an order is settled or voided, or the day is closed.  *)
Elsewhere ==
  /\ Moved /\ missed' = TRUE /\ UNCHANGED <<address, shown, dialog, sent>>
  /\ \/ open # {} /\ open' = {} /\ UNCHANGED orders
     \/ /\ \E d \in Day : ~orders[d].settled /\ orders' = [orders EXCEPT ![d].settled = TRUE]
        /\ UNCHANGED open
     \/ /\ \E d \in open : orders[d].void = {} /\ orders' = [orders EXCEPT ![d].void = {0}]
        /\ UNCHANGED open

Next ==
  \/ DaysLoaded \/ DaysFailed \/ RetryDays \/ Render \/ RetryLedger \/ CloseVoid \/ Elsewhere
  \/ \E d \in Day : SelectDay(d)
  \/ \E s \in Status : SelectStatus(s)
  \/ \E l \in loads : ReadLedger(l) \/ LedgerLoaded(l) \/ LedgerFailed(l)
  \/ \E d \in Rows : ConfirmHandover(d) \/ OpenVoid(d)
  \/ \E d \in target : ConfirmVoid(d)
  \/ \E r \in requests : Serve(r) \/ Answered(r) \/ Failed(r)
Spec == Init /\ [][Next]_vars

-----------------------------------------------------------------------------

(* Once nothing is loading, the ledger kept is the one last asked for: the *)
(* page never goes on loading, or shows another day's orders.              *)
LedgerIsCurrent == ~IsLoading /\ ~failed /\ key[1] # 0 => {l.key : l \in ledger} = {key}

(* What a row says was handed over or voided is stored, and what is stored *)
(* is said, unless an answer was lost or the write met a load or another.  *)
RowsAreStored ==
  \A l \in ledger : \A d \in DOMAIN l.rows :
    /\ l.rows[d].settled => orders[d].settled
    /\ l.rows[d].status = "Void" => orders[d].void # {}
    /\ ~IsLoading /\ requests = {} /\ ~missed =>
         l.rows[d] = [status |-> StatusOf(d), settled |-> orders[d].settled]

(* A void whose answer was lost is answered when it is sent again: what is *)
(* refused was voided by somebody else, or its day is closed.              *)
RefusedForOthersOnly ==
  \A r \in requests :
    r.step = "refused" /\ r.order \in open =>
      \E n \in orders[r.order].void : [order |-> r.order, id |-> n] \notin tried

StaffHistoryInv == LedgerIsCurrent /\ RowsAreStored /\ RefusedForOthersOnly
=============================================================================
