------------------------------ MODULE OrderBook ------------------------------
(***************************************************************************)
(* What the API promises of its orders (orders.service.ts) and of its      *)
(* business days (trading-day.service.ts): a call takes effect at one      *)
(* instant, on the orders as they are at that instant, or not at all.  An  *)
(* order is parked, then completed, then perhaps voided, or it is gone     *)
(* when its last line is.  The promise does not reach an order whose name  *)
(* an order bore that is gone: a call that waited for the gone one may     *)
(* change the other out of turn.                                           *)
(***************************************************************************)
EXTENDS Integers

CONSTANTS
  Request,  \* the calls' names, which are also those of the orders they ring up
  Day,      \* business days
  FirstDay, \* the one that is open initially
  MaxQty,   \* largest quantity a client names for a line
  Tip, Owed, \* cash tips and withheld change a tender may leave
  Calls     \* the calls each request may be

VARIABLES
  days,    \* the state of each day
  orders,  \* the order that each request rang up
  asked,   \* the call that each request makes and that has no answer yet
  answered \* the requests that have been answered

vars == <<days, orders, asked, answered>>

Nothing == [state |-> "none"]
OrderWith(state, name, day, qty, cash, online, tip, owed, settled) ==
  [state |-> state, name |-> name, day |-> day, qty |-> qty, cash |-> cash,
   online |-> online, tip |-> tip, owed |-> owed, settled |-> settled]
InState(o, state) ==
  OrderWith(state, o.name, o.day, o.qty, o.cash, o.online, o.tip, o.owed, o.settled)
WithQty(o, q) ==
  OrderWith(o.state, o.name, o.day, q, o.cash, o.online, o.tip, o.owed, o.settled)

IsThere(t) == orders[t].state \in {"parked", "completed", "voided"}
Reused(t) ==
  /\ orders[t] # Nothing
  /\ \E u \in Request : u # t /\ orders[u].state = "gone" /\ orders[u].name = orders[t].name

Init ==
  /\ days = [d \in Day |-> IF d = FirstDay THEN "OPEN" ELSE "NONE"]
  /\ orders = [t \in Request |-> Nothing]
  /\ asked = [r \in Request |-> {}] /\ answered = {}

Ask(r) ==
  /\ r \notin answered /\ asked[r] = {}
  /\ \E c \in Calls[r] : asked' = [asked EXCEPT ![r] = {c}]
  /\ UNCHANGED <<days, orders, answered>>

Answer(r) ==
  /\ asked[r] # {} /\ asked' = [asked EXCEPT ![r] = {}]
  /\ answered' = answered \cup {r}

(* A new order, on the open day, under a name that no order bears.         *)
Ring(r, c) ==
  /\ c.op = "create" /\ orders[r] = Nothing
  /\ \A t \in Request : IsThere(t) => orders[t].name # c.cid
  /\ \E d \in Day, q \in 1 .. MaxQty :
       /\ days[d] = "OPEN"
       /\ orders' = [orders EXCEPT ![r] = OrderWith("parked", c.cid, d, q, 0, 0, 0, 0, FALSE)]
  /\ UNCHANGED days

(* The quantities that a call makes of the order's.                        *)
QtyAfter(op, qty) ==
  CASE op = "addLine" -> {qty + k : k \in 1 .. MaxQty}
    [] op = "incrementLine" -> {qty + 1}
    [] op = "updateLine" -> 1 .. MaxQty
    [] op = "decrementLine" -> {qty - 1}
    [] op = "removeLine" -> {0}
    [] OTHER -> {qty}

Edit(r, c, t) ==
  /\ c.op \in {"update", "addLine", "incrementLine", "updateLine", "decrementLine", "removeLine"}
  /\ orders[t].state = "parked" /\ orders[t].name = c.cid
  /\ \E q \in QtyAfter(c.op, orders[t].qty) :
       orders' = [orders EXCEPT ![t] = IF q = 0 THEN InState(@, "gone") ELSE WithQty(@, q)]
  /\ UNCHANGED days

(* The tender pays for what the order holds.                               *)
Complete(r, c, t) ==
  /\ c.op = "complete" /\ orders[t].state = "parked" /\ orders[t].name = c.cid
  /\ \E cash \in 0 .. orders[t].qty, tip \in Tip, owed \in Owed \cup {0} :
       /\ cash = 0 => owed = 0
       /\ orders' = [orders EXCEPT ![t] =
            OrderWith("completed", @.name, @.day, @.qty, cash, @.qty - cash, tip, owed, @.settled)]
  /\ UNCHANGED days

Settle(r, c, t) ==
  /\ c.op = "settleChange" /\ orders[t].state \in {"completed", "voided"} /\ orders[t].name = c.cid
  /\ orders[t].owed > 0 /\ ~orders[t].settled
  /\ orders' = [orders EXCEPT ![t] =
       OrderWith(@.state, @.name, @.day, @.qty, @.cash, @.online, @.tip, @.owed, TRUE)]
  /\ UNCHANGED days

(* A completed order is voided, by the staff on its own day only.          *)
Void(r, c, t) ==
  /\ c.op = "void" /\ orders[t].state = "completed" /\ orders[t].name = c.cid
  /\ \E d \in Day : days[d] = "OPEN" /\ (c.role = "STAFF" => orders[t].day = d)
  /\ orders' = [orders EXCEPT ![t] = InState(@, "voided")]
  /\ UNCHANGED days

Open(r, c) ==
  /\ c.op = "open" /\ \A d \in Day : days[d] # "OPEN"
  /\ \E d \in Day : days[d] = "NONE" /\ days' = [days EXCEPT ![d] = "OPEN"]
  /\ UNCHANGED orders

Close(r, c) ==
  /\ c.op = "close"
  /\ \E d \in Day : days[d] = "OPEN" /\ days' = [days EXCEPT ![d] = "CLOSED"]
  /\ UNCHANGED orders

Refuse(r) == UNCHANGED <<days, orders>>

(* Where a name was used again: one of its orders changes, out of turn.    *)
Mistake(t) ==
  /\ Reused(t)
  /\ \A u \in Request \ {t} : orders'[u] = orders[u]
  /\ orders'[t].name = orders[t].name /\ orders'[t].day = orders[t].day
  /\ UNCHANGED days

Effect(r, c) ==
  \/ Ring(r, c) \/ Open(r, c) \/ Close(r, c) \/ Refuse(r)
  \/ \E t \in Request :
       Edit(r, c, t) \/ Complete(r, c, t) \/ Settle(r, c, t) \/ Void(r, c, t) \/ Mistake(t)

Next == \E r \in Request : Ask(r) \/ (Answer(r) /\ \E c \in asked[r] : Effect(r, c))

Spec == Init /\ [][Next]_vars
=============================================================================
