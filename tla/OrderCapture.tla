---------------------------- MODULE OrderCapture ----------------------------
(***************************************************************************)
(* The API requests that capture, complete, void and settle orders, and    *)
(* the requests that open and close the business day, run concurrently     *)
(* against one PostgreSQL database at READ COMMITTED                       *)
(* (apps/api/src/orders/orders.service.ts and                              *)
(* apps/api/src/trading-day/trading-day.service.ts).                       *)
(*                                                                         *)
(* A request is one HTTP call: it starts at any time, with any client id,  *)
(* and advances one database statement (or one run of statements that      *)
(* nobody else can tell apart) per step, so every interleaving of two      *)
(* transactions that the row locks allow is a behaviour.  A request may    *)
(* be aborted at any point of its transaction: Prisma's transaction        *)
(* timeout, a deadlock victim, an API restart, and every rejection that    *)
(* depends on data this module does not hold (an inactive staff member, a  *)
(* product that is not for sale, an invalid tender).  A client that        *)
(* retries is a second request with the same client id.                    *)
(*                                                                         *)
(* An order here has one line of a one-peso product, so its quantity is    *)
(* its subtotal; lines, discounts and upsizes are the subject of           *)
(* OrderLines.                                                             *)
(***************************************************************************)
EXTENDS Integers, FiniteSets, Functions

CONSTANTS
  Request,   \* HTTP requests; the sale row a request inserts bears its name
  ClientId,  \* client-generated ids (uuids) of orders, voids and closings
  Day,       \* rows of trading_days
  FirstDay,  \* the day that is open initially
  Date,      \* business dates
  FirstDate, \* the business date of FirstDay
  MaxQty,    \* largest quantity a client names for a line
  Tip,       \* cash tips a tender may leave
  Owed,      \* withheld change a tender may leave
  Calls,     \* the calls each request may be
  Free       \* owner of an unlocked row

Op == {"create", "update", "addLine", "incrementLine", "updateLine", "decrementLine",
       "removeLine", "complete", "void", "settleChange", "open", "close"}

(* The ids are sets the model knows nothing about; Free is not a request.  *)
ASSUME RequestAssumption == Free \notin Request
ASSUME ClientIdAssumption == ClientId # {}
ASSUME DayAssumption == FirstDay \in Day /\ FirstDate \in Date
ASSUME AmountAssumption == MaxQty \in Nat \ {0} /\ Tip \subseteq Nat /\ Owed \subseteq Nat

(* What a client asks for: an operation on the order cid; the id of the    *)
(* void or the closing it creates; a date to open; the caller's role.      *)
Call == [op : Op, cid : ClientId, other : ClientId, date : Date, role : {"ADMIN", "STAFF"}]
ASSUME CallsAssumption == Calls \in [Request -> SUBSET Call]

VARIABLES
  day,      \* trading_days
  sale,     \* sales with their line and payments, one row per inserting request
  closing,  \* day_closings, one slot per day
  dayLock,  \* who holds SELECT ... FOR UPDATE on a trading_days row
  saleLock, \* who holds SELECT ... FOR UPDATE on a sales row
  pc,       \* where each request is
  arg,      \* what each request asks for
  seen,     \* what each request has read and still uses
  snap      \* what a close has read of the day's payments and sales

db == <<day, sale, closing>>
vars == <<day, sale, closing, dayLock, saleLock, pc, arg, seen, snap>>

SaleRow == [status : {"NONE", "PARKED", "COMPLETED", "DELETED"},
            kind : {"PURCHASE", "VOID"}, cid : ClientId, day : Day, num : Nat,
            qty : Int, total : Int, cash : Int, online : Int,
            tip : Nat, owed : Nat, settled : BOOLEAN, corrects : Request]

Label == {"idle", "findDay", "lockDay", "insert", "identify", "lockOrder",
          "write", "readDays", "insertDay", "readCash", "done"}

NoClosing == [made |-> FALSE]
Amounts == [Request -> Int]
Closing == [made : {TRUE}, id : ClientId, cash : Amounts, online : Amounts, held : Amounts]
NoAmounts == [t \in Request |-> 0]

(* What a request keeps of its reads.                                      *)
SeenRecord == [row : Request, day : Day, num : Nat, qty : Int, total : Int,
               cash : Int, online : Int]
SnapRecord == [got : SUBSET {"payments", "sales"}, cash : Amounts,
               online : Amounts, held : Amounts]

(* What a request that does not run asks for, has read and has summed.     *)
AnyId == CHOOSE c \in ClientId : TRUE
NoArg == [op |-> "create", cid |-> AnyId, other |-> AnyId, date |-> FirstDate, role |-> "STAFF"]
NothingSeen(r) ==
  [row |-> r, day |-> FirstDay, num |-> 0, qty |-> 0, total |-> 0, cash |-> 0, online |-> 0]
NoSnap == [got |-> {}, cash |-> NoAmounts, online |-> NoAmounts, held |-> NoAmounts]

-----------------------------------------------------------------------------
(* What a statement reads.                                                 *)

(* A row that a query can return.                                          *)
Live(t) == sale[t].status \in {"PARKED", "COMPLETED"}

(* findUnique by the unique client-generated id.                           *)
HasId(t, c) == Live(t) /\ sale[t].cid = c
IdTaken(c) == \E t \in Request : HasId(t, c)

IsOpen(d) == day[d].status = "OPEN"

(* The sales rows of a day.                                                *)
RowsOf(d) == {t \in Request : Live(t) /\ sale[t].day = d}

(* Mutant: void rows are left out of the numbering.                        *)
IsLastPurchaseNumber(m, d) ==
  /\ m = 0 \/ \E t \in RowsOf(d) : sale[t].kind = "PURCHASE" /\ sale[t].num = m
  /\ \A t \in RowsOf(d) : sale[t].kind = "PURCHASE" => sale[t].num <= m

(* findFirst by descending dayOrderNumber, or none.                        *)
IsLastNumber(m, d) ==
  /\ m = 0 \/ \E t \in RowsOf(d) : sale[t].num = m
  /\ \A t \in RowsOf(d) : sale[t].num <= m

IsVoided(t) == \E v \in Request : Live(v) /\ sale[v].kind = "VOID" /\ sale[v].corrects = t

(* What a row contributes to the figures of its day.                       *)
Outstanding(s) == IF s.settled THEN 0 ELSE s.owed

-----------------------------------------------------------------------------
(* The life of a request.                                                  *)

At(r, l) == pc[r] = l
Goto(r, l) == pc' = [pc EXCEPT ![r] = l]

(* Mutant: the lock on the order outlives its transaction.                 *)
FinishKeepingSaleLock(r) ==
  /\ Goto(r, "done")
  /\ dayLock' = [d \in Day |-> IF dayLock[d] = r THEN Free ELSE dayLock[d]]
  /\ UNCHANGED saleLock
  /\ arg' = [arg EXCEPT ![r] = NoArg]
  /\ seen' = [seen EXCEPT ![r] = NothingSeen(r)]
  /\ snap' = [snap EXCEPT ![r] = NoSnap]

(* The transaction ends: by COMMIT or ROLLBACK its row locks are released. *)
Finish(r) ==
  /\ Goto(r, "done")
  /\ dayLock' = [d \in Day |-> IF dayLock[d] = r THEN Free ELSE dayLock[d]]
  /\ saleLock' = [t \in Request |-> IF saleLock[t] = r THEN Free ELSE saleLock[t]]
  /\ arg' = [arg EXCEPT ![r] = NoArg]
  /\ seen' = [seen EXCEPT ![r] = NothingSeen(r)]
  /\ snap' = [snap EXCEPT ![r] = NoSnap]

(* The request ends and leaves the database as it is.                      *)
Answer(r) == Finish(r) /\ UNCHANGED db

FirstLabel(op) ==
  CASE op \in {"create", "close"} -> "findDay"
    [] op = "open" -> "readDays"
    [] OTHER -> "identify"

(* A call arrives.                                                         *)
Start(r) ==
  /\ At(r, "idle")
  /\ \E call \in Calls[r] :
       /\ arg' = [arg EXCEPT ![r] = call]
       /\ Goto(r, FirstLabel(call.op))
  /\ UNCHANGED <<db, dayLock, saleLock, seen, snap>>

(* Transaction timeout, deadlock victim, restart, or a rejection on data   *)
(* outside this module.                                                    *)
Abort(r) ==
  /\ pc[r] \notin {"idle", "done"}
  /\ Answer(r)

-----------------------------------------------------------------------------
(* create                                                                  *)

(* The replay lookups and the search for the open day.                     *)
CreateFindDay(r) ==
  /\ At(r, "findDay") /\ arg[r].op = "create"
  /\ \/ /\ ~IdTaken(arg[r].cid)
        /\ \E d \in Day :
             /\ IsOpen(d)
             /\ seen' = [seen EXCEPT ![r].day = d]
        /\ Goto(r, "lockDay")
        /\ UNCHANGED <<db, dayLock, saleLock, arg, snap>>
     \/ /\ IdTaken(arg[r].cid) \/ \A d \in Day : ~IsOpen(d)
        /\ Answer(r)

(* lockTradingDay, then under the lock: the day is still open, the id is   *)
(* still unused, and the last number of the day.                           *)
CreateLockDay(r) ==
  /\ At(r, "lockDay") /\ arg[r].op = "create"
  /\ dayLock[seen[r].day] = Free
  /\ \/ /\ IsOpen(seen[r].day)
        /\ ~IdTaken(arg[r].cid)
        /\ \E m \in {0} \cup {sale[t].num : t \in Request} :
             /\ IsLastNumber(m, seen[r].day)
             /\ seen' = [seen EXCEPT ![r].num = m + 1]
        /\ dayLock' = [dayLock EXCEPT ![seen[r].day] = r]
        /\ Goto(r, "insert")
        /\ UNCHANGED <<db, saleLock, arg, snap>>
     \/ /\ ~IsOpen(seen[r].day) \/ IdTaken(arg[r].cid)
        /\ Answer(r)

(* The unique indexes of the table sales.                                  *)
Collides(c, d, n) == IdTaken(c) \/ \E t \in RowsOf(d) : sale[t].num = n

(* The INSERT of a parked order; a unique violation answers with a replay  *)
(* or an error.                                                            *)
CreateInsert(r) ==
  /\ At(r, "insert") /\ arg[r].op = "create"
  /\ IF Collides(arg[r].cid, seen[r].day, seen[r].num)
       THEN UNCHANGED sale
       ELSE \E q \in 1..MaxQty :
              sale' = [sale EXCEPT ![r] =
                [status |-> "PARKED", kind |-> "PURCHASE", cid |-> arg[r].cid,
                 day |-> seen[r].day, num |-> seen[r].num, qty |-> q, total |-> q,
                 cash |-> 0, online |-> 0, tip |-> 0, owed |-> 0,
                 settled |-> FALSE, corrects |-> r]]
  /\ Finish(r)
  /\ UNCHANGED <<day, closing>>

-----------------------------------------------------------------------------
(* Operations on one order: lockAndRequireOrder, a check, a write.         *)

Mutation == {"update", "addLine", "incrementLine", "updateLine", "decrementLine", "removeLine"}
NamesLine == Mutation \ {"update", "addLine"}

(* The row id behind the client id; a void first looks for its replay.     *)
Identify(r) ==
  /\ At(r, "identify")
  /\ LET known == {t \in Request : HasId(t, arg[r].cid) /\ sale[t].kind = "PURCHASE"}
         replay == arg[r].op = "void" /\ IdTaken(arg[r].other)
     IN \/ /\ ~replay
           /\ \E t \in known : seen' = [seen EXCEPT ![r].row = t]
           /\ Goto(r, "lockOrder")
           /\ UNCHANGED <<db, dayLock, saleLock, arg, snap>>
        \/ /\ replay \/ known = {}
           /\ Answer(r)

(* Mutant: a completed order may be edited.                                *)
MayEditCompleted(r, t) ==
  /\ IsOpen(sale[t].day)
  /\ arg[r].op \in NamesLine => t = seen[r].row

(* mutateParked and complete; requireOrderDayOpen takes no lock on the     *)
(* day.  The line a request names belongs to the row that bore the client  *)
(* id when the request was sent.                                           *)
MayEdit(r, t) ==
  /\ sale[t].status = "PARKED"
  /\ IsOpen(sale[t].day)
  /\ arg[r].op \in NamesLine => t = seen[r].row

MaySettle(t) ==
  /\ sale[t].status = "COMPLETED"
  /\ sale[t].owed > 0
  /\ ~sale[t].settled

(* Mutants: no check of the status; no look for an earlier void.           *)
MayVoidParked(r, t) == ~IdTaken(arg[r].other) /\ ~IsVoided(t)
MayVoidAgain(r, t) == ~IdTaken(arg[r].other) /\ sale[t].status = "COMPLETED"

MayVoid(r, t) ==
  /\ ~IdTaken(arg[r].other)
  /\ sale[t].status = "COMPLETED"
  /\ ~IsVoided(t)

MayWrite(r, t) ==
  CASE arg[r].op = "void" -> FALSE
    [] arg[r].op = "settleChange" -> MaySettle(t)
    [] OTHER -> MayEdit(r, t)

(* Mutant: the order is read without FOR UPDATE.                           *)
TakeNoSaleLock(r) == UNCHANGED saleLock

(* SELECT ... FOR UPDATE on the row id, which locks nothing when the row   *)
(* is gone.                                                                *)
TakeSaleLock(r) ==
  IF Live(seen[r].row) THEN saleLock' = [saleLock EXCEPT ![seen[r].row] = r]
                       ELSE UNCHANGED saleLock

(* The re-read by client id: another row than the locked one if the order  *)
(* was discarded and created again in between.                             *)
Reread(r, t) == HasId(t, arg[r].cid) /\ sale[t].kind = "PURCHASE"

Remember(r, t, d) ==
  seen' = [seen EXCEPT ![r] =
             [row |-> t, day |-> d, num |-> 0, qty |-> sale[t].qty, total |-> sale[t].total,
              cash |-> sale[t].cash, online |-> sale[t].online]]

LockOrder(r) ==
  /\ At(r, "lockOrder")
  /\ saleLock[seen[r].row] = Free
  /\ \/ \E t \in Request :
          /\ Reread(r, t)
          /\ MayWrite(r, t)
          /\ Remember(r, t, sale[t].day)
          /\ TakeSaleLock(r)
          /\ Goto(r, "write")
          /\ UNCHANGED <<db, dayLock, arg, snap>>
     \/ \E t \in Request, d \in Day :
          /\ Reread(r, t)
          /\ arg[r].op = "void"
          /\ MayVoid(r, t)
          /\ IsOpen(d)
          /\ Remember(r, t, d)
          /\ TakeSaleLock(r)
          /\ Goto(r, "lockDay")
          /\ UNCHANGED <<db, dayLock, arg, snap>>
     \/ /\ \A t \in Request : Reread(r, t) =>
             /\ ~MayWrite(r, t)
             /\ arg[r].op = "void" => ~MayVoid(r, t) \/ \A d \in Day : ~IsOpen(d)
        /\ Answer(r)

(* A writer of a sales row waits for the row's lock.                       *)
CanWrite(r) == saleLock[seen[r].row] \in {Free, r}

(* The quantities an edit may leave: computed from the quantity it read,   *)
(* but for an update of the order's header, which leaves the line alone.   *)
NewQty(r) ==
  CASE arg[r].op = "update" -> {sale[seen[r].row].qty}
    [] arg[r].op = "addLine" -> {seen[r].qty + k : k \in 1..MaxQty}
    [] arg[r].op = "incrementLine" -> {seen[r].qty + 1}
    [] arg[r].op = "updateLine" -> 1..MaxQty
    [] arg[r].op = "decrementLine" -> {seen[r].qty - 1}
    [] OTHER -> {0}

(* Mutants: the order's total is not recalculated; an order without lines  *)
(* stays.                                                                  *)
WriteLineOnly(r) ==
  LET t == seen[r].row IN
  /\ At(r, "write") /\ arg[r].op \in Mutation
  /\ CanWrite(r)
  /\ \E q \in NewQty(r) : sale' = IF q = 0 THEN [sale EXCEPT ![t].status = "DELETED"]
                                           ELSE [sale EXCEPT ![t].qty = q]
  /\ Finish(r)
  /\ UNCHANGED <<day, closing>>
WriteLineNoDiscard(r) ==
  LET t == seen[r].row IN
  /\ At(r, "write") /\ arg[r].op \in Mutation
  /\ CanWrite(r)
  /\ \E q \in NewQty(r) : sale' = [sale EXCEPT ![t].qty = q, ![t].total = q]
  /\ Finish(r)
  /\ UNCHANGED <<day, closing>>

(* The line update and recalculateOrder (which touches parked rows only),  *)
(* or the discard of an order without lines.                               *)
WriteLine(r) ==
  LET t == seen[r].row IN
  /\ At(r, "write") /\ arg[r].op \in Mutation
  /\ CanWrite(r)
  /\ \/ /\ Live(t)
        /\ \E q \in NewQty(r) :
             sale' = IF q = 0
               THEN [sale EXCEPT ![t].status = "DELETED"]
               ELSE [sale EXCEPT ![t].qty = q,
                                 ![t].total = IF sale[t].status = "PARKED" THEN q ELSE @]
     \/ ~Live(t) /\ UNCHANGED sale
  /\ Finish(r)
  /\ UNCHANGED <<day, closing>>

(* The guarded UPDATE of complete and the payment rows; the tender equals  *)
(* the total that was read (validateTender).                               *)
WriteComplete(r) ==
  LET t == seen[r].row IN
  /\ At(r, "write") /\ arg[r].op = "complete"
  /\ CanWrite(r)
  /\ \/ /\ sale[t].status = "PARKED"
        /\ \E cash \in 0..seen[r].total, tip \in Tip, owed \in Owed \cup {0} :
             /\ cash = 0 => owed = 0
             /\ sale' = [sale EXCEPT ![t].status = "COMPLETED", ![t].cash = cash,
                                     ![t].online = seen[r].total - cash,
                                     ![t].tip = tip, ![t].owed = owed]
     \/ sale[t].status # "PARKED" /\ UNCHANGED sale
  /\ Finish(r)
  /\ UNCHANGED <<day, closing>>

WriteSettle(r) ==
  /\ At(r, "write") /\ arg[r].op = "settleChange"
  /\ CanWrite(r)
  /\ sale' = [sale EXCEPT ![seen[r].row].settled = TRUE]
  /\ Finish(r)
  /\ UNCHANGED <<day, closing>>

-----------------------------------------------------------------------------
(* void: the day of the correcting row is locked after the original.       *)

(* Mutants: the day's lock is not taken; the caller's role is not checked. *)
VoidReadDay(r, mayProceed, lock) ==
  /\ At(r, "lockDay") /\ arg[r].op = "void"
  /\ dayLock[seen[r].day] = Free
  /\ mayProceed
  /\ \E m \in {0} \cup {sale[t].num : t \in Request} :
       /\ IsLastNumber(m, seen[r].day)
       /\ seen' = [seen EXCEPT ![r].num = m + 1]
  /\ dayLock' = [dayLock EXCEPT ![seen[r].day] = lock]
  /\ Goto(r, "insert")
  /\ UNCHANGED <<db, saleLock, arg, snap>>
VoidNoDayLock(r) == VoidReadDay(r, IsOpen(seen[r].day), Free)
VoidUncheckedRole(r) == VoidReadDay(r, IsOpen(seen[r].day), r)

VoidLockDay(r) ==
  /\ At(r, "lockDay") /\ arg[r].op = "void"
  /\ dayLock[seen[r].day] = Free
  /\ \/ /\ IsOpen(seen[r].day)
        /\ arg[r].role = "ADMIN" \/ sale[seen[r].row].day = seen[r].day
        /\ \E m \in {0} \cup {sale[t].num : t \in Request} :
             /\ IsLastNumber(m, seen[r].day)
             /\ seen' = [seen EXCEPT ![r].num = m + 1]
        /\ dayLock' = [dayLock EXCEPT ![seen[r].day] = r]
        /\ Goto(r, "insert")
        /\ UNCHANGED <<db, saleLock, arg, snap>>
     \/ /\ \/ ~IsOpen(seen[r].day)
           \/ arg[r].role = "STAFF" /\ sale[seen[r].row].day # seen[r].day
        /\ Answer(r)

(* Mutant: the tip is negated with the payments.                           *)
VoidInsertTip(r) ==
  /\ At(r, "insert") /\ arg[r].op = "void"
  /\ sale' = [sale EXCEPT ![r] =
        [status |-> "COMPLETED", kind |-> "VOID", cid |-> arg[r].other,
         day |-> seen[r].day, num |-> seen[r].num,
         qty |-> -seen[r].qty, total |-> -seen[r].total,
         cash |-> -seen[r].cash, online |-> -seen[r].online,
         tip |-> -sale[seen[r].row].tip, owed |-> 0, settled |-> FALSE,
         corrects |-> seen[r].row]]
  /\ Finish(r)
  /\ UNCHANGED <<day, closing>>

(* The INSERT of the negated row; a unique violation fails the request.    *)
VoidInsert(r) ==
  /\ At(r, "insert") /\ arg[r].op = "void"
  /\ IF Collides(arg[r].other, seen[r].day, seen[r].num)
       THEN UNCHANGED sale
       ELSE sale' = [sale EXCEPT ![r] =
              [status |-> "COMPLETED", kind |-> "VOID", cid |-> arg[r].other,
               day |-> seen[r].day, num |-> seen[r].num,
               qty |-> -seen[r].qty, total |-> -seen[r].total,
               cash |-> -seen[r].cash, online |-> -seen[r].online,
               tip |-> 0, owed |-> 0, settled |-> FALSE, corrects |-> seen[r].row]]
  /\ Finish(r)
  /\ UNCHANGED <<day, closing>>

-----------------------------------------------------------------------------
(* open: three reads, then an INSERT that only the one-open-day index      *)
(* guards.                                                                 *)

OpenReadDays(r) ==
  /\ At(r, "readDays")
  /\ \/ /\ \A d \in Day : ~IsOpen(d)
        /\ \A d \in Day : day[d].status # "NONE" => day[d].date # arg[r].date
        /\ Goto(r, "insertDay")
        /\ UNCHANGED <<db, dayLock, saleLock, arg, seen, snap>>
     \/ /\ \/ \E d \in Day : IsOpen(d)
           \/ \E d \in Day : day[d].status # "NONE" /\ day[d].date = arg[r].date
        /\ Answer(r)

(* Mutants: no one-open-day index; a closed day is opened again.           *)
OpenInsertAnyDay(r) ==
  /\ At(r, "insertDay")
  /\ \E d \in Day :
       /\ day[d].status = "NONE"
       /\ day' = [day EXCEPT ![d] = [status |-> "OPEN", date |-> arg[r].date]]
  /\ Finish(r)
  /\ UNCHANGED <<sale, closing>>
OpenClosedDay(r) ==
  /\ At(r, "insertDay")
  /\ \A d \in Day : ~IsOpen(d)
  /\ \E d \in Day : day' = [day EXCEPT ![d] = [status |-> "OPEN", date |-> arg[r].date]]
  /\ Finish(r)
  /\ UNCHANGED <<sale, closing>>

OpenInsertDay(r) ==
  /\ At(r, "insertDay")
  /\ \/ /\ \A d \in Day : ~IsOpen(d)
        /\ \E d \in Day :
             /\ day[d].status = "NONE"
             /\ day' = [day EXCEPT ![d] = [status |-> "OPEN", date |-> arg[r].date]]
     \/ /\ \E d \in Day : IsOpen(d)
        /\ UNCHANGED day
  /\ Finish(r)
  /\ UNCHANGED <<sale, closing>>

-----------------------------------------------------------------------------
(* close: lock the day, read payments and sales in separate statements,    *)
(* store the closing.                                                      *)

CloseFindDay(r) ==
  /\ At(r, "findDay") /\ arg[r].op = "close"
  /\ LET replay == \E d \in Day : closing[d].made /\ closing[d].id = arg[r].other
     IN \/ /\ ~replay
           /\ \E d \in Day :
                /\ IsOpen(d)
                /\ seen' = [seen EXCEPT ![r].day = d]
           /\ Goto(r, "lockDay")
           /\ UNCHANGED <<db, dayLock, saleLock, arg, snap>>
        \/ /\ replay \/ \A d \in Day : ~IsOpen(d)
           /\ Answer(r)

CloseLockDay(r) ==
  /\ At(r, "lockDay") /\ arg[r].op = "close"
  /\ dayLock[seen[r].day] = Free
  /\ \/ /\ IsOpen(seen[r].day)
        /\ dayLock' = [dayLock EXCEPT ![seen[r].day] = r]
        /\ Goto(r, "readCash")
        /\ UNCHANGED <<db, saleLock, arg, seen, snap>>
     \/ /\ ~IsOpen(seen[r].day)
        /\ Answer(r)

(* The two reads of calculateCash that concern sales run in either order.  *)
CloseReadPayments(r) ==
  /\ At(r, "readCash") /\ "payments" \notin snap[r].got
  /\ snap' = [snap EXCEPT ![r].got = @ \cup {"payments"},
       ![r].cash = [t \in Request |-> IF t \in RowsOf(seen[r].day) THEN sale[t].cash ELSE 0],
       ![r].online = [t \in Request |-> IF t \in RowsOf(seen[r].day) THEN sale[t].online ELSE 0]]
  /\ UNCHANGED <<db, dayLock, saleLock, pc, arg, seen>>

CloseReadSales(r) ==
  /\ At(r, "readCash") /\ "sales" \notin snap[r].got
  /\ snap' = [snap EXCEPT ![r].got = @ \cup {"sales"},
       ![r].held = [t \in Request |-> IF t \in RowsOf(seen[r].day)
                                        THEN sale[t].tip + Outstanding(sale[t]) ELSE 0]]
  /\ UNCHANGED <<db, dayLock, saleLock, pc, arg, seen>>

(* The guarded UPDATE of the day and the INSERT of its closing.  A stored  *)
(* figure is the sum over the rows; the addends are kept apart here.       *)
CloseCommit(r) ==
  LET d == seen[r].day IN
  /\ At(r, "readCash") /\ snap[r].got = {"payments", "sales"}
  /\ IsOpen(d)
  /\ day' = [day EXCEPT ![d].status = "CLOSED"]
  /\ closing' = [closing EXCEPT ![d] =
       [made |-> TRUE, id |-> arg[r].other, cash |-> snap[r].cash,
        online |-> snap[r].online, held |-> snap[r].held]]
  /\ Finish(r)
  /\ UNCHANGED sale

-----------------------------------------------------------------------------
Init ==
  /\ day = [d \in Day |-> [status |-> IF d = FirstDay THEN "OPEN" ELSE "NONE",
                           date |-> FirstDate]]
  /\ sale = [t \in Request |->
       [status |-> "NONE", kind |-> "PURCHASE", cid |-> AnyId, day |-> FirstDay, num |-> 0,
        qty |-> 0, total |-> 0, cash |-> 0, online |-> 0, tip |-> 0, owed |-> 0,
        settled |-> FALSE, corrects |-> t]]
  /\ closing = [d \in Day |-> NoClosing]
  /\ dayLock = [d \in Day |-> Free]
  /\ saleLock = [t \in Request |-> Free]
  /\ pc = [r \in Request |-> "idle"]
  /\ arg = [r \in Request |-> NoArg]
  /\ seen = [r \in Request |-> NothingSeen(r)]
  /\ snap = [r \in Request |-> NoSnap]

(* One statement of the API on behalf of request r.                        *)
Advance(r) ==
  \/ CreateFindDay(r) \/ CreateLockDay(r) \/ CreateInsert(r)
  \/ Identify(r) \/ LockOrder(r)
  \/ WriteLine(r) \/ WriteComplete(r) \/ WriteSettle(r)
  \/ VoidLockDay(r) \/ VoidInsert(r)
  \/ OpenReadDays(r) \/ OpenInsertDay(r)
  \/ CloseFindDay(r) \/ CloseLockDay(r)
  \/ CloseReadPayments(r) \/ CloseReadSales(r) \/ CloseCommit(r)

Next == \E r \in Request : Start(r) \/ Advance(r) \/ Abort(r)

Spec == Init /\ [][Next]_vars

(* PostgreSQL grants a free lock and Node runs a started request on; that  *)
(* a client sends a request, or that one fails, is never certain.          *)
FairSpec == Spec /\ \A r \in Request : WF_vars(Advance(r))

-----------------------------------------------------------------------------
(* Properties.                                                             *)

(* The rows of the database.                                               *)
DataType ==
  /\ day \in [Day -> [status : {"NONE", "OPEN", "CLOSED"}, date : Date]]
  /\ sale \in [Request -> SaleRow]
  /\ closing \in [Day -> Closing \cup {NoClosing}]

(* The requests and their locks.                                           *)
ControlType ==
  /\ dayLock \in [Day -> Request \cup {Free}]
  /\ saleLock \in [Request -> Request \cup {Free}]
  /\ pc \in [Request -> Label]
  /\ arg \in [Request -> Call]
  /\ seen \in [Request -> SeenRecord]
  /\ snap \in [Request -> SnapRecord]

(* Every variable keeps its type: among others, tips and withheld change   *)
(* are never negative and a number is always a natural.                    *)
TypeOK == DataType /\ ControlType

(* The client id of the row named an order that was discarded before: only *)
(* then can a request hold a row it never locked (see Reread).             *)
Recreated(t) == \E u \in Request : u # t /\ sale[u].status = "DELETED" /\ sale[u].cid = sale[t].cid

(* At most one business day is open, however the opens and closes race     *)
(* (ADR 0004 section 1, the partial unique index on trading_days).         *)
OneOpenDay == \A d, e \in Day : IsOpen(d) /\ IsOpen(e) => d = e

(* A request about to insert a row or to total a day works on a day that   *)
(* is open and locked by it, and its order number is above every number of *)
(* the day: the unique index on the number never decides (ADR 0005         *)
(* section 3); neither does the one on the id, for a create.               *)
InsertNeverCollides ==
  \A r \in Request :
    /\ pc[r] \in {"insert", "readCash"} =>
         IsOpen(seen[r].day) /\ dayLock[seen[r].day] = r
    /\ pc[r] = "insert" => \A t \in RowsOf(seen[r].day) : sale[t].num < seen[r].num
    /\ pc[r] = "insert" /\ arg[r].op = "create" => ~IdTaken(arg[r].cid)

(* What a request read of an order is still what the order holds when it   *)
(* writes: no edit is lost, no tender is checked against an old total, no  *)
(* void negates old amounts.                                               *)
NoLostUpdate ==
  \A r \in Request : LET t == seen[r].row IN
    pc[r] = "write" \/ (pc[r] \in {"lockDay", "insert"} /\ arg[r].op = "void") =>
      \/ Recreated(t)
      \/ /\ Live(t)
         /\ sale[t].qty = seen[r].qty /\ sale[t].total = seen[r].total
         /\ sale[t].cash = seen[r].cash /\ sale[t].online = seen[r].online

(* The payments of a completed order add up to its total, and the total to *)
(* its lines (ADR 0004 section 2).                                         *)
PaidInFull ==
  \A t \in Request :
    sale[t].status = "COMPLETED" /\ sale[t].kind = "PURCHASE" /\ ~Recreated(t) =>
      sale[t].cash + sale[t].online = sale[t].total /\ sale[t].total = sale[t].qty

(* No order is left without a line, along every path (ADR 0008 section 6). *)
NoEmptyOrder == \A t \in Request : Live(t) /\ sale[t].kind = "PURCHASE" => sale[t].qty >= 1

(* An order has at most one void, whatever ids the void requests carry.    *)
VoidedOnce ==
  \A v, w \in Request :
    /\ Live(v) /\ sale[v].kind = "VOID"
    /\ Live(w) /\ sale[w].kind = "VOID"
    /\ sale[v].corrects = sale[w].corrects
    /\ ~Recreated(sale[v].corrects)
    => v = w

(* A void mirrors a completed order: the pair nets to nothing, in total    *)
(* and per payment method.                                                 *)
VoidMirrorsOriginal ==
  \A v \in Request : LET t == sale[v].corrects IN
    Live(v) /\ sale[v].kind = "VOID" =>
      /\ sale[t].status = "COMPLETED"
      /\ sale[v].total = -sale[t].total
      /\ sale[v].cash = -sale[t].cash /\ sale[v].online = -sale[t].online

(* The closing of a day has counted every void recorded on that day.       *)
ClosingCountsVoids ==
  \A v \in Request :
    Live(v) /\ sale[v].kind = "VOID" /\ closing[sale[v].day].made =>
      closing[sale[v].day].cash[v] = sale[v].cash /\ closing[sale[v].day].online[v] = sale[v].online

(* A completed order never changes again, but that its withheld change is  *)
(* settled once (ADR 0005 section 2).                                      *)
CompletedIsFrozen ==
  [][\A t \in Request :
       sale[t].status = "COMPLETED" /\ ~Recreated(t) =>
         \/ sale'[t] = sale[t]
         \/ /\ sale'[t] = [sale[t] EXCEPT !.settled = TRUE]
            /\ ~sale[t].settled /\ sale[t].owed > 0]_vars

(* A sales row is born on the open day, and a staff void on the day of the *)
(* order it corrects, even when the day rolls over while the request waits *)
(* (ADR 0019 section 2).                                                   *)
BornOnOpenDay ==
  [][\A r \in Request :
       ~Live(r) /\ Live(r)' =>
         /\ IsOpen(sale'[r].day)
         /\ sale'[r].kind = "VOID" /\ arg[r].role = "STAFF" =>
              sale'[r].day = sale[sale'[r].corrects].day]_vars

(* A closed day stays closed, with the closing it got (ADR 0006 section 6).*)
ClosedForGood ==
  [][\A d \in Day : day[d].status = "CLOSED" =>
       closing[d].made /\ closing'[d] = closing[d] /\ day'[d] = day[d]]_vars

(* Every request that arrives is answered: no two transactions wait for    *)
(* each other's rows for ever, and no row lock outlives its transaction.   *)
EveryRequestAnswered == \A r \in Request : pc[r] # "idle" ~> pc[r] = "done"

-----------------------------------------------------------------------------
(* The requests implement the order book.                                  *)

StateOf(t) ==
  CASE sale[t].status = "DELETED" -> "gone"
    [] sale[t].status = "PARKED" -> "parked"
    [] OTHER -> IF IsVoided(t) THEN "voided" ELSE "completed"

(* The order that a sales row is: a void is a state of the order it        *)
(* corrects.                                                               *)
OrderOf(t) ==
  IF sale[t].status = "NONE" \/ sale[t].kind = "VOID" THEN [state |-> "none"]
  ELSE [state |-> StateOf(t), name |-> sale[t].cid, day |-> sale[t].day, qty |-> sale[t].qty,
        cash |-> sale[t].cash, online |-> sale[t].online, tip |-> sale[t].tip,
        owed |-> sale[t].owed, settled |-> sale[t].settled]

(* What the order book sees of the database and of the requests.           *)
BookDays == [d \in Day |-> day[d].status]
BookOrders == [t \in Request |-> OrderOf(t)]
BookAsked == [r \in Request |-> IF pc[r] \in {"idle", "done"} THEN {} ELSE {arg[r]}]
BookAnswered == {r \in Request : pc[r] = "done"}

Book == INSTANCE OrderBook WITH
  days <- BookDays, orders <- BookOrders, asked <- BookAsked, answered <- BookAnswered

(* Each call takes effect at one instant, on the orders and days as they   *)
(* are at that instant, or not at all: whatever it read statements before  *)
(* holds when it writes (ADR 0008 section 6), and what it checked (ADR     *)
(* 0005 section 2, ADR 0019 section 2).                                    *)
ImplementsOrders == Book!Spec

-----------------------------------------------------------------------------
(* What the documents say and the code does not keep: see the findings in  *)
(* README.md.                                                              *)

(* The payments of every completed purchase add up to its total, discarded *)
(* namesakes or not (ADR 0004 section 2).                                  *)
PaymentsMatchTotal ==
  \A t \in Request :
    sale[t].status = "COMPLETED" /\ sale[t].kind = "PURCHASE" =>
      sale[t].cash + sale[t].online = sale[t].total

(* No order is voided twice, discarded namesakes or not                    *)
(* (orders.service.ts, 'Order has already been voided').                   *)
NeverVoidedTwice ==
  \A v, w \in Request :
    /\ Live(v) /\ sale[v].kind = "VOID"
    /\ Live(w) /\ sale[w].kind = "VOID"
    /\ sale[v].corrects = sale[w].corrects
    => v = w

(* At the moment a day closes, the stored figures are the sums over the    *)
(* rows of the day (ADR 0006 section 4).                                   *)
ClosingDerivable ==
  [][\A d \in Day : ~closing[d].made /\ closing'[d].made =>
       LET figure(v) == SumFunction([t \in Request |-> IF t \in RowsOf(d) THEN v[t] ELSE 0])
       IN /\ SumFunction(closing'[d].cash) = figure([t \in Request |-> sale[t].cash])
          /\ SumFunction(closing'[d].online) = figure([t \in Request |-> sale[t].online])
          /\ SumFunction(closing'[d].held) =
               figure([t \in Request |-> sale[t].tip + Outstanding(sale[t])])]_vars

(* An order completes only while its day is open (ADR 0008 section 6).     *)
CompletesOnOpenDay ==
  [][\A t \in Request :
       sale[t].status = "PARKED" /\ sale'[t].status = "COMPLETED" => IsOpen(sale[t].day)]_vars

(* A business date is used by one day only (trading-day.service.ts, 'A     *)
(* business day already exists for this business date').                   *)
BusinessDateOnce ==
  \A d, e \in Day :
    day[d].status # "NONE" /\ day[e].status # "NONE" /\ day[d].date = day[e].date => d = e
=============================================================================
