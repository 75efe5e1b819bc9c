------------------------- MODULE OrderCapture_proof -------------------------
(***************************************************************************)
(* Proofs about OrderCapture for every set of requests, ids and days.      *)
(***************************************************************************)
EXTENDS OrderCapture, TLAPS

-----------------------------------------------------------------------------
(* Types.                                                                  *)

(* The id of an idle request is a client id.                               *)
LEMMA AnyIdType == AnyId \in ClientId
  BY ClientIdAssumption DEF AnyId

(* What an idle request asks for is a call.                                *)
LEMMA NoArgType == NoArg \in Call
  BY AnyIdType, DayAssumption DEF NoArg, Call, Op

(* What an idle request has read is of the type of what requests read.     *)
LEMMA NothingSeenType == \A r \in Request : NothingSeen(r) \in SeenRecord
  BY DayAssumption DEF NothingSeen, SeenRecord

(* The empty sums of a request that closes nothing are sums.               *)
LEMMA NoSnapType == NoSnap \in SnapRecord
  BY DEF NoSnap, SnapRecord, NoAmounts, Amounts

(* A request that ends leaves well-typed control.                          *)
LEMMA FinishType ==
  ASSUME ControlType, NEW r \in Request, Finish(r)
  PROVE  ControlType'
<1>1. pc' \in [Request -> Label]
  BY DEF Finish, Goto, ControlType, Label
<1>2. /\ dayLock' \in [Day -> Request \cup {Free}]
      /\ saleLock' \in [Request -> Request \cup {Free}]
  BY DEF Finish, ControlType
<1>3. arg' \in [Request -> Call]
  BY NoArgType DEF Finish, ControlType
<1>4. seen' \in [Request -> SeenRecord]
  BY NothingSeenType DEF Finish, ControlType
<1>5. snap' \in [Request -> SnapRecord]
  BY NoSnapType DEF Finish, ControlType
<1> QED BY <1>1, <1>2, <1>3, <1>4, <1>5 DEF ControlType

(* A request that ends without a write keeps every type.                   *)
LEMMA AnswerType ==
  ASSUME TypeOK, NEW r \in Request, Answer(r)
  PROVE  TypeOK'
BY FinishType DEF TypeOK, Answer, db, DataType

(* The initial database, requests and locks are of their types.            *)
LEMMA InitType == Init => TypeOK
<1> SUFFICES ASSUME Init PROVE TypeOK
  OBVIOUS
<1>1. day \in [Day -> [status : {"NONE", "OPEN", "CLOSED"}, date : Date]]
  BY DayAssumption DEF Init
<1>2. sale \in [Request -> SaleRow]
  BY DayAssumption, AnyIdType DEF Init, SaleRow
<1>3. closing \in [Day -> Closing \cup {NoClosing}]
  BY DEF Init
<1>4. ControlType
  BY NoArgType, NothingSeenType, NoSnapType DEF Init, ControlType, Label
<1> QED BY <1>1, <1>2, <1>3, <1>4 DEF DataType, TypeOK

(* A sales row is an integer record where the code reads one.              *)
LEMMA RowType ==
  ASSUME TypeOK, NEW t \in Request
  PROVE  /\ sale[t] \in SaleRow
         /\ sale[t].day \in Day /\ sale[t].num \in Nat
         /\ sale[t].qty \in Int /\ sale[t].total \in Int
         /\ sale[t].cash \in Int /\ sale[t].online \in Int
         /\ sale[t].tip \in Nat /\ Outstanding(sale[t]) \in Nat
BY DEF TypeOK, DataType, SaleRow, Outstanding

(* What a request asks for and what it has read, part by part.             *)
LEMMA SeenType ==
  ASSUME TypeOK, NEW r \in Request
  PROVE  /\ seen[r] \in SeenRecord
         /\ seen[r].row \in Request /\ seen[r].day \in Day /\ seen[r].num \in Nat
         /\ seen[r].qty \in Int /\ seen[r].total \in Int
         /\ seen[r].cash \in Int /\ seen[r].online \in Int
         /\ arg[r] \in Call /\ arg[r].op \in Op /\ arg[r].cid \in ClientId
         /\ arg[r].other \in ClientId /\ arg[r].date \in Date
         /\ snap[r] \in SnapRecord
         /\ snap[r].cash \in Amounts /\ snap[r].online \in Amounts /\ snap[r].held \in Amounts
BY DEF TypeOK, ControlType, SeenRecord, SnapRecord, Call

(* An edit leaves an integer quantity.                                     *)
LEMMA NewQtyType ==
  ASSUME TypeOK, NEW r \in Request
  PROVE  \A q \in NewQty(r) : q \in Int
<1>1. seen[r].qty \in Int /\ sale[seen[r].row].qty \in Int
  BY SeenType, RowType
<1>2. MaxQty \in Nat
  BY AmountAssumption
<1>3. \A k \in 1..MaxQty : seen[r].qty + k \in Int
  BY <1>1, <1>2
<1> QED BY <1>1, <1>2, <1>3 DEF NewQty

(* A call that arrives keeps every type (orders.controller.ts).            *)
LEMMA StartType ==
  ASSUME TypeOK, NEW r \in Request, Start(r)
  PROVE  TypeOK'
<1>1. PICK call \in Calls[r] :
         /\ arg' = [arg EXCEPT ![r] = call]
         /\ Goto(r, FirstLabel(call.op))
  BY DEF Start
<1>2. call \in Call
  BY CallsAssumption
<1>3. pc' \in [Request -> Label]
  BY <1>1 DEF Goto, FirstLabel, Label, TypeOK, ControlType
<1>4. arg' \in [Request -> Call]
  BY <1>1, <1>2 DEF TypeOK, ControlType
<1> QED BY <1>3, <1>4 DEF Start, db, TypeOK, ControlType, DataType

(* create keeps every type: a fresh number is a natural.                   *)
LEMMA CreateType ==
  ASSUME TypeOK, NEW r \in Request,
         CreateFindDay(r) \/ CreateLockDay(r) \/ CreateInsert(r)
  PROVE  TypeOK'
<1>1. CASE CreateFindDay(r)
  <2>1. CASE Answer(r)
    BY <2>1, AnswerType
  <2>2. CASE ~Answer(r)
    <3>1. PICK d \in Day : seen' = [seen EXCEPT ![r].day = d]
      BY <1>1, <2>2 DEF CreateFindDay
    <3>2. seen' \in [Request -> SeenRecord]
      BY <3>1 DEF TypeOK, ControlType, SeenRecord
    <3> QED BY <1>1, <2>2, <3>2
      DEF CreateFindDay, Goto, Label, db, TypeOK, ControlType, DataType
  <2> QED BY <2>1, <2>2
<1>2. CASE CreateLockDay(r)
  <2>1. CASE Answer(r)
    BY <2>1, AnswerType
  <2>2. CASE ~Answer(r)
    <3>1. PICK m \in {0} \cup {sale[t].num : t \in Request} :
            seen' = [seen EXCEPT ![r].num = m + 1]
      BY <1>2, <2>2 DEF CreateLockDay
    <3>2. m \in Nat
      BY <3>1, RowType
    <3>3. seen' \in [Request -> SeenRecord]
      BY <3>1, <3>2 DEF TypeOK, ControlType, SeenRecord
    <3>4. dayLock' \in [Day -> Request \cup {Free}]
      BY <1>2, <2>2, SeenType DEF CreateLockDay, TypeOK, ControlType
    <3> QED BY <1>2, <2>2, <3>3, <3>4
      DEF CreateLockDay, Goto, Label, db, TypeOK, ControlType, DataType
  <2> QED BY <2>1, <2>2
<1>3. CASE CreateInsert(r)
  <2>1. sale' \in [Request -> SaleRow]
    <3>1. CASE Collides(arg[r].cid, seen[r].day, seen[r].num)
      BY <1>3, <3>1 DEF CreateInsert, TypeOK, DataType
    <3>2. CASE ~Collides(arg[r].cid, seen[r].day, seen[r].num)
      <4>1. PICK q \in 1..MaxQty : sale' = [sale EXCEPT ![r] =
              [status |-> "PARKED", kind |-> "PURCHASE", cid |-> arg[r].cid,
               day |-> seen[r].day, num |-> seen[r].num, qty |-> q, total |-> q,
               cash |-> 0, online |-> 0, tip |-> 0, owed |-> 0,
               settled |-> FALSE, corrects |-> r]]
        BY <1>3, <3>2 DEF CreateInsert
      <4>2. q \in Int
        OBVIOUS
      <4>3. [status |-> "PARKED", kind |-> "PURCHASE", cid |-> arg[r].cid,
             day |-> seen[r].day, num |-> seen[r].num, qty |-> q, total |-> q,
             cash |-> 0, online |-> 0, tip |-> 0, owed |-> 0,
             settled |-> FALSE, corrects |-> r] \in SaleRow
        BY <4>2, SeenType DEF SaleRow
      <4> QED BY <4>1, <4>3 DEF TypeOK, DataType
    <3> QED BY <3>1, <3>2
  <2> QED BY <1>3, <2>1, FinishType DEF CreateInsert, TypeOK, DataType
<1> QED BY <1>1, <1>2, <1>3

(* Finding and locking an order keeps every type.                          *)
LEMMA OrderType ==
  ASSUME TypeOK, NEW r \in Request, Identify(r) \/ LockOrder(r)
  PROVE  TypeOK'
<1>1. CASE Answer(r)
  BY <1>1, AnswerType
<1>2. CASE Identify(r) /\ ~Answer(r)
  <2>1. PICK t \in Request : seen' = [seen EXCEPT ![r].row = t]
    BY <1>2 DEF Identify
  <2>2. seen' \in [Request -> SeenRecord]
    BY <2>1 DEF TypeOK, ControlType, SeenRecord
  <2> QED BY <1>2, <2>2
    DEF Identify, Goto, Label, db, TypeOK, ControlType, DataType
<1>3. CASE LockOrder(r) /\ ~Answer(r)
  <2>1. PICK t \in Request, d \in Day :
          /\ Remember(r, t, d)
          /\ TakeSaleLock(r)
          /\ Goto(r, "write") \/ Goto(r, "lockDay")
          /\ UNCHANGED <<db, dayLock, arg, snap>>
    BY <1>3, RowType DEF LockOrder
  <2>2. seen' \in [Request -> SeenRecord]
    BY <2>1, RowType DEF Remember, TypeOK, ControlType, SeenRecord
  <2>3. saleLock' \in [Request -> Request \cup {Free}]
    BY <2>1, SeenType DEF TakeSaleLock, TypeOK, ControlType
  <2> QED BY <2>1, <2>2, <2>3
    DEF Goto, Label, db, TypeOK, ControlType, DataType
<1> QED BY <1>1, <1>2, <1>3

(* Edits, completions and settlements leave a row of the table sales.      *)
LEMMA WriteType ==
  ASSUME TypeOK, NEW r \in Request,
         WriteLine(r) \/ WriteComplete(r) \/ WriteSettle(r)
  PROVE  TypeOK'
<1> DEFINE t == seen[r].row
<1>0. t \in Request /\ sale \in [Request -> SaleRow] /\ sale[t] \in SaleRow
  BY SeenType DEF TypeOK, DataType
<1>1. sale' \in [Request -> SaleRow]
  <2>1. CASE WriteLine(r)
    <3>1. \A q \in NewQty(r) : q \in Int
      BY NewQtyType
    <3>2. CASE UNCHANGED sale
      BY <3>2, <1>0
    <3>3. CASE \E x \in SaleRow : sale' = [sale EXCEPT ![t] = x]
      BY <3>3, <1>0
    <3>4. [sale[t] EXCEPT !.status = "DELETED"] \in SaleRow
      BY <1>0 DEF SaleRow
    <3>5. \A q \in Int, m \in Int : [sale[t] EXCEPT !.qty = q, !.total = m] \in SaleRow
      BY <1>0 DEF SaleRow
    <3>6. CASE ~UNCHANGED sale
      <4>1. PICK q \in NewQty(r) :
              sale' = IF q = 0
                THEN [sale EXCEPT ![t].status = "DELETED"]
                ELSE [sale EXCEPT ![t].qty = q,
                                  ![t].total = IF sale[t].status = "PARKED" THEN q ELSE @]
        BY <2>1, <3>6 DEF WriteLine
      <4>2. CASE q = 0
        BY <4>1, <4>2, <3>4, <1>0
      <4>3. CASE q # 0
        <5> DEFINE m == IF sale[t].status = "PARKED" THEN q ELSE sale[t].total
        <5>1. m \in Int /\ q \in Int
          BY <3>1, <1>0 DEF SaleRow
        <5>2. sale' = [sale EXCEPT ![t] = [sale[t] EXCEPT !.qty = q, !.total = m]]
          BY <4>1, <4>3, <1>0 DEF SaleRow
        <5> HIDE DEF m
        <5> QED BY <5>1, <5>2, <3>5, <1>0
      <4> QED BY <4>2, <4>3
    <3> QED BY <3>2, <3>6
  <2>2. CASE WriteComplete(r)
    <3>1. CASE UNCHANGED sale
      BY <3>1, <1>0
    <3>2. CASE ~UNCHANGED sale
      <4>1. PICK cash \in 0..seen[r].total, tip \in Tip, owed \in Owed \cup {0} :
              sale' = [sale EXCEPT ![t].status = "COMPLETED", ![t].cash = cash,
                                   ![t].online = seen[r].total - cash,
                                   ![t].tip = tip, ![t].owed = owed]
        BY <2>2, <3>2 DEF WriteComplete
      <4> DEFINE x == [sale[t] EXCEPT !.status = "COMPLETED", !.cash = cash,
                         !.online = seen[r].total - cash, !.tip = tip, !.owed = owed]
      <4>2. cash \in Int /\ seen[r].total - cash \in Int /\ tip \in Nat /\ owed \in Nat
        BY SeenType, AmountAssumption
      <4>3. x \in SaleRow
        BY <4>2, <1>0 DEF SaleRow
      <4>4. sale' = [sale EXCEPT ![t] = x]
        BY <4>1, <1>0 DEF SaleRow
      <4> HIDE DEF x
      <4> QED BY <4>3, <4>4, <1>0
    <3> QED BY <3>1, <3>2
  <2>3. CASE WriteSettle(r)
    <3>1. [sale[t] EXCEPT !.settled = TRUE] \in SaleRow
      BY <1>0 DEF SaleRow
    <3>2. sale' = [sale EXCEPT ![t] = [sale[t] EXCEPT !.settled = TRUE]]
      BY <2>3 DEF WriteSettle
    <3> QED BY <3>1, <3>2, <1>0
  <2> QED BY <2>1, <2>2, <2>3
<1>2. Finish(r) /\ UNCHANGED <<day, closing>>
  BY DEF WriteLine, WriteComplete, WriteSettle
<1> QED BY <1>1, <1>2, FinishType DEF TypeOK, DataType

(* void keeps every type, the negated row included.                        *)
LEMMA VoidType ==
  ASSUME TypeOK, NEW r \in Request, VoidLockDay(r) \/ VoidInsert(r)
  PROVE  TypeOK'
<1>1. CASE Answer(r)
  BY <1>1, AnswerType
<1>2. CASE VoidLockDay(r) /\ ~Answer(r)
  <2>1. PICK m \in {0} \cup {sale[t].num : t \in Request} :
          seen' = [seen EXCEPT ![r].num = m + 1]
    BY <1>2 DEF VoidLockDay
  <2>2. m \in Nat
    BY <2>1, RowType
  <2>3. seen' \in [Request -> SeenRecord]
    BY <2>1, <2>2 DEF TypeOK, ControlType, SeenRecord
  <2>4. dayLock' \in [Day -> Request \cup {Free}]
    BY <1>2, SeenType DEF VoidLockDay, TypeOK, ControlType
  <2> QED BY <1>2, <2>3, <2>4
    DEF VoidLockDay, Goto, Label, db, TypeOK, ControlType, DataType
<1>3. CASE VoidInsert(r)
  <2> DEFINE x == [status |-> "COMPLETED", kind |-> "VOID", cid |-> arg[r].other,
                   day |-> seen[r].day, num |-> seen[r].num,
                   qty |-> -seen[r].qty, total |-> -seen[r].total,
                   cash |-> -seen[r].cash, online |-> -seen[r].online,
                   tip |-> 0, owed |-> 0, settled |-> FALSE, corrects |-> seen[r].row]
  <2>1. x \in SaleRow
    BY SeenType DEF SaleRow
  <2>2. sale' = sale \/ sale' = [sale EXCEPT ![r] = x]
    BY <1>3 DEF VoidInsert
  <2> HIDE DEF x
  <2>3. sale' \in [Request -> SaleRow]
    BY <2>1, <2>2 DEF TypeOK, DataType
  <2> QED BY <1>3, <2>3, FinishType DEF VoidInsert, TypeOK, DataType
<1> QED BY <1>1, <1>2, <1>3

(* open keeps every type.                                                  *)
LEMMA OpenType ==
  ASSUME TypeOK, NEW r \in Request, OpenReadDays(r) \/ OpenInsertDay(r)
  PROVE  TypeOK'
<1>1. CASE Answer(r)
  BY <1>1, AnswerType
<1>2. CASE OpenReadDays(r) /\ ~Answer(r)
  BY <1>2 DEF OpenReadDays, Goto, Label, db, TypeOK, ControlType, DataType
<1>3. CASE OpenInsertDay(r)
  <2>1. day' \in [Day -> [status : {"NONE", "OPEN", "CLOSED"}, date : Date]]
    BY <1>3, SeenType DEF OpenInsertDay, TypeOK, DataType
  <2> QED BY <1>3, <2>1, FinishType DEF OpenInsertDay, TypeOK, DataType
<1> QED BY <1>1, <1>2, <1>3

(* close keeps every type, the sums it stores included.                    *)
LEMMA CloseType ==
  ASSUME TypeOK, NEW r \in Request,
         \/ CloseFindDay(r) \/ CloseLockDay(r)
         \/ CloseReadPayments(r) \/ CloseReadSales(r) \/ CloseCommit(r)
  PROVE  TypeOK'
<1>1. CASE Answer(r)
  BY <1>1, AnswerType
<1>2. CASE CloseFindDay(r) /\ ~Answer(r)
  <2>1. PICK d \in Day : seen' = [seen EXCEPT ![r].day = d]
    BY <1>2 DEF CloseFindDay
  <2>2. seen' \in [Request -> SeenRecord]
    BY <2>1 DEF TypeOK, ControlType, SeenRecord
  <2> QED BY <1>2, <2>2
    DEF CloseFindDay, Goto, Label, db, TypeOK, ControlType, DataType
<1>3. CASE CloseLockDay(r) /\ ~Answer(r)
  <2>1. dayLock' \in [Day -> Request \cup {Free}]
    BY <1>3, SeenType DEF CloseLockDay, TypeOK, ControlType
  <2> QED BY <1>3, <2>1
    DEF CloseLockDay, Goto, Label, db, TypeOK, ControlType, DataType
<1>4. CASE CloseReadPayments(r)
  <2> DEFINE cash == [t \in Request |-> IF t \in RowsOf(seen[r].day) THEN sale[t].cash ELSE 0]
             online == [t \in Request |-> IF t \in RowsOf(seen[r].day) THEN sale[t].online ELSE 0]
  <2>1. cash \in Amounts /\ online \in Amounts
    BY RowType DEF Amounts
  <2>2. snap' = [snap EXCEPT ![r].got = @ \cup {"payments"}, ![r].cash = cash, ![r].online = online]
    BY <1>4 DEF CloseReadPayments
  <2> HIDE DEF cash, online
  <2>3. snap' \in [Request -> SnapRecord]
    BY <2>1, <2>2 DEF TypeOK, ControlType, SnapRecord
  <2> QED BY <1>4, <2>3 DEF CloseReadPayments, db, TypeOK, ControlType, DataType
<1>5. CASE CloseReadSales(r)
  <2> DEFINE held == [t \in Request |-> IF t \in RowsOf(seen[r].day)
                                          THEN sale[t].tip + Outstanding(sale[t]) ELSE 0]
  <2>1. held \in Amounts
    BY RowType DEF Amounts
  <2>2. snap' = [snap EXCEPT ![r].got = @ \cup {"sales"}, ![r].held = held]
    BY <1>5 DEF CloseReadSales
  <2> HIDE DEF held
  <2>3. snap' \in [Request -> SnapRecord]
    BY <2>1, <2>2 DEF TypeOK, ControlType, SnapRecord
  <2> QED BY <1>5, <2>3 DEF CloseReadSales, db, TypeOK, ControlType, DataType
<1>6. CASE CloseCommit(r)
  <2> DEFINE x == [made |-> TRUE, id |-> arg[r].other, cash |-> snap[r].cash,
                   online |-> snap[r].online, held |-> snap[r].held]
  <2>1. x \in Closing
    BY SeenType DEF Closing
  <2>2. closing' = [closing EXCEPT ![seen[r].day] = x]
    BY <1>6 DEF CloseCommit
  <2> HIDE DEF x
  <2>3. closing' \in [Day -> Closing \cup {NoClosing}]
    BY <2>1, <2>2 DEF TypeOK, DataType
  <2>4. day' \in [Day -> [status : {"NONE", "OPEN", "CLOSED"}, date : Date]]
    BY <1>6 DEF CloseCommit, TypeOK, DataType
  <2> QED BY <1>6, <2>3, <2>4, FinishType DEF CloseCommit, TypeOK, DataType
<1> QED BY <1>1, <1>2, <1>3, <1>4, <1>5, <1>6

(* Every variable keeps its type, in every behaviour and for all constants.*)
THEOREM TypeCorrect == Spec => []TypeOK
<1>1. TypeOK /\ [Next]_vars => TypeOK'
  <2> SUFFICES ASSUME TypeOK, [Next]_vars PROVE TypeOK'
    OBVIOUS
  <2>1. CASE UNCHANGED vars
    BY <2>1 DEF vars, TypeOK, ControlType, DataType
  <2>2. ASSUME NEW r \in Request, Start(r) \/ Advance(r) \/ Abort(r)
        PROVE  TypeOK'
    BY <2>2, StartType, AnswerType, CreateType, OrderType, WriteType, VoidType,
       OpenType, CloseType DEF Advance, Abort
  <2> QED BY <2>1, <2>2 DEF Next
<1> QED BY <1>1, InitType, PTL DEF Spec

-----------------------------------------------------------------------------
(* The orders.                                                             *)

(* Two rows that a query can return differ in their client id.             *)
IdUnique == \A t, u \in Request : Live(t) /\ Live(u) /\ sale[t].cid = sale[u].cid => t = u

(* A request inserts at most one row, and ends with it.                    *)
BornLast == \A r \in Request : sale[r].status # "NONE" => pc[r] = "done"

(* Where a request may hold an order.                                      *)
Holding(r) == pc[r] = "write" \/ (pc[r] \in {"lockDay", "insert"} /\ arg[r].op = "void")

(* The row a request works on has, or had, the client id it asked for.     *)
Named(r) ==
  pc[r] = "lockOrder" \/ Holding(r) =>
    sale[seen[r].row].status # "NONE" /\ sale[seen[r].row].cid = arg[r].cid
RowNamed == \A r \in Request : Named(r)

(* What the request saw is what the row holds, and the row awaits that     *)
(* operation.                                                              *)
Agrees(r) == LET t == seen[r].row IN
  /\ sale[t].qty = seen[r].qty /\ sale[t].total = seen[r].total
  /\ sale[t].cash = seen[r].cash /\ sale[t].online = seen[r].online
  /\ sale[t].status = IF arg[r].op \in {"void", "settleChange"} THEN "COMPLETED" ELSE "PARKED"
  /\ arg[r].op = "settleChange" => sale[t].owed > 0 /\ ~sale[t].settled

(* A request that holds an order owns its lock, or the order's client id   *)
(* was used by a discarded order before.                                   *)
Holds(r) ==
  Holding(r) => Recreated(seen[r].row) \/ (saleLock[seen[r].row] = r /\ Agrees(r))
Held == \A r \in Request : Holds(r)

ParkedTotal == \A t \in Request : sale[t].status = "PARKED" => sale[t].total = sale[t].qty

(* The inductive invariant behind NoLostUpdate and PaidInFull.             *)
OrderInv ==
  TypeOK /\ IdUnique /\ BornLast /\ RowNamed /\ Held /\ ParkedTotal /\ PaidInFull

(* What a step of request q leaves to another request.                     *)
Others(q) ==
  \A r \in Request \ {q} :
    /\ pc'[r] = pc[r] /\ arg'[r] = arg[r] /\ seen'[r] = seen[r]
    /\ \A t \in Request : saleLock[t] = r => saleLock'[t] = r
    /\ \A d \in Day : dayLock[d] = r => dayLock'[d] = r

(* The end of one request touches no other request.                        *)
LEMMA FinishOthers ==
  ASSUME TypeOK, NEW q \in Request, Finish(q)
  PROVE  Others(q) /\ pc'[q] = "done"
BY DEF Finish, Goto, Others, TypeOK, ControlType

(* A step of q that does not touch sales keeps OrderInv if q itself still  *)
(* conforms.                                                               *)
LEMMA QuietStep ==
  ASSUME OrderInv, TypeOK', NEW q \in Request, UNCHANGED sale, Others(q), pc[q] # "done",
         Named(q)', Holds(q)'
  PROVE  OrderInv'
<1>1. IdUnique' /\ ParkedTotal' /\ PaidInFull'
  BY DEF OrderInv, IdUnique, ParkedTotal, PaidInFull, Live, Recreated
<1>2. BornLast'
  BY DEF OrderInv, BornLast, Others
<1>3. RowNamed'
  BY DEF OrderInv, RowNamed, Named, Others, Holding
<1>4. Held'
  <2> SUFFICES ASSUME NEW r \in Request, r # q PROVE Holds(r)'
    BY DEF Held
  <2>1. Recreated(seen[r].row)' <=> Recreated(seen'[r].row)
    BY DEF Recreated
  <2>2. seen'[r] = seen[r] /\ arg'[r] = arg[r] /\ (Holding(r)' => Holding(r))
    BY DEF Others, Holding
  <2>3. Agrees(r) => Agrees(r)'
    BY <2>2 DEF Agrees
  <2>4. saleLock[seen[r].row] = r => saleLock'[seen[r].row] = r
    BY SeenType DEF OrderInv, Others
  <2> QED BY <2>1, <2>2, <2>3, <2>4 DEF OrderInv, Held, Holds
<1> QED BY <1>1, <1>2, <1>3, <1>4 DEF OrderInv

(* A request that ends without touching sales keeps OrderInv.              *)
LEMMA QuietFinish ==
  ASSUME OrderInv, TypeOK', NEW q \in Request, UNCHANGED sale, Finish(q), pc[q] # "done"
  PROVE  OrderInv'
<1>1. Others(q) /\ pc'[q] = "done"
  BY FinishOthers DEF OrderInv
<1>2. Named(q)' /\ Holds(q)'
  BY <1>1 DEF Holding, Named, Holds
<1> QED BY <1>1, <1>2, QuietStep

(* A write of q to the row it holds keeps OrderInv.                        *)
LEMMA RowStep ==
  ASSUME OrderInv, TypeOK', NEW q \in Request, Finish(q), Holding(q), CanWrite(q),
         NEW x \in SaleRow, sale' = [sale EXCEPT ![seen[q].row] = x],
         x.cid = sale[seen[q].row].cid, x.status # "NONE",
         x.status # "DELETED" => Live(seen[q].row),
         x.status = "PARKED" => x.total = x.qty,
         x.status = "COMPLETED" /\ x.kind = "PURCHASE" /\ ~Recreated(seen[q].row) =>
           x.cash + x.online = x.total /\ x.total = x.qty
  PROVE  OrderInv'
<1> DEFINE t == seen[q].row
<1>0. t \in Request /\ sale[t].status # "NONE" /\ sale \in [Request -> SaleRow]
  BY SeenType DEF OrderInv, RowNamed, Named, TypeOK, DataType
<1>1. sale'[t] = x /\ \A u \in Request : u # t => sale'[u] = sale[u]
  BY <1>0
<1>2. Others(q) /\ pc'[q] = "done"
  BY FinishOthers DEF OrderInv
<1>3. \A u \in Request : /\ sale'[u].cid = sale[u].cid
                         /\ sale[u].status = "DELETED" => sale'[u].status = "DELETED"
                         /\ Live(u)' => Live(u)
                         /\ sale'[u].status = "NONE" <=> sale[u].status = "NONE"
  <2>1. sale[t].status = "DELETED" => x.status = "DELETED"
    BY DEF Live
  <2>2. x.status \in {"PARKED", "COMPLETED", "DELETED"}
    BY DEF SaleRow
  <2> QED BY <1>0, <1>1, <2>1, <2>2 DEF Live
<1>4. \A u \in Request : Recreated(u) => Recreated(u)'
  BY <1>3 DEF Recreated
<1>6. IdUnique'
  BY <1>3 DEF OrderInv, IdUnique
<1>7. BornLast'
  BY <1>2, <1>3 DEF OrderInv, BornLast, Others
<1>8. ASSUME NEW r \in Request, r # q
      PROVE  /\ seen'[r] = seen[r] /\ arg'[r] = arg[r] /\ pc'[r] = pc[r]
             /\ seen[r].row \in Request
             /\ Holding(r)' <=> Holding(r)
  BY <1>2, <1>8, SeenType DEF OrderInv, Others, Holding
<1>9. RowNamed'
  <2> SUFFICES ASSUME NEW r \in Request PROVE Named(r)'
    BY DEF RowNamed
  <2>1. CASE r = q
    BY <1>2, <2>1 DEF Named, Holding
  <2>2. CASE r # q
    <3>1. Named(r)
      BY DEF OrderInv, RowNamed
    <3> QED BY <1>3, <1>8, <2>2, <3>1 DEF Named
  <2> QED BY <2>1, <2>2
<1>10. Held'
  <2> SUFFICES ASSUME NEW r \in Request, Holding(r)' PROVE Holds(r)'
    BY DEF Held, Holds
  <2> DEFINE u == seen[r].row
  <2>1. r # q
    BY <1>2 DEF Holding
  <2>2. Holds(r) /\ Holding(r) /\ u \in Request /\ seen'[r] = seen[r] /\ arg'[r] = arg[r]
    BY <1>8, <2>1 DEF OrderInv, Held
  <2>3. CASE Recreated(u)
    <3>1. Recreated(seen[r].row)'
      BY <1>3, <2>2, <2>3 DEF Recreated
    <3> QED BY <3>1 DEF Holds
  <2>4. CASE saleLock[u] = r /\ Agrees(r)
    <3>1. u # t
      BY <2>1, <2>4, RequestAssumption DEF CanWrite
    <3>2. Agrees(r)'
      BY <1>1, <2>2, <2>4, <3>1 DEF Agrees
    <3>3. saleLock'[seen'[r].row] = r
      BY <1>2, <2>1, <2>2, <2>4 DEF Others
    <3> QED BY <3>2, <3>3 DEF Holds
  <2> QED BY <2>2, <2>3, <2>4 DEF Holds
<1>11. ParkedTotal'
  BY <1>0, <1>1 DEF OrderInv, ParkedTotal
<1>12. PaidInFull'
  <2> SUFFICES ASSUME NEW u \in Request, sale'[u].status = "COMPLETED",
                      sale'[u].kind = "PURCHASE", ~Recreated(u)'
               PROVE  /\ sale'[u].cash + sale'[u].online = sale'[u].total
                      /\ sale'[u].total = sale'[u].qty
    BY DEF PaidInFull
  <2>1. ~Recreated(u)
    BY <1>4
  <2>2. CASE u = t
    BY <1>1, <2>1, <2>2
  <2>3. CASE u # t
    BY <1>1, <2>1, <2>3 DEF OrderInv, PaidInFull
  <2> QED BY <2>2, <2>3
<1> QED BY <1>6, <1>7, <1>9, <1>10, <1>11, <1>12 DEF OrderInv

(* The insert of a row with an unused client id keeps OrderInv.            *)
LEMMA BirthStep ==
  ASSUME OrderInv, TypeOK', NEW q \in Request, Finish(q), pc[q] # "done",
         NEW x \in SaleRow, sale' = [sale EXCEPT ![q] = x],
         x.status \in {"PARKED", "COMPLETED"}, ~IdTaken(x.cid),
         x.status = "PARKED" => x.total = x.qty,
         x.status = "COMPLETED" => x.kind = "VOID"
  PROVE  OrderInv'
<1>0. sale \in [Request -> SaleRow]
  BY DEF OrderInv, TypeOK, DataType
<1>1. sale'[q] = x /\ \A u \in Request : u # q => sale'[u] = sale[u]
  BY <1>0
<1>2. Others(q) /\ pc'[q] = "done"
  BY FinishOthers DEF OrderInv
<1>3. sale[q].status = "NONE"
  BY DEF OrderInv, BornLast
<1>4. \A u \in Request : u # q /\ Recreated(u) => Recreated(u)'
  BY <1>1, <1>3 DEF Recreated
<1>5. IdUnique'
  BY <1>1 DEF OrderInv, IdUnique, Live, IdTaken, HasId
<1>6. BornLast'
  BY <1>1, <1>2 DEF OrderInv, BornLast, Others
<1>7. ASSUME NEW r \in Request, pc'[r] = "lockOrder" \/ Holding(r)'
      PROVE  /\ r # q /\ seen'[r] = seen[r] /\ arg'[r] = arg[r] /\ pc'[r] = pc[r]
             /\ Holding(r)' <=> Holding(r)
             /\ seen[r].row \in Request /\ seen[r].row # q
             /\ sale'[seen[r].row] = sale[seen[r].row]
  <2>1. r # q
    BY <1>2, <1>7 DEF Holding
  <2>2. /\ seen'[r] = seen[r] /\ arg'[r] = arg[r] /\ pc'[r] = pc[r]
        /\ Holding(r)' <=> Holding(r)
    BY <1>2, <2>1 DEF Others, Holding
  <2>3. Named(r) /\ seen[r].row \in Request
    BY SeenType DEF OrderInv, RowNamed
  <2>4. seen[r].row # q
    BY <1>3, <1>7, <2>2, <2>3 DEF Named
  <2> QED BY <1>1, <2>1, <2>2, <2>3, <2>4
<1>8. RowNamed'
  <2> SUFFICES ASSUME NEW r \in Request, pc'[r] = "lockOrder" \/ Holding(r)' PROVE Named(r)'
    BY DEF RowNamed, Named
  <2>1. Named(r)
    BY DEF OrderInv, RowNamed
  <2> QED BY <1>7, <2>1 DEF Named
<1>9. Held'
  <2> SUFFICES ASSUME NEW r \in Request, Holding(r)' PROVE Holds(r)'
    BY DEF Held, Holds
  <2>1. Holds(r) /\ Holding(r)
    BY <1>7 DEF OrderInv, Held
  <2>2. CASE Recreated(seen[r].row)
    <3>1. PICK w \in Request : /\ w # seen[r].row /\ sale[w].status = "DELETED"
                               /\ sale[w].cid = sale[seen[r].row].cid
      BY <2>2 DEF Recreated
    <3>2. sale'[w] = sale[w]
      BY <1>1, <1>3, <3>1
    <3> QED BY <1>7, <3>1, <3>2 DEF Holds, Recreated
  <2>3. CASE saleLock[seen[r].row] = r /\ Agrees(r)
    <3>1. Agrees(r)'
      BY <1>7, <2>3 DEF Agrees
    <3>2. saleLock'[seen'[r].row] = r
      BY <1>2, <1>7, <2>3 DEF Others
    <3> QED BY <3>1, <3>2 DEF Holds
  <2> QED BY <2>1, <2>2, <2>3 DEF Holds
<1>10. ParkedTotal'
  BY <1>1 DEF OrderInv, ParkedTotal
<1>11. PaidInFull'
  <2> SUFFICES ASSUME NEW u \in Request, sale'[u].status = "COMPLETED",
                      sale'[u].kind = "PURCHASE", ~Recreated(u)'
               PROVE  /\ sale'[u].cash + sale'[u].online = sale'[u].total
                      /\ sale'[u].total = sale'[u].qty
    BY DEF PaidInFull
  <2>1. u # q
    BY <1>1
  <2>2. sale'[u] = sale[u] /\ ~Recreated(u)
    BY <1>1, <1>4, <2>1
  <2> QED BY <2>2 DEF OrderInv, PaidInFull
<1> QED BY <1>5, <1>6, <1>8, <1>9, <1>10, <1>11 DEF OrderInv

(* The order invariant holds of the empty table.                           *)
LEMMA OrderInit == Init => OrderInv
<1> SUFFICES ASSUME Init PROVE OrderInv
  OBVIOUS
<1>1. TypeOK
  BY InitType
<1>2. \A t \in Request : sale[t].status = "NONE" /\ pc[t] = "idle"
  BY DEF Init
<1> QED BY <1>1, <1>2 DEF OrderInv, IdUnique, Live, BornLast, RowNamed, Named, Held, Holds,
                          Holding, ParkedTotal, PaidInFull

(* Steps of a request that holds no order before or after.                 *)
LEMMA OrderIdle ==
  ASSUME OrderInv, TypeOK', NEW q \in Request,
         \/ Start(q) \/ CreateFindDay(q) \/ CreateLockDay(q)
         \/ OpenReadDays(q) \/ CloseFindDay(q) \/ CloseLockDay(q)
         \/ CloseReadPayments(q) \/ CloseReadSales(q),
         ~Answer(q)
  PROVE  OrderInv'
<1>1. pc[q] # "done" /\ UNCHANGED sale
  BY DEF Start, CreateFindDay, CreateLockDay, OpenReadDays, CloseFindDay, CloseLockDay,
         CloseReadPayments, CloseReadSales, At, db
<1>2. Others(q)
  <2>1. CASE Start(q)
    BY <2>1 DEF Start, Goto, Others, OrderInv, TypeOK, ControlType, db
  <2>2. CASE CreateFindDay(q) \/ CloseFindDay(q)
    BY <2>2 DEF CreateFindDay, CloseFindDay, Goto, Others, OrderInv, TypeOK, ControlType
  <2>3. CASE CreateLockDay(q)
    BY <2>3, RequestAssumption
    DEF CreateLockDay, Goto, Others, OrderInv, TypeOK, ControlType
  <2>4. CASE CloseLockDay(q)
    BY <2>4, RequestAssumption
    DEF CloseLockDay, Goto, Others, OrderInv, TypeOK, ControlType
  <2>5. CASE OpenReadDays(q) \/ CloseReadPayments(q) \/ CloseReadSales(q)
    BY <2>5 DEF OpenReadDays, CloseReadPayments, CloseReadSales, Goto, Others, OrderInv,
                TypeOK, ControlType
  <2> QED BY <2>1, <2>2, <2>3, <2>4, <2>5
<1>3. ~Holding(q)' /\ pc'[q] # "lockOrder"
  <2>1. CASE Start(q)
    BY <2>1 DEF Start, Goto, FirstLabel, Holding, OrderInv, TypeOK, ControlType
  <2>2. CASE CreateFindDay(q) \/ CloseFindDay(q)
    BY <2>2 DEF CreateFindDay, CloseFindDay, Goto, Holding, OrderInv, TypeOK, ControlType
  <2>3. CASE CreateLockDay(q) \/ CloseLockDay(q)
    BY <2>3 DEF CreateLockDay, CloseLockDay, Goto, Holding, OrderInv, TypeOK, ControlType
  <2>4. CASE OpenReadDays(q) \/ CloseReadPayments(q) \/ CloseReadSales(q)
    BY <2>4 DEF OpenReadDays, CloseReadPayments, CloseReadSales, Goto, At, Holding, OrderInv,
                TypeOK, ControlType
  <2> QED BY <2>1, <2>2, <2>3, <2>4
<1> QED BY <1>1, <1>2, <1>3, QuietStep DEF Named, Holds

(* Looking up the row behind a client id keeps the order invariant.        *)
LEMMA OrderIdentify ==
  ASSUME OrderInv, TypeOK', NEW q \in Request, Identify(q), ~Answer(q)
  PROVE  OrderInv'
<1>1. PICK t \in Request : HasId(t, arg[q].cid) /\ seen' = [seen EXCEPT ![q].row = t]
  BY DEF Identify
<1>2. /\ pc[q] = "identify" /\ pc' = [pc EXCEPT ![q] = "lockOrder"]
      /\ UNCHANGED <<sale, dayLock, saleLock, arg>>
  BY DEF Identify, At, Goto, db
<1>3. Others(q)
  BY <1>1, <1>2 DEF Others, OrderInv, TypeOK, ControlType
<1>4. pc'[q] = "lockOrder" /\ seen'[q].row = t
  BY <1>1, <1>2 DEF OrderInv, TypeOK, ControlType, SeenRecord
<1>5. Named(q)' /\ Holds(q)'
  BY <1>1, <1>2, <1>4 DEF Named, Holds, Holding, HasId, Live
<1> QED BY <1>2, <1>3, <1>5, QuietStep

(* The heart: the row that is re-read is the locked one, or its client id  *)
(* was used before.                                                        *)
LEMMA OrderLock ==
  ASSUME OrderInv, TypeOK', NEW q \in Request, LockOrder(q), ~Answer(q)
  PROVE  OrderInv'
<1> DEFINE t0 == seen[q].row
<1>1. PICK t \in Request, d \in Day :
        /\ Reread(q, t) /\ Remember(q, t, d) /\ TakeSaleLock(q)
        /\ \/ MayWrite(q, t) /\ Goto(q, "write")
           \/ arg[q].op = "void" /\ MayVoid(q, t) /\ Goto(q, "lockDay")
        /\ UNCHANGED <<db, dayLock, arg, snap>>
  BY RowType DEF LockOrder, OrderInv
<1>2. /\ pc[q] = "lockOrder" /\ UNCHANGED <<sale, dayLock, arg>>
      /\ saleLock[t0] = Free /\ t0 \in Request
  BY <1>1, SeenType DEF LockOrder, At, db, OrderInv
<1>3. Others(q)
  BY <1>1, <1>2, RequestAssumption
  DEF Others, Remember, TakeSaleLock, Goto, OrderInv, TypeOK, ControlType
<1>4. /\ seen'[q].row = t
      /\ seen'[q].qty = sale[t].qty /\ seen'[q].total = sale[t].total
      /\ seen'[q].cash = sale[t].cash /\ seen'[q].online = sale[t].online
  BY <1>1 DEF Remember, OrderInv, TypeOK, ControlType
<1>5. pc'[q] = "write" \/ (pc'[q] = "lockDay" /\ arg[q].op = "void")
  BY <1>1 DEF Goto, OrderInv, TypeOK, ControlType
<1>6. sale[t0].status # "NONE" /\ sale[t0].cid = arg[q].cid
  BY <1>2 DEF OrderInv, RowNamed, Named
<1>7. Live(t) /\ sale[t].cid = arg[q].cid
  BY <1>1 DEF Reread, HasId
<1>8. Named(q)'
  BY <1>2, <1>4, <1>7 DEF Named, Live
<1>9. sale[t].status = IF arg[q].op \in {"void", "settleChange"} THEN "COMPLETED" ELSE "PARKED"
  BY <1>1 DEF MayWrite, MayVoid, MaySettle, MayEdit
<1>10. Agrees(q)'
  <2>1. arg[q].op = "settleChange" => sale[t].owed > 0 /\ ~sale[t].settled
    BY <1>1 DEF MayWrite, MaySettle
  <2> QED BY <1>2, <1>4, <1>9, <2>1 DEF Agrees
<1>11. CASE Live(t0)
  <2>1. t = t0
    BY <1>2, <1>6, <1>7, <1>11 DEF OrderInv, IdUnique
  <2>2. saleLock'[t0] = q
    BY <1>1, <1>2, <1>11 DEF TakeSaleLock, OrderInv, TypeOK, ControlType
  <2>3. Holds(q)'
    BY <1>4, <1>10, <2>1, <2>2 DEF Holds
  <2> QED BY <1>2, <1>3, <1>8, <2>3, QuietStep
<1>12. CASE ~Live(t0)
  <2>1. sale[t0].status = "DELETED" /\ t0 # t
    BY <1>2, <1>6, <1>7, <1>12, RowType DEF Live, SaleRow, OrderInv
  <2>2. Recreated(seen[q].row)'
    BY <1>2, <1>4, <1>6, <1>7, <2>1 DEF Recreated
  <2>3. Holds(q)'
    BY <2>2 DEF Holds
  <2> QED BY <1>2, <1>3, <1>8, <2>3, QuietStep
<1> QED BY <1>11, <1>12

(* The wait of a void for the day's lock keeps the order invariant.        *)
LEMMA OrderVoidDay ==
  ASSUME OrderInv, TypeOK', NEW q \in Request, VoidLockDay(q), ~Answer(q)
  PROVE  OrderInv'
<1>1. PICK n : seen' = [seen EXCEPT ![q].num = n]
  BY DEF VoidLockDay
<1>2. /\ pc[q] = "lockDay" /\ arg[q].op = "void" /\ pc' = [pc EXCEPT ![q] = "insert"]
      /\ UNCHANGED <<sale, saleLock, arg>>
      /\ dayLock[seen[q].day] = Free /\ dayLock' = [dayLock EXCEPT ![seen[q].day] = q]
  BY DEF VoidLockDay, At, Goto, db
<1>3. Others(q)
  BY <1>1, <1>2, RequestAssumption DEF Others, OrderInv, TypeOK, ControlType
<1>4. Holding(q) /\ Holding(q)' /\ pc'[q] = "insert"
  BY <1>2 DEF Holding, OrderInv, TypeOK, ControlType
<1>5. /\ seen'[q].row = seen[q].row
      /\ seen'[q].qty = seen[q].qty /\ seen'[q].total = seen[q].total
      /\ seen'[q].cash = seen[q].cash /\ seen'[q].online = seen[q].online
  BY <1>1 DEF OrderInv, TypeOK, ControlType, SeenRecord
<1>6. Named(q)'
  BY <1>2, <1>4, <1>5 DEF OrderInv, RowNamed, Named
<1>7. Holds(q)'
  <2>1. Holds(q)
    BY DEF OrderInv, Held
  <2>2. Agrees(q) => Agrees(q)'
    BY <1>2, <1>5 DEF Agrees
  <2>3. Recreated(seen[q].row) => Recreated(seen[q].row)'
    BY <1>2, <1>5 DEF Recreated
  <2> QED BY <1>2, <1>4, <1>5, <2>1, <2>2, <2>3 DEF Holds
<1> QED BY <1>2, <1>3, <1>6, <1>7, QuietStep

(* A row is born with a client id nobody uses, so the invariant stays.     *)
LEMMA OrderInsert ==
  ASSUME OrderInv, TypeOK', NEW q \in Request, CreateInsert(q) \/ VoidInsert(q)
  PROVE  OrderInv'
<1>0. Finish(q) /\ pc[q] = "insert"
  BY DEF CreateInsert, VoidInsert, At
<1>1. CASE UNCHANGED sale
  BY <1>0, <1>1, QuietFinish
<1>2. CASE CreateInsert(q) /\ ~UNCHANGED sale
  <2>1. PICK n \in 1..MaxQty : sale' = [sale EXCEPT ![q] =
          [status |-> "PARKED", kind |-> "PURCHASE", cid |-> arg[q].cid,
           day |-> seen[q].day, num |-> seen[q].num, qty |-> n, total |-> n,
           cash |-> 0, online |-> 0, tip |-> 0, owed |-> 0,
           settled |-> FALSE, corrects |-> q]]
    BY <1>2 DEF CreateInsert
  <2> DEFINE x == [status |-> "PARKED", kind |-> "PURCHASE", cid |-> arg[q].cid,
                   day |-> seen[q].day, num |-> seen[q].num, qty |-> n, total |-> n,
                   cash |-> 0, online |-> 0, tip |-> 0, owed |-> 0,
                   settled |-> FALSE, corrects |-> q]
  <2>2. n \in Int
    OBVIOUS
  <2>3. x \in SaleRow
    BY <2>2, SeenType DEF SaleRow, OrderInv
  <2>4. ~IdTaken(x.cid)
    BY <1>2 DEF CreateInsert, Collides
  <2>5. /\ sale' = [sale EXCEPT ![q] = x] /\ x.status = "PARKED" /\ x.total = x.qty
    BY <2>1
  <2> HIDE DEF x
  <2> QED BY <1>0, <2>3, <2>4, <2>5, BirthStep
<1>3. CASE VoidInsert(q) /\ ~UNCHANGED sale
  <2> DEFINE x == [status |-> "COMPLETED", kind |-> "VOID", cid |-> arg[q].other,
                   day |-> seen[q].day, num |-> seen[q].num,
                   qty |-> -seen[q].qty, total |-> -seen[q].total,
                   cash |-> -seen[q].cash, online |-> -seen[q].online,
                   tip |-> 0, owed |-> 0, settled |-> FALSE, corrects |-> seen[q].row]
  <2>1. x \in SaleRow
    BY SeenType DEF SaleRow, OrderInv
  <2>2. ~IdTaken(x.cid)
    BY <1>3 DEF VoidInsert, Collides
  <2>3. sale' = [sale EXCEPT ![q] = x] /\ x.status = "COMPLETED" /\ x.kind = "VOID"
    BY <1>3 DEF VoidInsert
  <2> HIDE DEF x
  <2> QED BY <1>0, <2>1, <2>2, <2>3, BirthStep
<1> QED BY <1>1, <1>2, <1>3

(* What a writer finds: unless the client id was used before, the row is   *)
(* the one it read.                                                        *)
LEMMA WriterReads ==
  ASSUME OrderInv, NEW q \in Request, pc[q] = "write"
  PROVE  /\ Finish(q) => Holding(q)
         /\ seen[q].row \in Request /\ sale[seen[q].row] \in SaleRow
         /\ sale[seen[q].row].status # "NONE"
         /\ ~Recreated(seen[q].row) => Agrees(q)
BY SeenType, RowType DEF OrderInv, RowNamed, Named, Held, Holds, Holding

(* An edit of an order, or its discard, keeps the order invariant.         *)
LEMMA OrderWriteLine ==
  ASSUME OrderInv, TypeOK', NEW q \in Request, WriteLine(q), ~UNCHANGED sale
  PROVE  OrderInv'
<1> DEFINE t == seen[q].row
<1>0. /\ pc[q] = "write" /\ Finish(q) /\ Holding(q) /\ CanWrite(q)
      /\ arg[q].op \in Mutation /\ Live(t)
      /\ t \in Request /\ sale[t] \in SaleRow /\ sale \in [Request -> SaleRow]
  BY WriterReads DEF WriteLine, At, Holding, OrderInv, TypeOK, DataType
<1>1. ~Recreated(t) => sale[t].status = "PARKED"
  BY <1>0, WriterReads DEF Agrees, Mutation
<1>2. PICK n \in NewQty(q) :
        sale' = IF n = 0
          THEN [sale EXCEPT ![t].status = "DELETED"]
          ELSE [sale EXCEPT ![t].qty = n,
                            ![t].total = IF sale[t].status = "PARKED" THEN n ELSE @]
  BY DEF WriteLine
<1>3. n \in Int
  BY <1>2, NewQtyType DEF OrderInv
<1>4. CASE n = 0
  <2> DEFINE x == [sale[t] EXCEPT !.status = "DELETED"]
  <2>1. x \in SaleRow /\ x.cid = sale[t].cid /\ x.status = "DELETED"
    BY <1>0 DEF SaleRow
  <2>2. sale' = [sale EXCEPT ![t] = x]
    BY <1>2, <1>4
  <2> HIDE DEF x
  <2> QED BY <1>0, <2>1, <2>2, RowStep
<1>5. CASE n # 0
  <2> DEFINE m == IF sale[t].status = "PARKED" THEN n ELSE sale[t].total
             x == [sale[t] EXCEPT !.qty = n, !.total = m]
  <2>1. m \in Int
    BY <1>0, <1>3 DEF SaleRow
  <2>2. /\ x \in SaleRow /\ x.cid = sale[t].cid /\ x.status = sale[t].status
        /\ x.qty = n /\ x.total = m
    BY <1>0, <1>3, <2>1 DEF SaleRow
  <2>3. sale' = [sale EXCEPT ![t] = x]
    BY <1>0, <1>2, <1>5 DEF SaleRow
  <2>4. x.status # "NONE" /\ (x.status = "PARKED" => x.total = x.qty)
    BY <1>0, <2>2 DEF Live
  <2>5. x.status = "COMPLETED" => Recreated(t)
    BY <1>1, <2>2
  <2> HIDE DEF x, m
  <2> QED BY <1>0, <2>2, <2>3, <2>4, <2>5, RowStep
<1> QED BY <1>4, <1>5

(* A completion keeps the invariant: the tender is the total it read.      *)
LEMMA OrderWriteComplete ==
  ASSUME OrderInv, TypeOK', NEW q \in Request, WriteComplete(q), ~UNCHANGED sale
  PROVE  OrderInv'
<1> DEFINE t == seen[q].row
<1>0. /\ pc[q] = "write" /\ Finish(q) /\ Holding(q) /\ CanWrite(q)
      /\ sale[t].status = "PARKED"
      /\ t \in Request /\ sale[t] \in SaleRow /\ sale \in [Request -> SaleRow]
  BY WriterReads DEF WriteComplete, At, Holding, OrderInv, TypeOK, DataType
<1>1. PICK cash \in 0..seen[q].total, tip \in Tip, owed \in Owed \cup {0} :
        sale' = [sale EXCEPT ![t].status = "COMPLETED", ![t].cash = cash,
                             ![t].online = seen[q].total - cash,
                             ![t].tip = tip, ![t].owed = owed]
  BY DEF WriteComplete
<1> DEFINE x == [sale[t] EXCEPT !.status = "COMPLETED", !.cash = cash,
                   !.online = seen[q].total - cash, !.tip = tip, !.owed = owed]
<1>2. /\ cash \in Int /\ seen[q].total \in Int /\ seen[q].total - cash \in Int
      /\ tip \in Nat /\ owed \in Nat
  BY SeenType, AmountAssumption DEF OrderInv
<1>3. /\ x \in SaleRow /\ x.cid = sale[t].cid /\ x.status = "COMPLETED"
      /\ x.total = sale[t].total /\ x.qty = sale[t].qty
      /\ x.cash = cash /\ x.online = seen[q].total - cash
  BY <1>0, <1>2 DEF SaleRow
<1>4. sale' = [sale EXCEPT ![t] = x]
  BY <1>0, <1>1 DEF SaleRow
<1>5. sale[t].total = sale[t].qty
  BY <1>0 DEF OrderInv, ParkedTotal
<1>6. ~Recreated(t) => sale[t].total = seen[q].total
  BY <1>0, WriterReads DEF Agrees
<1>7. ~Recreated(t) => x.cash + x.online = x.total /\ x.total = x.qty
  BY <1>2, <1>3, <1>5, <1>6
<1>8. Live(t)
  BY <1>0 DEF Live
<1> HIDE DEF x
<1> QED BY <1>0, <1>3, <1>4, <1>7, <1>8, RowStep

(* Settling withheld change keeps the order invariant.                     *)
LEMMA OrderWriteSettle ==
  ASSUME OrderInv, TypeOK', NEW q \in Request, WriteSettle(q), ~UNCHANGED sale
  PROVE  OrderInv'
<1> DEFINE t == seen[q].row
           x == [sale[t] EXCEPT !.settled = TRUE]
<1>0. /\ pc[q] = "write" /\ Finish(q) /\ Holding(q) /\ CanWrite(q)
      /\ t \in Request /\ sale[t] \in SaleRow /\ sale[t].status # "NONE"
  BY WriterReads DEF WriteSettle, At, Holding
<1>1. /\ x \in SaleRow /\ x.cid = sale[t].cid /\ x.status = sale[t].status
      /\ x.kind = sale[t].kind /\ x.total = sale[t].total /\ x.qty = sale[t].qty
      /\ x.cash = sale[t].cash /\ x.online = sale[t].online
  BY <1>0 DEF SaleRow
<1>2. sale' = [sale EXCEPT ![t] = x]
  BY DEF WriteSettle
<1>3. x.status # "DELETED" => Live(t)
  BY <1>0, <1>1 DEF Live, SaleRow
<1>4. x.status = "PARKED" => x.total = x.qty
  BY <1>0, <1>1 DEF OrderInv, ParkedTotal
<1>5. x.status = "COMPLETED" /\ x.kind = "PURCHASE" /\ ~Recreated(t) =>
        x.cash + x.online = x.total /\ x.total = x.qty
  BY <1>0, <1>1 DEF OrderInv, PaidInFull
<1> HIDE DEF x
<1> QED BY <1>0, <1>1, <1>2, <1>3, <1>4, <1>5, RowStep

(* Every step keeps the invariant of the orders.                           *)
LEMMA OrderNext == OrderInv /\ TypeOK' /\ [Next]_vars => OrderInv'
<1> SUFFICES ASSUME OrderInv, TypeOK', [Next]_vars PROVE OrderInv'
  OBVIOUS
<1>1. CASE UNCHANGED vars
  BY <1>1 DEF vars, OrderInv, IdUnique, Live, BornLast, RowNamed, Named, Held, Holds,
              Holding, Agrees, Recreated, ParkedTotal, PaidInFull
<1>2. ASSUME NEW q \in Request, Start(q) \/ Advance(q) \/ Abort(q)
      PROVE  OrderInv'
  <2>1. CASE Answer(q) /\ pc[q] # "done"
    BY <2>1, QuietFinish DEF Answer, db
  <2>2. CASE UNCHANGED sale /\ Finish(q) /\ pc[q] # "done"
    BY <2>2, QuietFinish
  <2>3. pc[q] # "done"
    BY <1>2 DEF Start, Abort, Advance, At, CreateFindDay, CreateLockDay, CreateInsert,
      Identify, LockOrder, WriteLine, WriteComplete, WriteSettle, VoidLockDay, VoidInsert,
      OpenReadDays, OpenInsertDay, CloseFindDay, CloseLockDay, CloseReadPayments,
      CloseReadSales, CloseCommit
  <2>4. CASE OpenInsertDay(q) \/ CloseCommit(q)
    BY <2>2, <2>3, <2>4 DEF OpenInsertDay, CloseCommit
  <2>5. CASE WriteLine(q) \/ WriteComplete(q) \/ WriteSettle(q)
    <3>1. Finish(q)
      BY <2>5 DEF WriteLine, WriteComplete, WriteSettle
    <3> QED BY <2>2, <2>3, <2>5, <3>1, OrderWriteLine, OrderWriteComplete, OrderWriteSettle
  <2> QED BY <1>2, <2>1, <2>3, <2>4, <2>5, OrderIdle, OrderIdentify, OrderLock, OrderVoidDay,
             OrderInsert DEF Advance, Abort
<1> QED BY <1>1, <1>2 DEF Next

(* The inductive invariant of the orders holds in every behaviour.         *)
THEOREM OrderInvariant == Spec => []OrderInv
<1>1. OrderInv /\ TypeOK' /\ [Next]_vars => OrderInv'
  BY OrderNext
<1> QED BY <1>1, OrderInit, TypeCorrect, PTL DEF Spec

(* No edit is lost, no tender is checked against an old total, and no void *)
(* negates old amounts, for any number of concurrent requests: a request   *)
(* that is about to write an order read what the order still holds, unless *)
(* the order's client id was used by a discarded order before.             *)
THEOREM EditsAreNotLost == Spec => []NoLostUpdate
<1>1. OrderInv => NoLostUpdate
  <2> SUFFICES ASSUME OrderInv, NEW r \in Request, Holding(r), ~Recreated(seen[r].row)
               PROVE  LET t == seen[r].row IN
                      /\ Live(t)
                      /\ sale[t].qty = seen[r].qty /\ sale[t].total = seen[r].total
                      /\ sale[t].cash = seen[r].cash /\ sale[t].online = seen[r].online
    BY DEF NoLostUpdate, Holding
  <2>1. Agrees(r)
    BY DEF OrderInv, Held, Holds
  <2> QED BY <2>1 DEF Agrees, Live
<1> QED BY <1>1, OrderInvariant, PTL

(* The payments of a completed order add up to its total, and the total to *)
(* its lines, under the same condition.                                    *)
THEOREM CompletedIsPaid == Spec => []PaidInFull
<1>1. OrderInv => PaidInFull
  BY DEF OrderInv
<1> QED BY <1>1, OrderInvariant, PTL

(* A completed order never changes again but that its withheld change is   *)
(* settled once, under the same condition.                                 *)
THEOREM CompletedStaysFrozen == Spec => CompletedIsFrozen
<1> DEFINE Frozen(t) ==
      sale[t].status = "COMPLETED" /\ ~Recreated(t) =>
         \/ sale'[t] = sale[t]
         \/ /\ sale'[t] = [sale[t] EXCEPT !.settled = TRUE]
            /\ ~sale[t].settled /\ sale[t].owed > 0
<1>1. OrderInv /\ [Next]_vars => [\A t \in Request : Frozen(t)]_vars
  <2> SUFFICES ASSUME OrderInv, Next, NEW t \in Request, sale[t].status = "COMPLETED",
                      ~Recreated(t), sale'[t] # sale[t]
               PROVE  /\ sale'[t] = [sale[t] EXCEPT !.settled = TRUE]
                      /\ ~sale[t].settled /\ sale[t].owed > 0
    OBVIOUS
  <2>1. PICK q \in Request : Start(q) \/ Advance(q) \/ Abort(q)
    BY DEF Next
  <2>2. sale \in [Request -> SaleRow]
    BY DEF OrderInv, TypeOK, DataType
  <2>3. CASE CreateInsert(q) \/ VoidInsert(q)
    <3>1. sale[q].status = "NONE"
      BY <2>3 DEF CreateInsert, VoidInsert, At, OrderInv, BornLast
    <3>2. \A u \in Request : u # q => sale'[u] = sale[u]
      BY <2>2, <2>3 DEF CreateInsert, VoidInsert
    <3> QED BY <3>1, <3>2
  <2>4. CASE WriteLine(q) \/ WriteComplete(q) \/ WriteSettle(q)
    <3>1. pc[q] = "write" /\ seen[q].row \in Request
      BY <2>4, SeenType DEF WriteLine, WriteComplete, WriteSettle, At, OrderInv
    <3>2. \A u \in Request : u # seen[q].row => sale'[u] = sale[u]
      BY <2>2, <2>4, <3>1 DEF WriteLine, WriteComplete, WriteSettle
    <3>3. seen[q].row = t
      BY <3>2
    <3>4. Agrees(q)
      BY <3>1, <3>3, WriterReads
    <3>5. arg[q].op \in {"void", "settleChange"}
      BY <3>3, <3>4 DEF Agrees
    <3>6. WriteSettle(q) /\ arg[q].op = "settleChange"
      BY <2>4, <3>5 DEF WriteLine, WriteComplete, WriteSettle, Mutation
    <3> QED BY <2>2, <3>3, <3>4, <3>6 DEF WriteSettle, Agrees
  <2>5. CASE ~(CreateInsert(q) \/ VoidInsert(q) \/ WriteLine(q) \/ WriteComplete(q)
               \/ WriteSettle(q))
    <3>1. UNCHANGED sale
      BY <2>1, <2>5 DEF Start, Abort, Answer, Advance, CreateFindDay, CreateLockDay, Identify,
        LockOrder, VoidLockDay, OpenReadDays, OpenInsertDay, CloseFindDay, CloseLockDay,
        CloseReadPayments, CloseReadSales, CloseCommit, db
    <3> QED BY <3>1
  <2> QED BY <2>3, <2>4, <2>5
<1> QED BY <1>1, OrderInvariant, PTL DEF Spec, CompletedIsFrozen

-----------------------------------------------------------------------------
(* The day: one is open, and whoever holds its lock holds an open day.     *)

(* What a request that inserts or totals may rely on.                      *)
Secure(r) ==
  /\ pc[r] \in {"insert", "readCash"} => IsOpen(seen[r].day) /\ dayLock[seen[r].day] = r
  /\ pc[r] = "insert" => \A t \in RowsOf(seen[r].day) : sale[t].num < seen[r].num
  /\ pc[r] = "insert" /\ arg[r].op = "create" => ~IdTaken(arg[r].cid)

(* The inductive invariant behind OneOpenDay and InsertNeverCollides.      *)
DayInv == TypeOK /\ OneOpenDay /\ \A r \in Request : Secure(r)

(* No row appears, and none moves to another day, number or client id.     *)
NoBirth ==
  \A t \in Request : Live(t)' =>
    Live(t) /\ sale'[t].cid = sale[t].cid /\ sale'[t].num = sale[t].num
            /\ sale'[t].day = sale[t].day

(* A step keeps the day invariant if no row is born and no other request   *)
(* loses the day it works on.                                              *)
LEMMA DayStep ==
  ASSUME DayInv, TypeOK', NEW q \in Request, Others(q), NoBirth, OneOpenDay', Secure(q)',
         \A d \in Day : IsOpen(d) => IsOpen(d)' \/ dayLock[d] = q
  PROVE  DayInv'
<1> SUFFICES ASSUME NEW r \in Request, r # q PROVE Secure(r)'
  BY DEF DayInv
<1>1. Secure(r) /\ seen[r].day \in Day
  BY SeenType DEF DayInv
<1>2. pc'[r] = pc[r] /\ seen'[r] = seen[r] /\ arg'[r] = arg[r]
  BY DEF Others
<1>3. pc[r] \in {"insert", "readCash"} =>
        IsOpen(seen[r].day)' /\ dayLock'[seen'[r].day] = r
  BY <1>1, <1>2 DEF Secure, Others, IsOpen
<1>4. \A t \in Request : t \in RowsOf(seen[r].day)' => t \in RowsOf(seen[r].day)
  BY <1>2 DEF NoBirth, RowsOf
<1>5. pc[r] = "insert" => \A t \in RowsOf(seen[r].day)' : sale'[t].num < seen'[r].num
  BY <1>1, <1>2, <1>4 DEF Secure, NoBirth, RowsOf
<1>6. pc[r] = "insert" /\ arg[r].op = "create" => ~IdTaken(arg[r].cid)'
  BY <1>1, <1>2 DEF Secure, NoBirth, IdTaken, HasId
<1> QED BY <1>2, <1>3, <1>5, <1>6 DEF Secure

(* A request that ends and leaves the days alone.                          *)
LEMMA DayFinish ==
  ASSUME DayInv, TypeOK', NEW q \in Request, Finish(q), NoBirth, UNCHANGED day
  PROVE  DayInv'
<1>1. Others(q) /\ pc'[q] = "done"
  BY FinishOthers DEF DayInv
<1>2. OneOpenDay' /\ \A d \in Day : IsOpen(d) => IsOpen(d)'
  BY DEF DayInv, OneOpenDay, IsOpen
<1>3. Secure(q)'
  BY <1>1 DEF Secure
<1> QED BY <1>1, <1>2, <1>3, DayStep

(* An insert: everyone else at an insert would hold the same day's lock.   *)
LEMMA DayInsert ==
  ASSUME DayInv, TypeOK', NEW q \in Request, CreateInsert(q) \/ VoidInsert(q)
  PROVE  DayInv'
<1>1. /\ pc[q] = "insert" /\ Finish(q) /\ UNCHANGED day
      /\ \A u \in Request : u # q => sale'[u] = sale[u]
  BY DEF CreateInsert, VoidInsert, At, DayInv, TypeOK, DataType
<1>2. Others(q) /\ pc'[q] = "done"
  BY <1>1, FinishOthers DEF DayInv
<1>3. Secure(q) /\ seen[q].day \in Day
  BY SeenType DEF DayInv
<1>4. ASSUME NEW r \in Request PROVE Secure(r)'
  <2>1. CASE r = q
    BY <1>2, <2>1 DEF Secure
  <2>2. CASE r # q
    <3>1. Secure(r) /\ seen[r].day \in Day
      BY SeenType DEF DayInv
    <3>2. pc'[r] = pc[r] /\ seen'[r] = seen[r] /\ arg'[r] = arg[r]
      BY <1>2, <2>2 DEF Others
    <3>3. pc[r] # "insert"
      BY <1>1, <1>3, <2>2, <3>1 DEF Secure, DayInv, OneOpenDay
    <3>4. pc[r] = "readCash" => IsOpen(seen[r].day)' /\ dayLock'[seen'[r].day] = r
      BY <1>1, <1>2, <2>2, <3>1, <3>2 DEF Secure, Others, IsOpen
    <3> QED BY <3>2, <3>3, <3>4 DEF Secure
  <2> QED BY <2>1, <2>2
<1> QED BY <1>1, <1>4 DEF DayInv, OneOpenDay, IsOpen

(* A request that takes the lock of the open day.                          *)
LEMMA DayLockStep ==
  ASSUME DayInv, TypeOK', NEW q \in Request,
         CreateLockDay(q) \/ VoidLockDay(q) \/ CloseLockDay(q), ~Answer(q)
  PROVE  DayInv'
<1> DEFINE d == seen[q].day
<1>1. /\ IsOpen(d) /\ dayLock[d] = Free /\ dayLock' = [dayLock EXCEPT ![d] = q]
      /\ UNCHANGED <<day, sale, saleLock, arg>> /\ d \in Day
  BY SeenType DEF CreateLockDay, VoidLockDay, CloseLockDay, db, DayInv
<1>2. Others(q)
  BY <1>1, RequestAssumption DEF CreateLockDay, VoidLockDay, CloseLockDay, Goto, Others,
     DayInv, TypeOK, ControlType
<1>3. NoBirth /\ OneOpenDay' /\ \A e \in Day : IsOpen(e) <=> IsOpen(e)'
  BY <1>1 DEF NoBirth, Live, OneOpenDay, IsOpen, DayInv
<1>4. seen'[q].day = d /\ dayLock'[d] = q
  BY <1>1 DEF CreateLockDay, VoidLockDay, CloseLockDay, DayInv, TypeOK, ControlType, SeenRecord
<1>5. CASE CloseLockDay(q)
  <2>1. pc'[q] = "readCash"
    BY <1>5 DEF CloseLockDay, Goto, Answer, DayInv, TypeOK, ControlType
  <2>2. Secure(q)'
    BY <1>1, <1>4, <2>1 DEF Secure, IsOpen
  <2> QED BY <1>2, <1>3, <2>2, DayStep
<1>6. CASE CreateLockDay(q) \/ VoidLockDay(q)
  <2>1. PICK m \in {0} \cup {sale[t].num : t \in Request} :
          IsLastNumber(m, d) /\ seen' = [seen EXCEPT ![q].num = m + 1]
    BY <1>6 DEF CreateLockDay, VoidLockDay
  <2>2. m \in Nat /\ seen'[q].num = m + 1
    BY <2>1, RowType DEF DayInv, TypeOK, ControlType, SeenRecord
  <2>3. \A t \in RowsOf(d) : sale[t].num < seen'[q].num
    BY <2>1, <2>2, RowType DEF IsLastNumber, RowsOf, DayInv
  <2>4. RowsOf(seen[q].day)' = RowsOf(d)
    BY <1>1, <1>4 DEF RowsOf, Live
  <2>5. arg[q].op = "create" => ~IdTaken(arg[q].cid)
    BY <1>6 DEF CreateLockDay, VoidLockDay
  <2>6. arg[q].op = "create" => ~IdTaken(arg[q].cid)'
    BY <1>1, <2>5 DEF IdTaken, HasId, Live
  <2>7. Secure(q)'
    BY <1>1, <1>4, <2>3, <2>4, <2>6 DEF Secure, IsOpen
  <2> QED BY <1>2, <1>3, <2>7, DayStep
<1> QED BY <1>5, <1>6

(* Steps of a request that is neither at an insert nor at the totals, and  *)
(* the reads of a close.                                                   *)
LEMMA DayIdle ==
  ASSUME DayInv, TypeOK', NEW q \in Request,
         \/ Start(q) \/ CreateFindDay(q) \/ Identify(q) \/ LockOrder(q)
         \/ OpenReadDays(q) \/ CloseFindDay(q) \/ CloseReadPayments(q) \/ CloseReadSales(q),
         ~Answer(q)
  PROVE  DayInv'
<1>1. UNCHANGED <<day, sale, dayLock>>
  BY DEF Start, CreateFindDay, Identify, LockOrder, OpenReadDays, CloseFindDay,
         CloseReadPayments, CloseReadSales, db
<1>2. NoBirth /\ OneOpenDay' /\ \A e \in Day : IsOpen(e) <=> IsOpen(e)'
  BY <1>1 DEF NoBirth, Live, OneOpenDay, IsOpen, DayInv
<1>3. CASE CloseReadPayments(q) \/ CloseReadSales(q)
  <2>1. UNCHANGED <<pc, arg, seen, saleLock>>
    BY <1>3 DEF CloseReadPayments, CloseReadSales
  <2>2. Secure(q)
    BY DEF DayInv
  <2>3. Secure(q)'
    BY <1>1, <2>1, <2>2 DEF Secure, IsOpen, RowsOf, Live, IdTaken, HasId
  <2> QED BY <1>1, <1>2, <2>1, <2>3, DayStep DEF Others
<1>4. CASE ~(CloseReadPayments(q) \/ CloseReadSales(q))
  <2>1. pc'[q] \notin {"insert", "readCash"}
    BY <1>4 DEF Start, CreateFindDay, Identify, LockOrder, OpenReadDays, CloseFindDay,
      Goto, FirstLabel, DayInv, TypeOK, ControlType
  <2>2. Others(q)
    <3>1. CASE LockOrder(q)
      BY <3>1, RequestAssumption DEF LockOrder, Remember, TakeSaleLock, Goto, Others, DayInv,
         TypeOK, ControlType
    <3>2. CASE ~LockOrder(q)
      BY <1>4, <3>2 DEF Start, CreateFindDay, Identify, OpenReadDays, CloseFindDay, Goto,
         Others, DayInv, TypeOK, ControlType
    <3> QED BY <3>1, <3>2
  <2>3. Secure(q)'
    BY <2>1 DEF Secure
  <2> QED BY <1>2, <2>2, <2>3, DayStep
<1> QED BY <1>3, <1>4

(* Edits, completions and settlements change no day, lock or number.       *)
LEMMA DayWrite ==
  ASSUME DayInv, TypeOK', NEW q \in Request,
         WriteLine(q) \/ WriteComplete(q) \/ WriteSettle(q)
  PROVE  DayInv'
<1>1. Finish(q) /\ UNCHANGED day
  BY DEF WriteLine, WriteComplete, WriteSettle
<1>2. sale \in [Request -> SaleRow] /\ seen[q].row \in Request
  BY SeenType DEF DayInv, TypeOK, DataType
<1>3. NoBirth
  <2> DEFINE t == seen[q].row
             Keeps(x) == x.cid = sale[t].cid /\ x.num = sale[t].num /\ x.day = sale[t].day
  <2>0. sale[t] \in SaleRow
    BY <1>2
  <2>1. CASE WriteLine(q)
    <3>1. CASE UNCHANGED sale
      BY <3>1 DEF NoBirth, Live
    <3>2. CASE ~UNCHANGED sale
      <4>1. Live(t) /\ \A u \in Request : u # t => sale'[u] = sale[u]
        BY <1>2, <2>1, <3>2 DEF WriteLine
      <4>2. PICK n : sale' = IF n = 0
              THEN [sale EXCEPT ![t].status = "DELETED"]
              ELSE [sale EXCEPT ![t].qty = n,
                                ![t].total = IF sale[t].status = "PARKED" THEN n ELSE @]
        BY <2>1, <3>2 DEF WriteLine
      <4>3. Keeps(sale'[t])
        <5>1. CASE n = 0
          BY <1>2, <2>0, <4>2, <5>1 DEF SaleRow
        <5>2. CASE n # 0
          BY <1>2, <2>0, <4>2, <5>2 DEF SaleRow
        <5> QED BY <5>1, <5>2
      <4> QED BY <4>1, <4>3 DEF NoBirth, Live
    <3> QED BY <3>1, <3>2
  <2>2. CASE WriteComplete(q)
    <3>1. CASE UNCHANGED sale
      BY <3>1 DEF NoBirth, Live
    <3>2. CASE ~UNCHANGED sale
      <4>1. Live(t) /\ \A u \in Request : u # t => sale'[u] = sale[u]
        BY <1>2, <2>2, <3>2 DEF WriteComplete, Live
      <4>2. Keeps(sale'[t])
        <5>1. PICK cash \in 0..seen[q].total, tip \in Tip, owed \in Owed \cup {0} :
                sale' = [sale EXCEPT ![t].status = "COMPLETED", ![t].cash = cash,
                                     ![t].online = seen[q].total - cash,
                                     ![t].tip = tip, ![t].owed = owed]
          BY <2>2, <3>2 DEF WriteComplete
        <5> DEFINE x == [sale[t] EXCEPT !.status = "COMPLETED", !.cash = cash,
                           !.online = seen[q].total - cash, !.tip = tip, !.owed = owed]
        <5>2. Keeps(x)
          BY <2>0 DEF SaleRow
        <5>3. sale' = [sale EXCEPT ![t] = x]
          BY <1>2, <2>0, <5>1 DEF SaleRow
        <5> HIDE DEF x
        <5>4. sale'[t] = x
          BY <1>2, <5>3
        <5> QED BY <5>2, <5>4
      <4> QED BY <4>1, <4>2 DEF NoBirth, Live
    <3> QED BY <3>1, <3>2
  <2>3. CASE WriteSettle(q)
    <3>1. \A u \in Request : u # t => sale'[u] = sale[u]
      BY <1>2, <2>3 DEF WriteSettle
    <3>2. Keeps(sale'[t]) /\ sale'[t].status = sale[t].status
      BY <1>2, <2>0, <2>3 DEF WriteSettle, SaleRow
    <3> QED BY <3>1, <3>2 DEF NoBirth, Live
  <2> QED BY <2>1, <2>2, <2>3
<1> QED BY <1>1, <1>3, DayFinish

(* Opening adds one open day where none was; closing closes the day the    *)
(* closer holds.                                                           *)
LEMMA DayOpenClose ==
  ASSUME DayInv, TypeOK', NEW q \in Request, OpenInsertDay(q) \/ CloseCommit(q)
  PROVE  DayInv'
<1>1. Finish(q) /\ UNCHANGED sale
  BY DEF OpenInsertDay, CloseCommit
<1>2. Others(q) /\ pc'[q] = "done" /\ NoBirth
  BY <1>1, FinishOthers DEF DayInv, NoBirth, Live
<1>3. Secure(q)'
  BY <1>2 DEF Secure
<1>4. CASE OpenInsertDay(q)
  <2>1. OneOpenDay' /\ \A d \in Day : IsOpen(d) => IsOpen(d)'
    BY <1>4 DEF OpenInsertDay, OneOpenDay, IsOpen, DayInv, TypeOK, DataType
  <2> QED BY <1>2, <1>3, <2>1, DayStep
<1>5. CASE CloseCommit(q)
  <2>1. Secure(q) /\ seen[q].day \in Day
    BY SeenType DEF DayInv
  <2>2. dayLock[seen[q].day] = q
    BY <1>5, <2>1 DEF CloseCommit, At, Secure
  <2>3. OneOpenDay' /\ \A d \in Day : IsOpen(d) => IsOpen(d)' \/ d = seen[q].day
    BY <1>5, <2>1 DEF CloseCommit, OneOpenDay, IsOpen, DayInv, TypeOK, DataType
  <2> QED BY <1>2, <1>3, <2>2, <2>3, DayStep
<1> QED BY <1>4, <1>5

(* Every step keeps the day invariant.                                     *)
LEMMA DayNext == DayInv /\ TypeOK' /\ [Next]_vars => DayInv'
<1> SUFFICES ASSUME DayInv, TypeOK', [Next]_vars PROVE DayInv'
  OBVIOUS
<1>1. CASE UNCHANGED vars
  BY <1>1 DEF vars, DayInv, OneOpenDay, IsOpen, Secure, RowsOf, Live, IdTaken, HasId
<1>2. ASSUME NEW q \in Request, Start(q) \/ Advance(q) \/ Abort(q)
      PROVE  DayInv'
  <2>1. CASE Answer(q)
    BY <2>1, DayFinish DEF Answer, db, NoBirth, Live
  <2> QED BY <1>2, <2>1, DayIdle, DayLockStep, DayInsert, DayWrite, DayOpenClose
      DEF Advance, Abort
<1> QED BY <1>1, <1>2 DEF Next

(* The inductive invariant of the days holds in every behaviour.           *)
THEOREM DayInvariant == Spec => []DayInv
<1>1. Init => DayInv
  BY InitType DEF Init, DayInv, OneOpenDay, IsOpen, Secure
<1>2. DayInv /\ TypeOK' /\ [Next]_vars => DayInv'
  BY DayNext
<1> QED BY <1>1, <1>2, TypeCorrect, PTL DEF Spec

(* At most one business day is open, for any number of racing opens and    *)
(* closes.                                                                 *)
THEOREM OneDayIsOpen == Spec => []OneOpenDay
<1>1. DayInv => OneOpenDay
  BY DEF DayInv
<1> QED BY <1>1, DayInvariant, PTL

(* The day's lock, not the unique index, makes order numbers unique: an    *)
(* insert never meets its own number, and a create never its own id.       *)
THEOREM NumbersNeverCollide == Spec => []InsertNeverCollides
<1>1. DayInv => InsertNeverCollides
  BY DEF DayInv, InsertNeverCollides, Secure
<1> QED BY <1>1, DayInvariant, PTL


-----------------------------------------------------------------------------
(* Lines: a request that names a line holds the row the line belongs to.   *)

(* The request has the lock of the row, and the row is as it read it.      *)
Firm(r) == saleLock[seen[r].row] = r /\ Agrees(r)

(* The line a request names belongs to the row it locked, even where the   *)
(* order's client id was used before.                                      *)
LinesFirm == \A r \in Request : Holding(r) /\ arg[r].op \in NamesLine => Firm(r)

(* Only purchases are looked up.                                           *)
PurchaseHeld ==
  \A r \in Request :
    pc[r] = "lockOrder" \/ Holding(r) => sale[seen[r].row].kind = "PURCHASE"

(* The quantity a request computes with is that of an order with a line.   *)
SeenFilled == \A r \in Request : Holding(r) => seen[r].qty >= 1

(* The inductive invariant behind NoEmptyOrder: an edit subtracts from a   *)
(* quantity that is positive, and discards the order at zero only when it  *)
(* has locked the very row.                                                *)
LineInv == OrderInv /\ LinesFirm /\ PurchaseHeld /\ SeenFilled /\ NoEmptyOrder

(* The columns that no statement updates.                                  *)
SameRow(x, y) == x.kind = y.kind /\ x.cid = y.cid /\ x.day = y.day /\ x.corrects = y.corrects

(* q inserts the row x.                                                    *)
Born(q, x) ==
  /\ pc[q] = "insert" /\ Finish(q) /\ UNCHANGED <<day, closing>>
  /\ sale[q].status = "NONE" /\ sale' = [sale EXCEPT ![q] = x]
  /\ x.day = seen[q].day
  /\ \/ x.status = "PARKED" /\ x.kind = "PURCHASE" /\ x.qty >= 1
     \/ /\ arg[q].op = "void" /\ x.status = "COMPLETED" /\ x.kind = "VOID"
        /\ x.corrects = seen[q].row /\ x.total = -seen[q].total
        /\ x.cash = -seen[q].cash /\ x.online = -seen[q].online

(* q writes x over the row it holds.                                       *)
Written(q, x) == LET t == seen[q].row IN
  /\ pc[q] = "write" /\ Finish(q) /\ CanWrite(q) /\ UNCHANGED <<day, closing>>
  /\ sale' = [sale EXCEPT ![t] = x]
  /\ SameRow(x, sale[t])
  /\ x.status = "DELETED" \/ (Live(t) /\ x.status # "NONE" /\ x.qty >= 1)
  /\ sale[t].status = "COMPLETED" =>
       /\ x.status = "COMPLETED" /\ x.total = sale[t].total
       /\ x.cash = sale[t].cash /\ x.online = sale[t].online

(* The steps of request q.                                                 *)
Step(q) == Start(q) \/ Advance(q) \/ Abort(q)

(* The steps of q that end it with a write to sales.                       *)
Inserts(q) == CreateInsert(q) \/ VoidInsert(q)
Writes(q) == WriteLine(q) \/ WriteComplete(q) \/ WriteSettle(q)

(* The steps of q after which it goes on.                                  *)
GoesOn(q) ==
  \/ Start(q) \/ CreateFindDay(q) \/ CreateLockDay(q) \/ Identify(q) \/ LockOrder(q)
  \/ VoidLockDay(q) \/ OpenReadDays(q) \/ CloseFindDay(q) \/ CloseLockDay(q)
  \/ CloseReadPayments(q) \/ CloseReadSales(q)

(* A step goes on, or it ends the request.                                 *)
LEMMA StepGoesOnOrEnds ==
  ASSUME NEW q \in Request, Step(q)
  PROVE  GoesOn(q) \/ Finish(q)
BY DEF Step, Advance, Abort, GoesOn, Answer, CreateInsert, VoidInsert, WriteLine,
       WriteComplete, WriteSettle, OpenInsertDay, CloseCommit

(* A step of one request leaves the others where they are.                 *)
LEMMA StepOthers ==
  ASSUME TypeOK, NEW q \in Request, Step(q)
  PROVE  Others(q)
<1>1. CASE Finish(q)
  BY <1>1, FinishOthers
<1>2. CASE GoesOn(q) /\ ~Finish(q)
  <2>1. CASE Start(q)
    BY <2>1 DEF Start, Goto, Others, TypeOK, ControlType, db
  <2>2. CASE CreateFindDay(q) \/ CloseFindDay(q)
    BY <1>2, <2>2 DEF CreateFindDay, CloseFindDay, Answer, Goto, Others, TypeOK, ControlType
  <2>3. CASE CreateLockDay(q)
    BY <1>2, <2>3, RequestAssumption, SeenType
    DEF CreateLockDay, Answer, Goto, Others, TypeOK, ControlType
  <2>4. CASE CloseLockDay(q) \/ VoidLockDay(q)
    BY <1>2, <2>4, RequestAssumption, SeenType
    DEF CloseLockDay, VoidLockDay, Answer, Goto, Others, TypeOK, ControlType
  <2>5. CASE OpenReadDays(q) \/ CloseReadPayments(q) \/ CloseReadSales(q)
    BY <1>2, <2>5 DEF OpenReadDays, CloseReadPayments, CloseReadSales, Answer, Goto, Others,
       TypeOK, ControlType
  <2>6. CASE Identify(q)
    BY <1>2, <2>6 DEF Identify, Answer, Goto, Others, TypeOK, ControlType
  <2>7. CASE LockOrder(q)
    BY <1>2, <2>7, RequestAssumption, SeenType
    DEF LockOrder, Answer, Remember, TakeSaleLock, Goto, Others, TypeOK, ControlType
  <2> QED BY <1>2, <2>1, <2>2, <2>3, <2>4, <2>5, <2>6, <2>7 DEF GoesOn
<1> QED BY <1>1, <1>2, StepGoesOnOrEnds

(* A step that goes on leaves the rows alone.                              *)
LEMMA GoesOnQuiet ==
  ASSUME NEW q \in Request, Step(q), ~Inserts(q), ~Writes(q)
  PROVE  UNCHANGED sale
BY DEF Step, Inserts, Writes, Start, Abort, Answer, Advance, CreateFindDay, CreateLockDay,
  Identify, LockOrder, VoidLockDay, OpenReadDays, OpenInsertDay, CloseFindDay, CloseLockDay,
  CloseReadPayments, CloseReadSales, CloseCommit, db

(* A row is born as a parked purchase with a line, or as a void.           *)
LEMMA InsertBears ==
  ASSUME LineInv, NEW q \in Request, Inserts(q), ~UNCHANGED sale
  PROVE  \E x \in SaleRow : Born(q, x)
<1>0. pc[q] = "insert" /\ Finish(q) /\ sale[q].status = "NONE" /\ UNCHANGED <<day, closing>>
  BY DEF Inserts, CreateInsert, VoidInsert, At, LineInv, OrderInv, BornLast
<1>1. CASE CreateInsert(q)
  <2>1. PICK n \in 1..MaxQty : sale' = [sale EXCEPT ![q] =
          [status |-> "PARKED", kind |-> "PURCHASE", cid |-> arg[q].cid,
           day |-> seen[q].day, num |-> seen[q].num, qty |-> n, total |-> n,
           cash |-> 0, online |-> 0, tip |-> 0, owed |-> 0,
           settled |-> FALSE, corrects |-> q]]
    BY <1>1 DEF CreateInsert
  <2> DEFINE x == [status |-> "PARKED", kind |-> "PURCHASE", cid |-> arg[q].cid,
                   day |-> seen[q].day, num |-> seen[q].num, qty |-> n, total |-> n,
                   cash |-> 0, online |-> 0, tip |-> 0, owed |-> 0,
                   settled |-> FALSE, corrects |-> q]
  <2>2. n \in Int /\ n >= 1
    BY AmountAssumption
  <2>3. x \in SaleRow
    BY <2>2, SeenType DEF SaleRow, LineInv, OrderInv
  <2>4. Born(q, x)
    BY <1>0, <2>1, <2>2 DEF Born
  <2> QED BY <2>3, <2>4
<1>2. CASE VoidInsert(q)
  <2> DEFINE x == [status |-> "COMPLETED", kind |-> "VOID", cid |-> arg[q].other,
                   day |-> seen[q].day, num |-> seen[q].num,
                   qty |-> -seen[q].qty, total |-> -seen[q].total,
                   cash |-> -seen[q].cash, online |-> -seen[q].online,
                   tip |-> 0, owed |-> 0, settled |-> FALSE, corrects |-> seen[q].row]
  <2>1. x \in SaleRow
    BY SeenType DEF SaleRow, LineInv, OrderInv
  <2>2. Born(q, x)
    BY <1>0, <1>2 DEF Born, VoidInsert
  <2> QED BY <2>1, <2>2
<1> QED BY <1>1, <1>2 DEF Inserts

(* An edit of a completed order adds to it or leaves it as it is: only a   *)
(* header update and an added line can meet one (see Reread).              *)
LEMMA EditKeeps ==
  ASSUME LineInv, NEW q \in Request, WriteLine(q), NEW n \in NewQty(q), Live(seen[q].row)
  PROVE  /\ n \in Int /\ n >= 0
         /\ sale[seen[q].row].status = "COMPLETED" => n # 0
<1> DEFINE t == seen[q].row
<1>1. /\ Holding(q) /\ arg[q].op \in Mutation /\ t \in Request /\ sale[t].kind = "PURCHASE"
      /\ seen[q].qty \in Int /\ seen[q].qty >= 1 /\ MaxQty \in Nat
      /\ sale[t].qty \in Int /\ sale[t].qty >= 1
  BY SeenType, RowType, AmountAssumption
  DEF WriteLine, At, Holding, LineInv, OrderInv, SeenFilled, PurchaseHeld, NoEmptyOrder
<1>2. n \in Int
  BY NewQtyType DEF LineInv, OrderInv
<1>3. CASE arg[q].op \in {"update", "addLine"}
  BY <1>1, <1>3 DEF NewQty
<1>4. CASE arg[q].op \in NamesLine
  <2>1. sale[t].status = "PARKED"
    BY <1>1, <1>4 DEF LineInv, LinesFirm, Firm, Agrees, NamesLine, Mutation
  <2>2. n >= 0
    BY <1>1, <1>2, <1>4 DEF NewQty, NamesLine, Mutation
  <2> QED BY <1>2, <2>1, <2>2
<1> QED BY <1>1, <1>3, <1>4 DEF NamesLine, Mutation

(* A write keeps the columns of identity, leaves no live order without a   *)
(* line and changes no figure of a completed one.                          *)
LEMMA WriteKeeps ==
  ASSUME LineInv, NEW q \in Request, Writes(q), ~UNCHANGED sale
  PROVE  \E x \in SaleRow : Written(q, x)
<1> DEFINE t == seen[q].row
<1>0. /\ pc[q] = "write" /\ Finish(q) /\ CanWrite(q) /\ UNCHANGED <<day, closing>>
      /\ Holding(q) /\ sale[t].kind = "PURCHASE"
      /\ t \in Request /\ sale[t] \in SaleRow /\ sale \in [Request -> SaleRow]
  BY WriterReads DEF Writes, WriteLine, WriteComplete, WriteSettle, At, Holding, LineInv,
     PurchaseHeld, OrderInv, TypeOK, DataType
<1>1. CASE WriteLine(q)
  <2>0. Live(t)
    BY <1>1 DEF WriteLine
  <2>1. PICK n \in NewQty(q) :
          sale' = IF n = 0
            THEN [sale EXCEPT ![t].status = "DELETED"]
            ELSE [sale EXCEPT ![t].qty = n,
                              ![t].total = IF sale[t].status = "PARKED" THEN n ELSE @]
    BY <1>1 DEF WriteLine
  <2>2. n \in Int /\ n >= 0 /\ (sale[t].status = "COMPLETED" => n # 0)
    BY <1>1, <2>0, EditKeeps
  <2>3. CASE n = 0
    <3> DEFINE x == [sale[t] EXCEPT !.status = "DELETED"]
    <3>1. x \in SaleRow /\ SameRow(x, sale[t]) /\ x.status = "DELETED"
      BY <1>0 DEF SaleRow, SameRow
    <3>2. sale' = [sale EXCEPT ![t] = x]
      BY <2>1, <2>3
    <3> HIDE DEF x
    <3>3. Written(q, x)
      BY <1>0, <2>2, <2>3, <3>1, <3>2 DEF Written
    <3> QED BY <3>1, <3>3
  <2>4. CASE n # 0
    <3> DEFINE m == IF sale[t].status = "PARKED" THEN n ELSE sale[t].total
               x == [sale[t] EXCEPT !.qty = n, !.total = m]
    <3>1. m \in Int
      BY <1>0, <2>2 DEF SaleRow
    <3>2. /\ x \in SaleRow /\ SameRow(x, sale[t]) /\ x.status = sale[t].status
          /\ x.qty = n /\ x.total = m /\ x.cash = sale[t].cash /\ x.online = sale[t].online
      BY <1>0, <2>2, <3>1 DEF SaleRow, SameRow
    <3>3. sale' = [sale EXCEPT ![t] = x]
      BY <1>0, <2>1, <2>4 DEF SaleRow
    <3>4. sale[t].status = "COMPLETED" => m = sale[t].total
      OBVIOUS
    <3>5. n >= 1
      BY <2>2, <2>4
    <3> HIDE DEF x, m
    <3>6. Written(q, x)
      BY <1>0, <2>0, <3>2, <3>3, <3>4, <3>5 DEF Written, Live
    <3> QED BY <3>2, <3>6
  <2> QED BY <2>3, <2>4
<1>2. CASE WriteComplete(q)
  <2>1. PICK cash \in 0..seen[q].total, tip \in Tip, owed \in Owed \cup {0} :
          sale' = [sale EXCEPT ![t].status = "COMPLETED", ![t].cash = cash,
                               ![t].online = seen[q].total - cash,
                               ![t].tip = tip, ![t].owed = owed]
    BY <1>2 DEF WriteComplete
  <2> DEFINE x == [sale[t] EXCEPT !.status = "COMPLETED", !.cash = cash,
                     !.online = seen[q].total - cash, !.tip = tip, !.owed = owed]
  <2>2. /\ cash \in Int /\ seen[q].total \in Int /\ seen[q].total - cash \in Int
        /\ tip \in Nat /\ owed \in Nat
    BY SeenType, AmountAssumption DEF LineInv, OrderInv
  <2>3. /\ x \in SaleRow /\ SameRow(x, sale[t]) /\ x.status = "COMPLETED"
        /\ x.qty = sale[t].qty
    BY <1>0, <2>2 DEF SaleRow, SameRow
  <2>4. sale' = [sale EXCEPT ![t] = x]
    BY <1>0, <2>1 DEF SaleRow
  <2>5. sale[t].status = "PARKED" /\ Live(t)
    BY <1>2 DEF WriteComplete, Live
  <2>6. sale[t].qty >= 1
    BY <1>0, <2>5 DEF LineInv, NoEmptyOrder
  <2> HIDE DEF x
  <2>7. Written(q, x)
    BY <1>0, <2>3, <2>4, <2>5, <2>6 DEF Written
  <2> QED BY <2>3, <2>7
<1>3. CASE WriteSettle(q)
  <2> DEFINE x == [sale[t] EXCEPT !.settled = TRUE]
  <2>1. /\ x \in SaleRow /\ SameRow(x, sale[t]) /\ x.status = sale[t].status
        /\ x.qty = sale[t].qty /\ x.total = sale[t].total
        /\ x.cash = sale[t].cash /\ x.online = sale[t].online
    BY <1>0 DEF SaleRow, SameRow
  <2>2. sale' = [sale EXCEPT ![t] = x]
    BY <1>3 DEF WriteSettle
  <2>3. sale[t].status # "NONE"
    BY <1>0, WriterReads DEF LineInv
  <2>4. x.status = "DELETED" \/ (Live(t) /\ x.status # "NONE" /\ x.qty >= 1)
    BY <1>0, <2>1, <2>3 DEF Live, SaleRow, LineInv, NoEmptyOrder
  <2> HIDE DEF x
  <2>5. Written(q, x)
    BY <1>0, <2>1, <2>2, <2>4 DEF Written
  <2> QED BY <2>1, <2>5
<1> QED BY <1>1, <1>2, <1>3 DEF Writes

(* What a step may do to the rows.                                         *)
LEMMA StepOnRows ==
  ASSUME LineInv, NEW q \in Request, Step(q)
  PROVE  \/ UNCHANGED sale
         \/ \E x \in SaleRow : Born(q, x) \/ Written(q, x)
BY GoesOnQuiet, InsertBears, WriteKeeps

(* Where a request may hold an order or be about to lock one.              *)
OnRow(r) == pc[r] = "lockOrder" \/ Holding(r)

(* A row that a request works on keeps its identity, stays deleted once it *)
(* is deleted, and keeps its figures once it is completed.                 *)
LEMMA RowKept ==
  ASSUME LineInv, NEW q \in Request, Step(q), NEW t \in Request, sale[t].status # "NONE"
  PROVE  /\ SameRow(sale'[t], sale[t]) /\ sale'[t].status # "NONE"
         /\ sale[t].status = "DELETED" => sale'[t].status = "DELETED"
         /\ sale[t].status = "COMPLETED" =>
              /\ sale'[t].status = "COMPLETED" /\ sale'[t].total = sale[t].total
              /\ sale'[t].cash = sale[t].cash /\ sale'[t].online = sale[t].online
<1>0. sale \in [Request -> SaleRow]
  BY DEF LineInv, OrderInv, TypeOK, DataType
<1>1. CASE UNCHANGED sale
  BY <1>1 DEF SameRow
<1>2. ASSUME NEW x \in SaleRow, Born(q, x)
      PROVE  sale'[t] = sale[t]
  BY <1>0, <1>2 DEF Born
<1>3. ASSUME NEW x \in SaleRow, Written(q, x)
      PROVE  \/ sale'[t] = sale[t]
             \/ /\ sale'[t] = x /\ SameRow(x, sale[t]) /\ x.status # "NONE"
                /\ sale[t].status = "DELETED" => x.status = "DELETED"
                /\ sale[t].status = "COMPLETED" =>
                     /\ x.status = "COMPLETED" /\ x.total = sale[t].total
                     /\ x.cash = sale[t].cash /\ x.online = sale[t].online
  BY <1>0, <1>3 DEF Written, Live
<1>4. CASE sale'[t] = sale[t]
  BY <1>4 DEF SameRow
<1> QED BY <1>1, <1>2, <1>3, <1>4, StepOnRows

(* A discarded namesake stays discarded.                                   *)
LEMMA RecreatedStays ==
  ASSUME LineInv, NEW q \in Request, Step(q), NEW t \in Request, sale[t].status # "NONE",
         Recreated(t)
  PROVE  Recreated(t)'
<1>1. PICK u \in Request : u # t /\ sale[u].status = "DELETED" /\ sale[u].cid = sale[t].cid
  BY DEF Recreated
<1>2. /\ sale'[u].status = "DELETED" /\ sale'[u].cid = sale[u].cid
      /\ sale'[t].cid = sale[t].cid
  BY <1>1, RowKept DEF SameRow
<1> QED BY <1>1, <1>2 DEF Recreated

(* Nobody writes a row that another request has locked.                    *)
LEMMA FirmStays ==
  ASSUME LineInv, NEW q \in Request, Step(q), NEW r \in Request, r # q, Firm(r)
  PROVE  Firm(r)' /\ sale'[seen[r].row] = sale[seen[r].row]
<1> DEFINE u == seen[r].row
<1>0. /\ sale \in [Request -> SaleRow] /\ u \in Request /\ saleLock[u] = r
      /\ sale[u].status # "NONE"
  BY SeenType DEF LineInv, OrderInv, TypeOK, DataType, Firm, Agrees
<1>1. Others(q)
  BY StepOthers DEF LineInv, OrderInv
<1>2. seen'[r] = seen[r] /\ arg'[r] = arg[r] /\ saleLock'[u] = r
  BY <1>0, <1>1 DEF Others
<1>3. sale'[u] = sale[u]
  <2>1. ASSUME NEW x \in SaleRow, Born(q, x) PROVE sale'[u] = sale[u]
    BY <1>0, <2>1 DEF Born
  <2>2. ASSUME NEW x \in SaleRow, Written(q, x) PROVE sale'[u] = sale[u]
    <3>1. u # seen[q].row
      BY <1>0, <2>2, RequestAssumption DEF Written, CanWrite
    <3> QED BY <1>0, <2>2, <3>1 DEF Written
  <2> QED BY <2>1, <2>2, StepOnRows
<1>4. Agrees(r)'
  BY <1>2, <1>3 DEF Firm, Agrees
<1> QED BY <1>2, <1>3, <1>4 DEF Firm

(* How a request comes to an order: by its id, by the row's lock, by the   *)
(* day's lock.                                                             *)
LEMMA HoldersCome ==
  ASSUME LineInv, NEW q \in Request, Step(q), OnRow(q)'
  PROVE  /\ Identify(q) \/ LockOrder(q) \/ VoidLockDay(q)
         /\ ~Answer(q)
         /\ pc[q] = "identify" \/ OnRow(q)
<1>1. ~Finish(q)
  BY FinishOthers DEF OnRow, Holding, LineInv, OrderInv
<1>2. Identify(q) \/ LockOrder(q) \/ VoidLockDay(q)
  <2>1. ~Start(q)
    BY DEF Start, Goto, FirstLabel, OnRow, Holding, LineInv, OrderInv, TypeOK, ControlType
  <2>2. ~(CreateFindDay(q) \/ CloseFindDay(q) \/ CreateLockDay(q) \/ CloseLockDay(q))
    BY <1>1 DEF CreateFindDay, CloseFindDay, CreateLockDay, CloseLockDay, Answer, Goto,
       OnRow, Holding, LineInv, OrderInv, TypeOK, ControlType
  <2>3. ~(OpenReadDays(q) \/ CloseReadPayments(q) \/ CloseReadSales(q))
    BY <1>1 DEF OpenReadDays, CloseReadPayments, CloseReadSales, Answer, Goto, At,
       OnRow, Holding, LineInv, OrderInv, TypeOK, ControlType
  <2> QED BY <1>1, <2>1, <2>2, <2>3, StepGoesOnOrEnds DEF GoesOn
<1>3. pc[q] = "identify" \/ OnRow(q)
  BY <1>2 DEF Identify, LockOrder, VoidLockDay, At, OnRow, Holding
<1> QED BY <1>1, <1>2, <1>3 DEF Answer

(* What a request has when it has come to an order.                        *)
LEMMA HolderGets ==
  ASSUME LineInv, NEW q \in Request, Identify(q) \/ LockOrder(q) \/ VoidLockDay(q), ~Answer(q)
  PROVE  /\ UNCHANGED <<day, sale, closing, arg, snap>>
         /\ \/ /\ VoidLockDay(q) /\ OnRow(q) /\ Holding(q) /\ arg[q].op = "void"
               /\ pc'[q] = "insert" /\ Holding(q)'
               /\ seen'[q].row = seen[q].row /\ seen'[q].day = seen[q].day
               /\ seen'[q].qty = seen[q].qty /\ seen'[q].total = seen[q].total
               /\ seen'[q].cash = seen[q].cash /\ seen'[q].online = seen[q].online
            \/ /\ Identify(q) /\ pc'[q] = "lockOrder" /\ sale[seen'[q].row].kind = "PURCHASE"
               /\ Live(seen'[q].row)
            \/ LET t == seen'[q].row IN
               /\ LockOrder(q) /\ OnRow(q) /\ t \in Request /\ Reread(q, t)
               /\ seen'[q].qty = sale[t].qty /\ seen'[q].total = sale[t].total
               /\ seen'[q].cash = sale[t].cash /\ seen'[q].online = sale[t].online
               /\ \/ pc'[q] = "write" /\ MayWrite(q, t)
                  \/ pc'[q] = "lockDay" /\ arg[q].op = "void" /\ MayVoid(q, t)
               /\ Live(seen[q].row) => saleLock'[seen[q].row] = q
<1>0. /\ seen \in [Request -> SeenRecord] /\ pc \in [Request -> Label]
      /\ saleLock \in [Request -> Request \cup {Free}] /\ seen[q].row \in Request
  BY SeenType DEF LineInv, OrderInv, TypeOK, ControlType
<1>1. UNCHANGED <<day, sale, closing, arg, snap>>
  BY DEF Identify, LockOrder, VoidLockDay, db
<1>2. CASE VoidLockDay(q)
  <2>1. PICK n : seen' = [seen EXCEPT ![q].num = n]
    BY <1>2 DEF VoidLockDay
  <2>2. /\ pc[q] = "lockDay" /\ arg[q].op = "void" /\ pc' = [pc EXCEPT ![q] = "insert"]
        /\ arg' = arg
    BY <1>2 DEF VoidLockDay, At, Goto
  <2>3. Holding(q) /\ OnRow(q) /\ pc'[q] = "insert" /\ Holding(q)'
    BY <1>0, <2>2 DEF Holding, OnRow
  <2>4. /\ seen'[q].row = seen[q].row /\ seen'[q].day = seen[q].day
        /\ seen'[q].qty = seen[q].qty /\ seen'[q].total = seen[q].total
        /\ seen'[q].cash = seen[q].cash /\ seen'[q].online = seen[q].online
    BY <1>0, <2>1 DEF SeenRecord
  <2> QED BY <1>1, <1>2, <2>2, <2>3, <2>4
<1>3. CASE Identify(q)
  <2>1. PICK t \in Request :
          /\ HasId(t, arg[q].cid) /\ sale[t].kind = "PURCHASE"
          /\ seen' = [seen EXCEPT ![q].row = t]
    BY <1>3 DEF Identify
  <2>2. pc'[q] = "lockOrder" /\ seen'[q].row = t
    BY <1>0, <1>3, <2>1 DEF Identify, Goto, SeenRecord
  <2> QED BY <1>1, <1>3, <2>1, <2>2 DEF HasId
<1>4. CASE LockOrder(q)
  <2>1. PICK t \in Request, d \in Day :
          /\ Reread(q, t) /\ Remember(q, t, d) /\ TakeSaleLock(q)
          /\ \/ MayWrite(q, t) /\ Goto(q, "write")
             \/ arg[q].op = "void" /\ MayVoid(q, t) /\ Goto(q, "lockDay")
    BY <1>4, RowType DEF LockOrder, LineInv, OrderInv
  <2>2. /\ seen'[q].row = t
        /\ seen'[q].qty = sale[t].qty /\ seen'[q].total = sale[t].total
        /\ seen'[q].cash = sale[t].cash /\ seen'[q].online = sale[t].online
    BY <1>0, <2>1 DEF Remember
  <2>3. \/ pc'[q] = "write" /\ MayWrite(q, t)
        \/ pc'[q] = "lockDay" /\ arg[q].op = "void" /\ MayVoid(q, t)
    BY <1>0, <2>1 DEF Goto
  <2>4. Live(seen[q].row) => saleLock'[seen[q].row] = q
    BY <1>0, <2>1 DEF TakeSaleLock
  <2>5. OnRow(q)
    BY <1>4 DEF LockOrder, At, OnRow
  <2> QED BY <1>1, <1>4, <2>1, <2>2, <2>3, <2>4, <2>5
<1> QED BY <1>2, <1>3, <1>4

(* The invariant holds of the empty table.                                 *)
LEMMA LineInit == Init => LineInv
<1> SUFFICES ASSUME Init PROVE LineInv
  OBVIOUS
<1>1. \A t \in Request : sale[t].status = "NONE" /\ pc[t] = "idle"
  BY DEF Init
<1> QED BY <1>1, OrderInit DEF LineInv, LinesFirm, PurchaseHeld, SeenFilled, NoEmptyOrder,
                               Holding, Live

(* Every step keeps the invariant of the lines.                            *)
LEMMA LineStep ==
  ASSUME LineInv, OrderInv', NEW q \in Request, Step(q)
  PROVE  LineInv'
<1>0. /\ Others(q) /\ sale \in [Request -> SaleRow]
      /\ \A r \in Request : seen[r].row \in Request
  BY StepOthers, SeenType DEF LineInv, OrderInv, TypeOK, DataType
<1>1. ASSUME NEW r \in Request, r # q
      PROVE  /\ seen'[r] = seen[r] /\ arg'[r] = arg[r] /\ pc'[r] = pc[r]
             /\ Holding(r)' <=> Holding(r)
  BY <1>0, <1>1 DEF Others, Holding
<1>2. NoEmptyOrder'
  <2> SUFFICES ASSUME NEW t \in Request, Live(t)', sale'[t].kind = "PURCHASE"
               PROVE  sale'[t].qty >= 1
    BY DEF NoEmptyOrder
  <2>1. CASE sale'[t] = sale[t]
    BY <2>1 DEF LineInv, NoEmptyOrder, Live
  <2>2. ASSUME NEW x \in SaleRow, Born(q, x), sale'[t] # sale[t]
        PROVE  sale'[t].qty >= 1
    <3>1. sale'[t] = x
      BY <1>0, <2>2 DEF Born
    <3> QED BY <2>2, <3>1 DEF Born
  <2>3. ASSUME NEW x \in SaleRow, Written(q, x), sale'[t] # sale[t]
        PROVE  sale'[t].qty >= 1
    <3>1. sale'[t] = x
      BY <1>0, <2>3 DEF Written
    <3> QED BY <2>3, <3>1 DEF Written, Live
  <2> QED BY <2>1, <2>2, <2>3, StepOnRows
<1>3. LinesFirm'
  <2> SUFFICES ASSUME NEW r \in Request, Holding(r)', arg'[r].op \in NamesLine PROVE Firm(r)'
    BY DEF LinesFirm
  <2>1. CASE r # q
    BY <1>1, <2>1, FirmStays DEF LineInv, LinesFirm
  <2>2. CASE r = q
    <3> DEFINE t == seen'[q].row
    <3>1. OnRow(q)'
      BY <2>2 DEF OnRow
    <3>2. /\ Reread(q, t) /\ MayWrite(q, t) /\ t \in Request
          /\ seen'[q].qty = sale[t].qty /\ seen'[q].total = sale[t].total
          /\ seen'[q].cash = sale[t].cash /\ seen'[q].online = sale[t].online
          /\ Live(seen[q].row) => saleLock'[seen[q].row] = q
          /\ arg' = arg /\ sale' = sale
      BY <2>2, <3>1, HoldersCome, HolderGets DEF Holding, NamesLine, Mutation
    <3>3. t = seen[q].row /\ sale[t].status = "PARKED" /\ Live(t)
      BY <2>2, <3>2 DEF MayWrite, MayEdit, NamesLine, Mutation, Live
    <3>4. Agrees(q)'
      BY <2>2, <3>2, <3>3 DEF Agrees, NamesLine, Mutation
    <3> QED BY <2>2, <3>2, <3>3, <3>4 DEF Firm
  <2> QED BY <2>1, <2>2
<1>4. PurchaseHeld'
  <2> SUFFICES ASSUME NEW r \in Request, OnRow(r)' PROVE sale'[seen'[r].row].kind = "PURCHASE"
    BY DEF PurchaseHeld, OnRow
  <2>1. CASE r # q
    <3>1. OnRow(r) /\ sale[seen[r].row].status # "NONE"
      BY <1>1, <2>1 DEF OnRow, LineInv, OrderInv, RowNamed, Named
    <3>2. sale'[seen[r].row].kind = sale[seen[r].row].kind
      BY <1>0, <3>1, RowKept DEF SameRow
    <3> QED BY <1>1, <2>1, <3>1, <3>2 DEF LineInv, PurchaseHeld, OnRow
  <2>2. CASE r = q
    BY <2>2, HoldersCome, HolderGets DEF LineInv, PurchaseHeld, OnRow, Reread
  <2> QED BY <2>1, <2>2
<1>5. SeenFilled'
  <2> SUFFICES ASSUME NEW r \in Request, Holding(r)' PROVE seen'[r].qty >= 1
    BY DEF SeenFilled
  <2>1. CASE r # q
    BY <1>1, <2>1 DEF LineInv, SeenFilled
  <2>2. CASE r = q
    <3>1. OnRow(q)'
      BY <2>2 DEF OnRow
    <3> QED BY <2>2, <3>1, HoldersCome, HolderGets
        DEF LineInv, SeenFilled, NoEmptyOrder, Reread, HasId, Holding
  <2> QED BY <2>1, <2>2
<1> QED BY <1>2, <1>3, <1>4, <1>5 DEF LineInv

(* [Next]_vars keeps the invariant of the lines.                           *)
LEMMA LineNext == LineInv /\ OrderInv' /\ [Next]_vars => LineInv'
<1> SUFFICES ASSUME LineInv, OrderInv', [Next]_vars PROVE LineInv'
  OBVIOUS
<1>1. CASE UNCHANGED vars
  BY <1>1 DEF vars, LineInv, LinesFirm, Firm, Agrees, PurchaseHeld, SeenFilled,
              NoEmptyOrder, Live, Holding
<1>2. CASE Next
  BY <1>2, LineStep DEF Next, Step
<1> QED BY <1>1, <1>2

(* The inductive invariant of the lines holds in every behaviour.          *)
THEOREM LineInvariant == Spec => []LineInv
<1>1. LineInv /\ OrderInv' /\ [Next]_vars => LineInv'
  BY LineNext
<1> QED BY <1>1, LineInit, OrderInvariant, PTL DEF Spec

(* No order a query can return is without a line, whatever edits overlap   *)
(* and whatever order was discarded under the same client id: a request    *)
(* that takes the last line away discards the order in the same            *)
(* transaction, and nobody has added to it in between.                     *)
THEOREM OrdersHaveALine == Spec => []NoEmptyOrder
<1>1. LineInv => NoEmptyOrder
  BY DEF LineInv
<1> QED BY <1>1, LineInvariant, PTL

-----------------------------------------------------------------------------
(* Voids: the original stays as the void read it, and is voided once.      *)

HoldsVoid(r) == Holding(r) /\ arg[r].op = "void"

(* A void negates what a completed order still holds: completed figures    *)
(* are final, lock or no lock.                                             *)
VoidSees == \A r \in Request : LET t == seen[r].row IN
  HoldsVoid(r) =>
    /\ sale[t].status = "COMPLETED" /\ sale[t].total = seen[r].total
    /\ sale[t].cash = seen[r].cash /\ sale[t].online = seen[r].online

(* The order a request is about to void has no void yet, unless its client *)
(* id was used before.                                                     *)
NotYetVoided ==
  \A r \in Request :
    HoldsVoid(r) /\ ~Recreated(seen[r].row) => ~IsVoided(seen[r].row)

(* The inductive invariant behind VoidMirrorsOriginal and VoidedOnce.      *)
VoidInv == LineInv /\ VoidSees /\ NotYetVoided /\ VoidMirrorsOriginal /\ VoidedOnce

IsVoid(v) == Live(v) /\ sale[v].kind = "VOID"

(* A void row is older than the step, or the step is its insert.           *)
LEMMA VoidOldOrNew ==
  ASSUME LineInv, NEW q \in Request, Step(q), NEW v \in Request, IsVoid(v)'
  PROVE  \/ /\ IsVoid(v) /\ sale'[v].corrects = sale[v].corrects
            /\ sale'[v].day = sale[v].day /\ sale'[v].total = sale[v].total
            /\ sale'[v].cash = sale[v].cash /\ sale'[v].online = sale[v].online
         \/ /\ v = q /\ pc[q] = "insert" /\ HoldsVoid(q) /\ sale[v].status = "NONE"
            /\ \A t \in Request : t # q => sale'[t] = sale[t]
            /\ sale'[v].status = "COMPLETED" /\ sale'[v].corrects = seen[q].row
            /\ sale'[v].day = seen[q].day /\ sale'[v].total = -seen[q].total
            /\ sale'[v].cash = -seen[q].cash /\ sale'[v].online = -seen[q].online
<1>0. sale \in [Request -> SaleRow] /\ seen[q].row \in Request
  BY SeenType DEF LineInv, OrderInv, TypeOK, DataType
<1>1. CASE sale'[v] = sale[v]
  BY <1>1 DEF IsVoid, Live
<1>2. ASSUME NEW x \in SaleRow, Born(q, x), sale'[v] # sale[v]
      PROVE  /\ v = q /\ pc[q] = "insert" /\ HoldsVoid(q) /\ sale[v].status = "NONE"
             /\ \A t \in Request : t # q => sale'[t] = sale[t]
             /\ sale'[v].status = "COMPLETED" /\ sale'[v].corrects = seen[q].row
             /\ sale'[v].day = seen[q].day /\ sale'[v].total = -seen[q].total
             /\ sale'[v].cash = -seen[q].cash /\ sale'[v].online = -seen[q].online
  <2>1. v = q /\ sale'[v] = x /\ \A t \in Request : t # q => sale'[t] = sale[t]
    BY <1>0, <1>2 DEF Born
  <2>2. x.kind = "VOID" /\ arg[q].op = "void"
    BY <1>2, <2>1 DEF Born, IsVoid
  <2> QED BY <1>2, <2>1, <2>2 DEF Born, HoldsVoid, Holding
<1>3. ASSUME NEW x \in SaleRow, Written(q, x), sale'[v] # sale[v]
      PROVE  FALSE
  <2>1. v = seen[q].row /\ sale'[v] = x
    BY <1>0, <1>3 DEF Written
  <2>2. sale[v].kind = "PURCHASE" /\ x.kind = sale[v].kind
    BY <1>3, <2>1 DEF Written, SameRow, LineInv, PurchaseHeld, Holding
  <2> QED BY <2>1, <2>2 DEF IsVoid
<1> QED BY <1>1, <1>2, <1>3, StepOnRows

(* The invariant holds of the empty table.                                 *)
LEMMA VoidInit == Init => VoidInv
<1> SUFFICES ASSUME Init PROVE VoidInv
  OBVIOUS
<1>1. \A t \in Request : sale[t].status = "NONE" /\ pc[t] = "idle"
  BY DEF Init
<1> QED BY <1>1, LineInit DEF VoidInv, VoidSees, NotYetVoided, VoidMirrorsOriginal, VoidedOnce,
                              HoldsVoid, Holding, Live

(* Every step keeps the invariant of the voids.                            *)
LEMMA VoidStep ==
  ASSUME VoidInv, LineInv', NEW q \in Request, Step(q)
  PROVE  VoidInv'
<1>0. /\ LineInv /\ Others(q) /\ sale \in [Request -> SaleRow]
      /\ \A r \in Request : seen[r].row \in Request /\ sale[r].corrects \in Request
  BY StepOthers, SeenType, RowType DEF VoidInv, LineInv, OrderInv, TypeOK, DataType, SaleRow
<1>1. ASSUME NEW r \in Request, r # q
      PROVE  /\ seen'[r] = seen[r] /\ arg'[r] = arg[r]
             /\ HoldsVoid(r)' <=> HoldsVoid(r)
  BY <1>0, <1>1 DEF Others, Holding, HoldsVoid
<1>2. ASSUME HoldsVoid(q)'
      PROVE  LET t == seen'[q].row IN
             /\ sale' = sale /\ arg' = arg /\ t \in Request
             /\ \/ /\ HoldsVoid(q) /\ t = seen[q].row /\ seen'[q].total = seen[q].total
                   /\ seen'[q].cash = seen[q].cash /\ seen'[q].online = seen[q].online
                \/ /\ MayVoid(q, t) /\ seen'[q].total = sale[t].total
                   /\ seen'[q].cash = sale[t].cash /\ seen'[q].online = sale[t].online
  <2>1. OnRow(q)' /\ arg'[q].op = "void"
    BY <1>2 DEF HoldsVoid, OnRow
  <2>2. Identify(q) \/ LockOrder(q) \/ VoidLockDay(q)
    BY <1>0, <2>1, HoldersCome
  <2>3. ~Answer(q)
    BY <1>0, <2>1, HoldersCome
  <2> QED BY <1>0, <1>2, <2>1, <2>2, <2>3, HolderGets DEF HoldsVoid, Holding, MayWrite
<1>3. VoidSees'
  <2> SUFFICES ASSUME NEW r \in Request, HoldsVoid(r)'
               PROVE  LET t == seen'[r].row IN
                      /\ sale'[t].status = "COMPLETED" /\ sale'[t].total = seen'[r].total
                      /\ sale'[t].cash = seen'[r].cash /\ sale'[t].online = seen'[r].online
    BY DEF VoidSees
  <2>1. CASE r # q
    BY <1>0, <1>1, <2>1, RowKept DEF VoidInv, VoidSees
  <2>2. CASE r = q
    BY <1>2, <2>2 DEF VoidInv, VoidSees, MayVoid
  <2> QED BY <2>1, <2>2
<1>4. VoidMirrorsOriginal'
  <2> SUFFICES ASSUME NEW v \in Request, IsVoid(v)'
               PROVE  LET t == sale'[v].corrects IN
                      /\ sale'[t].status = "COMPLETED"
                      /\ sale'[v].total = -sale'[t].total
                      /\ sale'[v].cash = -sale'[t].cash /\ sale'[v].online = -sale'[t].online
    BY DEF VoidMirrorsOriginal, IsVoid
  <2>1. CASE IsVoid(v) /\ sale'[v].corrects = sale[v].corrects
               /\ sale'[v].total = sale[v].total
               /\ sale'[v].cash = sale[v].cash /\ sale'[v].online = sale[v].online
    BY <1>0, <2>1, RowKept DEF VoidInv, VoidMirrorsOriginal, IsVoid
  <2>2. CASE /\ v = q /\ HoldsVoid(q) /\ sale[v].status = "NONE"
             /\ \A t \in Request : t # q => sale'[t] = sale[t]
             /\ sale'[v].corrects = seen[q].row /\ sale'[v].total = -seen[q].total
             /\ sale'[v].cash = -seen[q].cash /\ sale'[v].online = -seen[q].online
    BY <1>0, <2>2 DEF VoidInv, VoidSees
  <2> QED BY <1>0, <2>1, <2>2, VoidOldOrNew
<1>5. NotYetVoided'
  <2> SUFFICES ASSUME NEW r \in Request, HoldsVoid(r)', ~Recreated(seen[r].row)',
                      NEW v \in Request, IsVoid(v)', sale'[v].corrects = seen'[r].row
               PROVE  FALSE
    BY DEF NotYetVoided, IsVoided, IsVoid
  <2>1. CASE r = q
    <3>1. sale' = sale /\ seen'[q].row \in Request
      BY <1>2, <2>1
    <3>2. IsVoided(seen'[q].row)
      BY <3>1, <2>1 DEF IsVoided, IsVoid, Live
    <3>3. ~Recreated(seen'[q].row)
      BY <3>1, <2>1 DEF Recreated
    <3> QED BY <1>2, <2>1, <3>2, <3>3 DEF VoidInv, NotYetVoided, MayVoid
  <2>2. CASE r # q
    <3> DEFINE t == seen[r].row
    <3>1. seen'[r].row = t /\ HoldsVoid(r) /\ t \in Request /\ sale[t].status # "NONE"
      BY <1>0, <1>1, <2>2 DEF VoidInv, VoidSees
    <3>2. ~Recreated(t)
      BY <1>0, <3>1, RecreatedStays DEF Recreated
    <3>3. ~IsVoid(v) \/ sale[v].corrects # t
      BY <3>1, <3>2 DEF VoidInv, NotYetVoided, IsVoided, IsVoid
    <3>4. HoldsVoid(q) /\ seen[q].row = t
      BY <1>0, <3>1, <3>3, VoidOldOrNew
    <3>5. saleLock[t] = q /\ saleLock[t] = r
      BY <1>0, <3>1, <3>2, <3>4 DEF HoldsVoid, LineInv, OrderInv, Held, Holds
    <3> QED BY <2>2, <3>5
  <2> QED BY <2>1, <2>2
<1>6. VoidedOnce'
  <2> SUFFICES ASSUME NEW v \in Request, NEW w \in Request, IsVoid(v)', IsVoid(w)',
                      sale'[v].corrects = sale'[w].corrects,
                      ~Recreated(sale[v].corrects)', v # w
               PROVE  FALSE
    BY DEF VoidedOnce, IsVoid
  <2> DEFINE t == sale'[v].corrects
  <2>1. t \in Request /\ sale[t].status # "NONE"
    <3>1. CASE IsVoid(v) /\ sale'[v].corrects = sale[v].corrects
      BY <1>0, <3>1 DEF VoidInv, VoidMirrorsOriginal, IsVoid
    <3>2. CASE HoldsVoid(q) /\ sale'[v].corrects = seen[q].row
      BY <1>0, <3>2 DEF VoidInv, VoidSees
    <3> QED BY <1>0, <3>1, <3>2, VoidOldOrNew
  <2>2. ~Recreated(t)
    BY <1>0, <2>1, RecreatedStays DEF Recreated
  <2>3. CASE IsVoid(v) /\ IsVoid(w) /\ sale[v].corrects = t /\ sale[w].corrects = t
    BY <2>2, <2>3 DEF VoidInv, VoidedOnce, IsVoid
  <2>4. ASSUME NEW o \in {v, w}, IsVoid(o), sale[o].corrects = t, HoldsVoid(q),
               seen[q].row = t
        PROVE  FALSE
    BY <2>2, <2>4 DEF VoidInv, NotYetVoided, IsVoided, IsVoid
  <2>5. \/ IsVoid(v) /\ sale[v].corrects = t
        \/ v = q /\ HoldsVoid(q) /\ seen[q].row = t
    BY <1>0, VoidOldOrNew
  <2>6. \/ IsVoid(w) /\ sale[w].corrects = t
        \/ w = q /\ HoldsVoid(q) /\ seen[q].row = t
    BY <1>0, VoidOldOrNew
  <2> QED BY <2>3, <2>4, <2>5, <2>6
<1> QED BY <1>3, <1>4, <1>5, <1>6 DEF VoidInv

(* [Next]_vars keeps the invariant of the voids.                           *)
LEMMA VoidNext == VoidInv /\ LineInv' /\ [Next]_vars => VoidInv'
<1> SUFFICES ASSUME VoidInv, LineInv', [Next]_vars PROVE VoidInv'
  OBVIOUS
<1>1. CASE UNCHANGED vars
  BY <1>1 DEF vars, VoidInv, VoidSees, NotYetVoided, VoidMirrorsOriginal, VoidedOnce,
              HoldsVoid, Holding, IsVoided, Live, Recreated
<1>2. CASE Next
  BY <1>2, VoidStep DEF Next, Step
<1> QED BY <1>1, <1>2

(* The inductive invariant of the voids holds in every behaviour.          *)
THEOREM VoidInvariant == Spec => []VoidInv
<1>1. VoidInv /\ LineInv' /\ [Next]_vars => VoidInv'
  BY VoidNext
<1> QED BY <1>1, VoidInit, LineInvariant, PTL DEF Spec

(* A void and its order net to nothing, in total and per payment method,   *)
(* then and ever after: no request can change a completed order, not even  *)
(* one that holds the row without its lock.                                *)
THEOREM VoidsMirror == Spec => []VoidMirrorsOriginal
<1>1. VoidInv => VoidMirrorsOriginal
  BY DEF VoidInv
<1> QED BY <1>1, VoidInvariant, PTL

(* Two void requests with different ids never both correct one order: the  *)
(* row's lock orders them, unless the order's client id was used before.   *)
THEOREM VoidsAreSingle == Spec => []VoidedOnce
<1>1. VoidInv => VoidedOnce
  BY DEF VoidInv
<1> QED BY <1>1, VoidInvariant, PTL

-----------------------------------------------------------------------------
(* Closings: the lock of the day keeps voids out while a close totals it.  *)

(* The closings are those of the closed days.                              *)
ClosedMade == \A d \in Day : closing[d].made <=> day[d].status = "CLOSED"

(* Only a close at its reads has sums.                                     *)
SnapFresh == \A r \in Request : pc[r] # "readCash" => snap[r].got = {}

(* A close that has summed the payments of its day has every void of it.   *)
SnapCounts ==
  \A r \in Request : pc[r] = "readCash" /\ "payments" \in snap[r].got =>
    \A v \in Request : IsVoid(v) /\ sale[v].day = seen[r].day =>
      snap[r].cash[v] = sale[v].cash /\ snap[r].online[v] = sale[v].online

(* A staff void is past the day's lock only on the day of its order.       *)
StaffSameDay ==
  \A r \in Request :
    pc[r] = "insert" /\ arg[r].op = "void" /\ arg[r].role = "STAFF" =>
      sale[seen[r].row].day = seen[r].day

(* The inductive invariant behind ClosingCountsVoids, ClosedForGood and    *)
(* BornOnOpenDay.                                                          *)
CloseInv ==
  /\ VoidInv /\ DayInv
  /\ ClosedMade /\ SnapFresh /\ SnapCounts /\ StaffSameDay /\ ClosingCountsVoids

(* The invariant holds initially.                                          *)
LEMMA CloseInit == Init /\ VoidInv /\ DayInv => CloseInv
<1> SUFFICES ASSUME Init, VoidInv, DayInv PROVE CloseInv
  OBVIOUS
<1>1. /\ \A t \in Request : sale[t].status = "NONE" /\ pc[t] = "idle" /\ snap[t] = NoSnap
      /\ \A d \in Day : closing[d] = NoClosing /\ day[d].status # "CLOSED"
  BY DEF Init
<1> QED BY <1>1 DEF CloseInv, ClosedMade, SnapFresh, SnapCounts, StaffSameDay,
                    ClosingCountsVoids, IsVoid, Live, NoClosing, NoSnap

(* What a step does to the days and their closings.                        *)
LEMMA DaysMove ==
  ASSUME CloseInv, NEW q \in Request, Step(q)
  PROVE  \/ UNCHANGED <<day, closing>>
         \/ \E d \in Day : /\ OpenInsertDay(q) /\ UNCHANGED <<sale, closing>>
                           /\ day[d].status = "NONE" /\ day'[d].status = "OPEN"
                           /\ \A e \in Day : e # d => day'[e] = day[e]
         \/ LET d == seen[q].day IN
            /\ CloseCommit(q) /\ UNCHANGED sale /\ d \in Day
            /\ pc[q] = "readCash" /\ "payments" \in snap[q].got /\ IsOpen(d)
            /\ day'[d].status = "CLOSED" /\ closing'[d].made
            /\ closing'[d].cash = snap[q].cash /\ closing'[d].online = snap[q].online
            /\ \A e \in Day : e # d => day'[e] = day[e] /\ closing'[e] = closing[e]
<1>0. /\ day \in [Day -> [status : {"NONE", "OPEN", "CLOSED"}, date : Date]]
      /\ closing \in [Day -> Closing \cup {NoClosing}] /\ seen[q].day \in Day
  BY SeenType DEF CloseInv, DayInv, TypeOK, DataType
<1>1. CASE OpenInsertDay(q) /\ day' # day
  <2>1. PICK d \in Day : /\ day[d].status = "NONE"
                         /\ day' = [day EXCEPT ![d] = [status |-> "OPEN", date |-> arg[q].date]]
    BY <1>1 DEF OpenInsertDay
  <2>2. UNCHANGED <<sale, closing>>
    BY <1>1 DEF OpenInsertDay
  <2> QED BY <1>0, <1>1, <2>1, <2>2
<1>2. CASE CloseCommit(q)
  <2> DEFINE d == seen[q].day
             c == [made |-> TRUE, id |-> arg[q].other, cash |-> snap[q].cash,
                   online |-> snap[q].online, held |-> snap[q].held]
  <2>1. closing' = [closing EXCEPT ![d] = c]
    BY <1>2 DEF CloseCommit
  <2>2. c.made /\ c.cash = snap[q].cash /\ c.online = snap[q].online
    OBVIOUS
  <2> HIDE DEF c
  <2>3. closing'[d] = c /\ \A e \in Day : e # d => closing'[e] = closing[e]
    BY <1>0, <2>1
  <2>4. day' = [day EXCEPT ![d].status = "CLOSED"]
    BY <1>2 DEF CloseCommit
  <2>5. day'[d].status = "CLOSED" /\ \A e \in Day : e # d => day'[e] = day[e]
    BY <1>0, <2>4
  <2>6. pc[q] = "readCash" /\ "payments" \in snap[q].got /\ IsOpen(d) /\ UNCHANGED sale
    BY <1>2 DEF CloseCommit, At
  <2> QED BY <1>0, <1>2, <2>2, <2>3, <2>5, <2>6
<1>3. CASE ~(OpenInsertDay(q) /\ day' # day) /\ ~CloseCommit(q)
  BY <1>3 DEF Step, Start, Abort, Answer, Advance, CreateFindDay, CreateLockDay, CreateInsert,
    Identify, LockOrder, WriteLine, WriteComplete, WriteSettle, VoidLockDay, VoidInsert,
    OpenReadDays, OpenInsertDay, CloseFindDay, CloseLockDay, CloseReadPayments,
    CloseReadSales, db
<1> QED BY <1>1, <1>2, <1>3

(* A step of one request leaves the sums of the others.                    *)
LEMMA SumsOfOthers ==
  ASSUME TypeOK, NEW q \in Request, Step(q), NEW r \in Request, r # q
  PROVE  snap'[r] = snap[r]
<1>0. snap \in [Request -> SnapRecord]
  BY DEF TypeOK, ControlType
<1>1. CASE Finish(q)
  BY <1>0, <1>1 DEF Finish
<1>2. CASE CloseReadPayments(q)
  BY <1>0, <1>2 DEF CloseReadPayments
<1>3. CASE CloseReadSales(q)
  BY <1>0, <1>3 DEF CloseReadSales
<1>4. CASE GoesOn(q) /\ ~Finish(q) /\ ~CloseReadPayments(q) /\ ~CloseReadSales(q)
  BY <1>4 DEF GoesOn, Start, Answer, CreateFindDay, CreateLockDay, Identify, LockOrder,
    VoidLockDay, OpenReadDays, CloseFindDay, CloseLockDay
<1> QED BY <1>1, <1>2, <1>3, <1>4, StepGoesOnOrEnds

(* What a step does to the sums of its own request.                        *)
LEMMA SumsMove ==
  ASSUME TypeOK, NEW q \in Request, Step(q)
  PROVE  \/ snap'[q].got = {} /\ pc'[q] = "done"
         \/ snap'[q] = snap[q] /\ pc[q] # "readCash"
         \/ /\ UNCHANGED <<sale, seen, pc>> /\ pc[q] = "readCash"
            /\ \A v \in RowsOf(seen[q].day) :
                 snap'[q].cash[v] = sale[v].cash /\ snap'[q].online[v] = sale[v].online
         \/ /\ UNCHANGED <<sale, seen, pc>> /\ pc[q] = "readCash"
            /\ "payments" \in snap'[q].got => "payments" \in snap[q].got
            /\ snap'[q].cash = snap[q].cash /\ snap'[q].online = snap[q].online
<1>0. snap \in [Request -> SnapRecord] /\ pc \in [Request -> Label] /\ snap[q] \in SnapRecord
  BY DEF TypeOK, ControlType
<1>1. CASE Finish(q)
  BY <1>0, <1>1 DEF Finish, Goto, NoSnap
<1>2. CASE CloseReadPayments(q)
  <2> DEFINE cash == [t \in Request |-> IF t \in RowsOf(seen[q].day) THEN sale[t].cash ELSE 0]
             online == [t \in Request |-> IF t \in RowsOf(seen[q].day) THEN sale[t].online ELSE 0]
  <2>1. snap' = [snap EXCEPT ![q].got = @ \cup {"payments"}, ![q].cash = cash, ![q].online = online]
    BY <1>2 DEF CloseReadPayments
  <2> HIDE DEF cash, online
  <2>2. snap'[q].cash = cash /\ snap'[q].online = online
    BY <1>0, <2>1 DEF SnapRecord
  <2>3. \A v \in RowsOf(seen[q].day) : cash[v] = sale[v].cash /\ online[v] = sale[v].online
    BY DEF cash, online, RowsOf
  <2>4. UNCHANGED <<sale, seen, pc>> /\ pc[q] = "readCash"
    BY <1>2 DEF CloseReadPayments, At, db
  <2> QED BY <2>2, <2>3, <2>4
<1>3. CASE CloseReadSales(q)
  <2> DEFINE held == [t \in Request |-> IF t \in RowsOf(seen[q].day)
                                          THEN sale[t].tip + Outstanding(sale[t]) ELSE 0]
  <2>1. snap' = [snap EXCEPT ![q].got = @ \cup {"sales"}, ![q].held = held]
    BY <1>3 DEF CloseReadSales
  <2> HIDE DEF held
  <2>2. /\ snap'[q].got = snap[q].got \cup {"sales"}
        /\ snap'[q].cash = snap[q].cash /\ snap'[q].online = snap[q].online
    BY <1>0, <2>1 DEF SnapRecord
  <2>3. UNCHANGED <<sale, seen, pc>> /\ pc[q] = "readCash"
    BY <1>3 DEF CloseReadSales, At, db
  <2> QED BY <2>2, <2>3
<1>4. CASE GoesOn(q) /\ ~Finish(q) /\ ~CloseReadPayments(q) /\ ~CloseReadSales(q)
  BY <1>4 DEF GoesOn, Start, Answer, CreateFindDay, CreateLockDay, Identify, LockOrder,
    VoidLockDay, OpenReadDays, CloseFindDay, CloseLockDay, At, db
<1> QED BY <1>1, <1>2, <1>3, <1>4, StepGoesOnOrEnds

(* How a close comes to its reads: with the day's lock, and no sums yet.   *)
LEMMA ReadsCome ==
  ASSUME TypeOK, NEW q \in Request, Step(q), pc'[q] = "readCash", pc[q] # "readCash"
  PROVE  CloseLockDay(q)
<1>1. ~Finish(q)
  BY FinishOthers
<1>2. GoesOn(q)
  BY <1>1, StepGoesOnOrEnds
<1>3. ~Start(q)
  BY DEF Start, Goto, FirstLabel, TypeOK, ControlType
<1>4. ~(CreateFindDay(q) \/ CreateLockDay(q) \/ Identify(q) \/ LockOrder(q) \/ VoidLockDay(q)
        \/ OpenReadDays(q) \/ CloseFindDay(q) \/ CloseReadPayments(q) \/ CloseReadSales(q))
  BY <1>1 DEF CreateFindDay, CreateLockDay, Identify, LockOrder, VoidLockDay, OpenReadDays,
    CloseFindDay, CloseReadPayments, CloseReadSales, Answer, Goto, At, TypeOK, ControlType
<1> QED BY <1>2, <1>3, <1>4 DEF GoesOn

(* Every step keeps the invariant of the closings.                         *)
LEMMA CloseStep ==
  ASSUME CloseInv, VoidInv', DayInv', NEW q \in Request, Step(q)
  PROVE  CloseInv'
<1>0. /\ VoidInv /\ LineInv /\ TypeOK /\ Others(q) /\ pc \in [Request -> Label]
      /\ \A r \in Request : seen[r].row \in Request /\ seen[r].day \in Day /\ Secure(r)
  BY StepOthers, SeenType
  DEF CloseInv, VoidInv, LineInv, OrderInv, DayInv, TypeOK, ControlType
<1>1. ASSUME NEW r \in Request, r # q
      PROVE  /\ seen'[r] = seen[r] /\ arg'[r] = arg[r] /\ pc'[r] = pc[r]
             /\ snap'[r] = snap[r]
  BY <1>0, <1>1, SumsOfOthers DEF Others
<1>2. ClosedMade'
  BY DaysMove DEF CloseInv, ClosedMade, IsOpen
<1>3. SnapFresh'
  <2> SUFFICES ASSUME NEW r \in Request, pc'[r] # "readCash" PROVE snap'[r].got = {}
    BY DEF SnapFresh
  <2>1. CASE r # q
    BY <1>1, <2>1 DEF CloseInv, SnapFresh
  <2>2. CASE r = q
    BY <1>0, <2>2, SumsMove DEF CloseInv, SnapFresh
  <2> QED BY <2>1, <2>2
<1>4. SnapCounts'
  <2> SUFFICES ASSUME NEW r \in Request, pc'[r] = "readCash", "payments" \in snap'[r].got,
                      NEW v \in Request, IsVoid(v)', sale'[v].day = seen'[r].day
               PROVE  snap'[r].cash[v] = sale'[v].cash /\ snap'[r].online[v] = sale'[v].online
    BY DEF SnapCounts
  <2>1. CASE r # q
    <3>1. CASE /\ IsVoid(v) /\ sale'[v].day = sale[v].day
               /\ sale'[v].cash = sale[v].cash /\ sale'[v].online = sale[v].online
      <4>1. pc[r] = "readCash" /\ "payments" \in snap[r].got /\ seen'[r] = seen[r] /\ snap'[r] = snap[r]
        BY <1>1, <2>1
      <4>2. sale[v].day = seen[r].day
        BY <3>1, <4>1
      <4>3. snap[r].cash[v] = sale[v].cash /\ snap[r].online[v] = sale[v].online
        BY <3>1, <4>1, <4>2 DEF CloseInv, SnapCounts
      <4> QED BY <3>1, <4>1, <4>3
    <3>2. CASE pc[q] = "insert" /\ sale'[v].day = seen[q].day
      <4>1. dayLock[seen[q].day] = q
        BY <1>0, <3>2 DEF Secure
      <4>2. dayLock[seen[r].day] = r
        BY <1>0, <1>1, <2>1 DEF Secure
      <4> QED BY <1>1, <2>1, <3>2, <4>1, <4>2
    <3> QED BY <1>0, <3>1, <3>2, VoidOldOrNew
  <2>2. CASE r = q
    <3>1. UNCHANGED <<sale, seen, pc>> /\ pc[q] = "readCash"
      BY <1>0, <2>2, SumsMove DEF CloseInv, SnapFresh
    <3>2. IsVoid(v) /\ sale[v].day = seen[q].day /\ v \in RowsOf(seen[q].day)
      BY <2>2, <3>1 DEF IsVoid, RowsOf, Live
    <3>3. CASE snap'[q].cash[v] = sale[v].cash /\ snap'[q].online[v] = sale[v].online
      BY <2>2, <3>1, <3>3
    <3>4. CASE /\ "payments" \in snap[q].got
               /\ snap'[q].cash = snap[q].cash /\ snap'[q].online = snap[q].online
      <4>1. snap[q].cash[v] = sale[v].cash /\ snap[q].online[v] = sale[v].online
        BY <3>1, <3>2, <3>4 DEF CloseInv, SnapCounts
      <4> QED BY <2>2, <3>1, <3>4, <4>1
    <3> QED BY <1>0, <2>2, <3>1, <3>2, <3>3, <3>4, SumsMove
  <2> QED BY <2>1, <2>2
<1>5. StaffSameDay'
  <2> SUFFICES ASSUME NEW r \in Request, pc'[r] = "insert", arg'[r].op = "void",
                      arg'[r].role = "STAFF"
               PROVE  sale'[seen'[r].row].day = seen'[r].day
    BY DEF StaffSameDay
  <2>1. CASE r # q
    <3>1. HoldsVoid(r) /\ sale[seen[r].row].status = "COMPLETED"
      BY <1>0, <1>1, <2>1 DEF VoidInv, VoidSees, HoldsVoid, Holding
    <3>2. sale'[seen[r].row].day = sale[seen[r].row].day
      BY <1>0, <3>1, RowKept DEF SameRow
    <3> QED BY <1>1, <2>1, <3>2 DEF CloseInv, StaffSameDay
  <2>2. CASE r = q
    <3>1. OnRow(q)'
      BY <2>2 DEF OnRow, Holding
    <3>2. /\ VoidLockDay(q) /\ ~Answer(q)
          /\ seen'[q].row = seen[q].row /\ seen'[q].day = seen[q].day
          /\ sale' = sale /\ arg' = arg
      BY <1>0, <2>2, <3>1, HoldersCome, HolderGets
    <3>3. sale[seen[q].row].day = seen[q].day
      BY <2>2, <3>2 DEF VoidLockDay
    <3> QED BY <2>2, <3>2, <3>3
  <2> QED BY <2>1, <2>2
<1>6. ClosingCountsVoids'
  <2> SUFFICES ASSUME NEW v \in Request, IsVoid(v)', closing'[sale'[v].day].made
               PROVE  /\ closing'[sale'[v].day].cash[v] = sale'[v].cash
                      /\ closing'[sale'[v].day].online[v] = sale'[v].online
    BY DEF ClosingCountsVoids, IsVoid
  <2> DEFINE e == sale'[v].day
  <2>1. CASE /\ IsVoid(v) /\ sale'[v].day = sale[v].day
             /\ sale'[v].cash = sale[v].cash /\ sale'[v].online = sale[v].online
    <3>0. e \in Day
      BY <1>0, <2>1, RowType
    <3>1. CASE closing'[e] = closing[e]
      BY <2>1, <3>1 DEF CloseInv, ClosingCountsVoids, IsVoid
    <3>2. CASE closing'[e] # closing[e]
      <4>1. /\ e = seen[q].day /\ pc[q] = "readCash" /\ "payments" \in snap[q].got
            /\ closing'[e].cash = snap[q].cash /\ closing'[e].online = snap[q].online
        BY <3>0, <3>2, DaysMove
      <4>2. snap[q].cash[v] = sale[v].cash /\ snap[q].online[v] = sale[v].online
        BY <2>1, <4>1 DEF CloseInv, SnapCounts
      <4> QED BY <2>1, <4>1, <4>2
    <3> QED BY <3>1, <3>2
  <2>2. CASE pc[q] = "insert" /\ e = seen[q].day
    <3>1. IsOpen(e) /\ e \in Day
      BY <1>0, <2>2 DEF Secure
    <3>2. closing' = closing
      BY <2>2, DaysMove
    <3> QED BY <3>1, <3>2 DEF CloseInv, ClosedMade, IsOpen
  <2> QED BY <1>0, <2>1, <2>2, VoidOldOrNew
<1> QED BY <1>2, <1>3, <1>4, <1>5, <1>6 DEF CloseInv

(* [Next]_vars keeps the invariant of the closings.                        *)
LEMMA CloseNext == CloseInv /\ VoidInv' /\ DayInv' /\ [Next]_vars => CloseInv'
<1> SUFFICES ASSUME CloseInv, VoidInv', DayInv', [Next]_vars PROVE CloseInv'
  OBVIOUS
<1>1. CASE UNCHANGED vars
  BY <1>1 DEF vars, CloseInv, ClosedMade, SnapFresh, SnapCounts, StaffSameDay,
              ClosingCountsVoids, IsVoid, Live
<1>2. CASE Next
  BY <1>2, CloseStep DEF Next, Step
<1> QED BY <1>1, <1>2

(* The inductive invariant of the closings holds in every behaviour.       *)
THEOREM CloseInvariant == Spec => []CloseInv
<1>1. Init /\ VoidInv /\ DayInv => CloseInv
  BY CloseInit
<1>2. CloseInv /\ VoidInv' /\ DayInv' /\ [Next]_vars => CloseInv'
  BY CloseNext
<1> QED BY <1>1, <1>2, VoidInvariant, DayInvariant, PTL DEF Spec

(* Every void recorded on a day is in the day's closing, with its amounts: *)
(* a void holds the day's lock while it is inserted, and a close holds it  *)
(* from before its reads until the closing is stored.                      *)
THEOREM ClosingsHaveTheVoids == Spec => []ClosingCountsVoids
<1>1. CloseInv => ClosingCountsVoids
  BY DEF CloseInv
<1> QED BY <1>1, CloseInvariant, PTL

(* A closed day is never opened again and its closing never replaced, for  *)
(* any number of racing closes and opens.                                  *)
THEOREM ClosedStaysClosed == Spec => ClosedForGood
<1> DEFINE Kept(d) == day[d].status = "CLOSED" =>
                        closing[d].made /\ closing'[d] = closing[d] /\ day'[d] = day[d]
<1>1. CloseInv /\ [Next]_vars => [\A d \in Day : Kept(d)]_vars
  <2> SUFFICES ASSUME CloseInv, Next, NEW d \in Day, day[d].status = "CLOSED"
               PROVE  closing[d].made /\ closing'[d] = closing[d] /\ day'[d] = day[d]
    OBVIOUS
  <2>1. PICK q \in Request : Step(q)
    BY DEF Next, Step
  <2>2. closing'[d] = closing[d] /\ day'[d] = day[d]
    BY <2>1, DaysMove DEF IsOpen
  <2> QED BY <2>2 DEF CloseInv, ClosedMade
<1> QED BY <1>1, CloseInvariant, PTL DEF Spec, ClosedForGood

(* Whatever rolls over while a request waits, a row is born on a day that  *)
(* is open at that moment, and a staff void on the day of its order.       *)
THEOREM RowsAreBornOnTheOpenDay == Spec => BornOnOpenDay
<1> DEFINE Fits(r) ==
      ~Live(r) /\ Live(r)' =>
        /\ IsOpen(sale'[r].day)
        /\ sale'[r].kind = "VOID" /\ arg[r].role = "STAFF" =>
             sale'[r].day = sale[sale'[r].corrects].day
<1>1. CloseInv /\ [Next]_vars => [\A r \in Request : Fits(r)]_vars
  <2> SUFFICES ASSUME CloseInv, Next, NEW r \in Request, ~Live(r), Live(r)'
               PROVE  /\ IsOpen(sale'[r].day)
                      /\ sale'[r].kind = "VOID" /\ arg[r].role = "STAFF" =>
                           sale'[r].day = sale[sale'[r].corrects].day
    OBVIOUS
  <2>1. PICK q \in Request : Step(q)
    BY DEF Next, Step
  <2>2. LineInv /\ sale \in [Request -> SaleRow] /\ Secure(q) /\ seen[q].row \in Request
    BY SeenType DEF CloseInv, VoidInv, LineInv, OrderInv, DayInv, TypeOK, DataType
  <2>3. ~UNCHANGED sale
    BY DEF Live
  <2>4. ASSUME NEW x \in SaleRow, Written(q, x) PROVE FALSE
    BY <2>2, <2>4 DEF Written, Live
  <2>5. PICK x \in SaleRow : Born(q, x)
    BY <2>1, <2>2, <2>3, <2>4, StepOnRows
  <2>6. r = q /\ sale'[r] = x
    BY <2>2, <2>5 DEF Born, Live
  <2>7. IsOpen(sale'[r].day)
    BY <2>2, <2>5, <2>6 DEF Born, Secure
  <2>8. sale'[r].kind = "VOID" /\ arg[r].role = "STAFF" =>
          sale'[r].day = sale[sale'[r].corrects].day
    BY <2>5, <2>6 DEF Born, CloseInv, StaffSameDay
  <2> QED BY <2>7, <2>8
<1> QED BY <1>1, CloseInvariant, PTL DEF Spec, BornOnOpenDay

-----------------------------------------------------------------------------
(* The requests implement the order book.                                  *)

(* Only purchases are discarded.                                           *)
DiscardedBought == \A t \in Request : sale[t].status = "DELETED" => sale[t].kind = "PURCHASE"

(* Opens and closes are where only they get.                               *)
RightCall ==
  \A r \in Request :
    /\ pc[r] \in {"readDays", "insertDay"} => arg[r].op = "open"
    /\ pc[r] = "readCash" => arg[r].op = "close"

(* The inductive invariant behind the refinement.                          *)
BookInv == CloseInv /\ DiscardedBought /\ RightCall

(* The types that the steps of the book rest on.                           *)
LEMMA BookTypes ==
  ASSUME BookInv
  PROVE  /\ CloseInv /\ VoidInv /\ LineInv /\ OrderInv /\ DayInv /\ TypeOK
         /\ day \in [Day -> [status : {"NONE", "OPEN", "CLOSED"}, date : Date]]
         /\ sale \in [Request -> SaleRow]
         /\ pc \in [Request -> Label] /\ arg \in [Request -> Call]
         /\ \A r \in Request : /\ seen[r].row \in Request /\ seen[r].day \in Day
                               /\ Secure(r) /\ Named(r)
BY SeenType DEF BookInv, CloseInv, VoidInv, LineInv, OrderInv, DayInv, TypeOK, DataType,
                ControlType, RowNamed

(* Where a request stands before and after a step of its own.              *)
LEMMA StepPlaces ==
  ASSUME TypeOK, NEW q \in Request, Step(q)
  PROVE  \/ /\ Start(q) /\ pc[q] = "idle" /\ arg'[q] \in Calls[q]
            /\ pc'[q] \notin {"idle", "done"}
            /\ pc'[q] = "readDays" => arg'[q].op = "open"
            /\ pc'[q] \notin {"insertDay", "readCash"}
         \/ Finish(q) /\ pc[q] \notin {"idle", "done"}
         \/ /\ pc[q] \notin {"idle", "done"} /\ pc'[q] \notin {"idle", "done"}
            /\ arg'[q] = arg[q] /\ UNCHANGED <<day, sale>>
            /\ pc'[q] # "readDays"
            /\ pc'[q] = "insertDay" => pc[q] = "readDays"
            /\ pc'[q] = "readCash" => pc[q] = "readCash" \/ arg[q].op = "close"
<1>0. pc \in [Request -> Label] /\ arg \in [Request -> Call]
  BY DEF TypeOK, ControlType
<1>1. CASE Start(q)
  <2>1. PICK call \in Calls[q] :
          arg' = [arg EXCEPT ![q] = call] /\ Goto(q, FirstLabel(call.op))
    BY <1>1 DEF Start
  <2>2. pc[q] = "idle" /\ arg'[q] = call /\ pc'[q] = FirstLabel(call.op)
    BY <1>0, <1>1, <2>1 DEF Start, At, Goto
  <2> QED BY <1>1, <2>1, <2>2 DEF FirstLabel
<1>2. CASE Finish(q) /\ ~Start(q)
  <2>1. pc[q] \notin {"idle", "done"}
    BY <1>2 DEF Step, Abort, Advance, At, CreateFindDay, CreateLockDay, CreateInsert,
      Identify, LockOrder, WriteLine, WriteComplete, WriteSettle, VoidLockDay, VoidInsert,
      OpenReadDays, OpenInsertDay, CloseFindDay, CloseLockDay, CloseReadPayments,
      CloseReadSales, CloseCommit
  <2> QED BY <1>2, <2>1
<1>3. CASE GoesOn(q) /\ ~Start(q) /\ ~Finish(q)
  <2>1. ~Answer(q)
    BY <1>3 DEF Answer
  <2> QED BY <1>0, <1>3, <2>1 DEF GoesOn, At, Goto, CreateFindDay, CreateLockDay, Identify,
      LockOrder, VoidLockDay, OpenReadDays, CloseFindDay, CloseLockDay, CloseReadPayments,
      CloseReadSales, db
<1> QED BY <1>1, <1>2, <1>3, StepGoesOnOrEnds

(* Every step keeps the invariant of the book.                             *)
LEMMA BookStep ==
  ASSUME BookInv, CloseInv', NEW q \in Request, Step(q)
  PROVE  BookInv'
<1>0. /\ LineInv /\ TypeOK /\ sale \in [Request -> SaleRow] /\ Others(q)
      /\ \A r \in Request : seen[r].row \in Request
  BY BookTypes, StepOthers
<1>1. DiscardedBought'
  <2> SUFFICES ASSUME NEW t \in Request, sale'[t].status = "DELETED"
               PROVE  sale'[t].kind = "PURCHASE"
    BY DEF DiscardedBought
  <2>1. CASE sale'[t] = sale[t]
    BY <2>1 DEF BookInv, DiscardedBought
  <2>2. ASSUME NEW x \in SaleRow, Born(q, x), sale'[t] # sale[t] PROVE FALSE
    BY <1>0, <2>2 DEF Born
  <2>3. ASSUME NEW x \in SaleRow, Written(q, x), sale'[t] # sale[t]
        PROVE  sale'[t].kind = "PURCHASE"
    <3>1. t = seen[q].row /\ sale'[t] = x /\ Holding(q)
      BY <1>0, <2>3 DEF Written, Holding
    <3> QED BY <1>0, <2>3, <3>1 DEF Written, SameRow, LineInv, PurchaseHeld
  <2> QED BY <1>0, <2>1, <2>2, <2>3, StepOnRows
<1>2. RightCall'
  <2> SUFFICES ASSUME NEW r \in Request
               PROVE  /\ pc'[r] \in {"readDays", "insertDay"} => arg'[r].op = "open"
                      /\ pc'[r] = "readCash" => arg'[r].op = "close"
    BY DEF RightCall
  <2>1. CASE r # q
    BY <1>0, <2>1 DEF Others, BookInv, RightCall
  <2>2. CASE r = q
    BY <1>0, <2>2, StepPlaces, FinishOthers DEF BookInv, RightCall
  <2> QED BY <2>1, <2>2
<1> QED BY <1>1, <1>2 DEF BookInv

(* The inductive invariant of the book holds in every behaviour.           *)
THEOREM BookInvariant == Spec => []BookInv
<1>1. Init /\ CloseInv => BookInv
  BY DEF Init, BookInv, DiscardedBought, RightCall
<1>2. BookInv /\ CloseInv' /\ [Next]_vars => BookInv'
  <2> SUFFICES ASSUME BookInv, CloseInv', [Next]_vars PROVE BookInv'
    OBVIOUS
  <2>1. CASE UNCHANGED vars
    BY <2>1 DEF vars, BookInv, DiscardedBought, RightCall
  <2>2. CASE Next
    BY <2>2, BookStep DEF Next, Step
  <2> QED BY <2>1, <2>2
<1> QED BY <1>1, <1>2, CloseInvariant, PTL DEF Spec

(* The order that a row is, case by case.                                  *)
LEMMA OrderCases ==
  ASSUME BookInv, NEW t \in Request
  PROVE  /\ OrderOf(t) = Book!Nothing <=>
              sale[t].status = "NONE" \/ sale[t].kind = "VOID"
         /\ OrderOf(t) # Book!Nothing =>
              /\ OrderOf(t).name = sale[t].cid /\ OrderOf(t).day = sale[t].day
              /\ OrderOf(t) = Book!OrderWith(StateOf(t), sale[t].cid, sale[t].day, sale[t].qty,
                   sale[t].cash, sale[t].online, sale[t].tip, sale[t].owed, sale[t].settled)
         /\ OrderOf(t).state = "gone" <=> sale[t].status = "DELETED"
         /\ OrderOf(t).state = "parked" <=> sale[t].status = "PARKED" /\ sale[t].kind = "PURCHASE"
         /\ OrderOf(t).state \in {"parked", "completed", "voided"} => Live(t)
<1>1. sale[t] \in SaleRow
  BY BookTypes
<1>2. sale[t].status = "DELETED" => sale[t].kind = "PURCHASE"
  BY DEF BookInv, DiscardedBought
<1>3. CASE sale[t].status = "NONE" \/ sale[t].kind = "VOID"
  BY <1>1, <1>2, <1>3 DEF OrderOf, Book!Nothing, SaleRow
<1>4. CASE ~(sale[t].status = "NONE" \/ sale[t].kind = "VOID")
  <2> DEFINE o == [state |-> StateOf(t), name |-> sale[t].cid, day |-> sale[t].day,
                   qty |-> sale[t].qty, cash |-> sale[t].cash, online |-> sale[t].online,
                   tip |-> sale[t].tip, owed |-> sale[t].owed, settled |-> sale[t].settled]
  <2>1. OrderOf(t) = o /\ o.state = StateOf(t) /\ o.name = sale[t].cid /\ o.day = sale[t].day
    BY <1>4 DEF OrderOf
  <2>2. o = Book!OrderWith(StateOf(t), sale[t].cid, sale[t].day, sale[t].qty,
              sale[t].cash, sale[t].online, sale[t].tip, sale[t].owed, sale[t].settled)
    BY DEF Book!OrderWith
  <2>3. StateOf(t) \in {"gone", "parked", "completed", "voided"}
        /\ (StateOf(t) = "gone" <=> sale[t].status = "DELETED")
        /\ (StateOf(t) = "parked" <=> sale[t].status = "PARKED")
    BY DEF StateOf
  <2>4. o # Book!Nothing
    BY <2>3, <2>1 DEF Book!Nothing
  <2>5. sale[t].status \in {"PARKED", "COMPLETED", "DELETED"} /\ sale[t].kind = "PURCHASE"
    BY <1>1, <1>4 DEF SaleRow
  <2> HIDE DEF o
  <2> QED BY <1>4, <2>1, <2>2, <2>3, <2>4, <2>5 DEF Live
<1> QED BY <1>3, <1>4

(* What the book sees of a step that writes no row or no day.              *)
LEMMA BookQuiet ==
  /\ UNCHANGED sale => BookOrders' = BookOrders
  /\ UNCHANGED day => BookDays' = BookDays
<1>1. UNCHANGED sale => BookOrders' = BookOrders
  <2> SUFFICES ASSUME UNCHANGED sale PROVE BookOrders' = BookOrders
    OBVIOUS
  <2>1. \A t \in Request : OrderOf(t)' = OrderOf(t)
    BY DEF OrderOf, StateOf, IsVoided, Live
  <2> QED BY <2>1 DEF BookOrders
<1> QED BY <1>1 DEF BookDays

(* What the book sees of the request that takes a step: a call, its answer *)
(* or nothing.                                                             *)
LEMMA BookControl ==
  ASSUME BookInv, NEW q \in Request, Step(q)
  PROVE  \/ Book!Ask(q)
         \/ Finish(q) /\ Book!Answer(q) /\ BookAsked[q] = {arg[q]}
         \/ UNCHANGED Book!vars
<1>0. /\ TypeOK /\ Others(q) /\ pc \in [Request -> Label]
  BY BookTypes, StepOthers
<1>1. ASSUME NEW r \in Request, r # q PROVE pc'[r] = pc[r] /\ arg'[r] = arg[r]
  BY <1>0, <1>1 DEF Others
<1>2. CASE /\ Start(q) /\ pc[q] = "idle" /\ arg'[q] \in Calls[q]
           /\ pc'[q] \notin {"idle", "done"}
  <2>1. BookAsked' = [BookAsked EXCEPT ![q] = {arg'[q]}]
    BY <1>1, <1>2 DEF BookAsked
  <2>2. BookAsked[q] = {} /\ q \notin BookAnswered /\ BookAnswered' = BookAnswered
    BY <1>1, <1>2 DEF BookAsked, BookAnswered
  <2>3. BookDays' = BookDays /\ BookOrders' = BookOrders
    BY <1>2, BookQuiet DEF Start, db
  <2>4. Book!Ask(q)
    BY <1>2, <2>1, <2>2, <2>3 DEF Book!Ask
  <2> QED BY <2>4
<1>3. CASE Finish(q) /\ pc[q] \notin {"idle", "done"}
  <2>0. pc'[q] = "done"
    BY <1>0, <1>3, FinishOthers
  <2>1. BookAsked' = [BookAsked EXCEPT ![q] = {}]
    BY <1>1, <1>3, <2>0 DEF BookAsked
  <2>2. BookAsked[q] = {arg[q]} /\ BookAnswered' = BookAnswered \cup {q}
    BY <1>1, <1>3, <2>0 DEF BookAsked, BookAnswered
  <2>3. Book!Answer(q)
    BY <2>1, <2>2 DEF Book!Answer
  <2> QED BY <1>3, <2>2, <2>3
<1>4. CASE /\ pc[q] \notin {"idle", "done"} /\ pc'[q] \notin {"idle", "done"}
           /\ arg'[q] = arg[q] /\ UNCHANGED <<day, sale>>
  <2>1. BookAsked' = BookAsked /\ BookAnswered' = BookAnswered
    BY <1>1, <1>4 DEF BookAsked, BookAnswered
  <2> QED BY <1>4, <2>1, BookQuiet DEF Book!vars
<1> QED BY <1>0, <1>2, <1>3, <1>4, StepPlaces

(* A written row is never a void, so every order stays as voided as it is. *)
LEMMA BookWritten ==
  ASSUME BookInv, NEW q \in Request, NEW x \in SaleRow, Written(q, x)
  PROVE  LET t == seen[q].row IN
         /\ \A u \in Request : IsVoided(u)' <=> IsVoided(u)
         /\ \A u \in Request \ {t} : OrderOf(u)' = OrderOf(u)
         /\ sale'[t] = x /\ x.kind = "PURCHASE" /\ sale[t].kind = "PURCHASE"
         /\ BookDays' = BookDays
<1> DEFINE t == seen[q].row
<1>0. /\ sale \in [Request -> SaleRow] /\ t \in Request /\ sale[t].kind = "PURCHASE"
      /\ sale'[t] = x /\ \A u \in Request : u # t => sale'[u] = sale[u]
      /\ x.kind = "PURCHASE" /\ UNCHANGED day
  BY BookTypes DEF Written, SameRow, LineInv, PurchaseHeld, Holding
<1>1. \A u, v \in Request :
        (Live(v) /\ sale[v].kind = "VOID" /\ sale[v].corrects = u)'
          <=> Live(v) /\ sale[v].kind = "VOID" /\ sale[v].corrects = u
  BY <1>0 DEF Live
<1>2. \A u \in Request : IsVoided(u)' <=> IsVoided(u)
  BY <1>1 DEF IsVoided
<1>3. ASSUME NEW u \in Request, u # t PROVE OrderOf(u)' = OrderOf(u)
  BY <1>0, <1>2, <1>3 DEF OrderOf, StateOf
<1> QED BY <1>0, <1>2, <1>3, BookQuiet

(* A new order is nobody's void.                                           *)
LEMMA BookBorn ==
  ASSUME BookInv, NEW q \in Request, NEW x \in SaleRow, Born(q, x)
  PROVE  /\ OrderOf(q) = Book!Nothing /\ sale'[q] = x /\ BookDays' = BookDays
         /\ x.kind = "PURCHASE" =>
              \A u \in Request : /\ IsVoided(u)' <=> IsVoided(u)
                                 /\ u # q => OrderOf(u)' = OrderOf(u)
         /\ x.kind = "VOID" =>
              /\ OrderOf(q)' = OrderOf(q)
              /\ \A u \in Request : /\ IsVoided(u)' <=> IsVoided(u) \/ u = seen[q].row
                                    /\ u \notin {q, seen[q].row} => OrderOf(u)' = OrderOf(u)
<1>0. /\ sale \in [Request -> SaleRow] /\ sale[q].status = "NONE"
      /\ sale'[q] = x /\ \A u \in Request : u # q => sale'[u] = sale[u]
      /\ UNCHANGED day /\ ~Live(q)
  BY BookTypes DEF Born, Live
<1>1. OrderOf(q) = Book!Nothing
  BY <1>0, OrderCases
<1>2. CASE x.kind = "PURCHASE"
  <2>1. \A u, v \in Request :
          (Live(v) /\ sale[v].kind = "VOID" /\ sale[v].corrects = u)'
            <=> Live(v) /\ sale[v].kind = "VOID" /\ sale[v].corrects = u
    BY <1>0, <1>2 DEF Live
  <2>2. \A u \in Request : IsVoided(u)' <=> IsVoided(u)
    BY <2>1 DEF IsVoided
  <2>3. \A u \in Request : u # q => OrderOf(u)' = OrderOf(u)
    BY <1>0, <2>2 DEF OrderOf, StateOf
  <2> QED BY <1>0, <1>1, <1>2, <2>2, <2>3, BookQuiet
<1>3. CASE x.kind = "VOID"
  <2>0. x.status = "COMPLETED" /\ x.corrects = seen[q].row
    BY <1>3 DEF Born
  <2>1. \A u, v \in Request :
          (Live(v) /\ sale[v].kind = "VOID" /\ sale[v].corrects = u)'
            <=> \/ Live(v) /\ sale[v].kind = "VOID" /\ sale[v].corrects = u
                \/ v = q /\ u = seen[q].row
    BY <1>0, <1>3, <2>0 DEF Live
  <2>2. \A u \in Request : IsVoided(u)' <=> IsVoided(u) \/ u = seen[q].row
    BY <2>1 DEF IsVoided
  <2>3. \A u \in Request : u \notin {q, seen[q].row} => OrderOf(u)' = OrderOf(u)
    BY <1>0, <2>2 DEF OrderOf, StateOf
  <2>4. OrderOf(q)' = Book!Nothing
    BY <1>0, <1>3 DEF OrderOf, Book!Nothing
  <2> QED BY <1>0, <1>1, <1>3, <2>2, <2>3, <2>4, BookQuiet
<1> QED BY <1>0, <1>2, <1>3 DEF SaleRow

(* A name of a discarded order leaves an order's changes out of the        *)
(* promise, and the order book says so.                                    *)
LEMMA BookReused ==
  ASSUME BookInv, NEW t \in Request, OrderOf(t) # Book!Nothing, Recreated(t)
  PROVE  Book!Reused(t)
<1>1. PICK u \in Request : u # t /\ sale[u].status = "DELETED" /\ sale[u].cid = sale[t].cid
  BY DEF Recreated
<1>2. OrderOf(u).state = "gone"
  BY <1>1, OrderCases
<1>3. OrderOf(u) # Book!Nothing
  BY <1>1, OrderCases, BookTypes DEF BookInv, DiscardedBought
<1>4. OrderOf(u).name = sale[u].cid /\ OrderOf(t).name = sale[t].cid
  BY <1>3, OrderCases
<1> QED BY <1>1, <1>2, <1>4 DEF Book!Reused, BookOrders

(* The order whose lock a request holds, as the book has it.               *)
LEMMA BookHeld ==
  ASSUME BookInv, NEW q \in Request, Holding(q)
  PROVE  LET t == seen[q].row IN
         /\ t \in Request /\ sale[t].kind = "PURCHASE" /\ sale[t].status # "NONE"
         /\ sale[t] \in SaleRow
         /\ OrderOf(t) # Book!Nothing /\ OrderOf(t).name = arg[q].cid
         /\ OrderOf(t) = Book!OrderWith(StateOf(t), sale[t].cid, sale[t].day, sale[t].qty,
              sale[t].cash, sale[t].online, sale[t].tip, sale[t].owed, sale[t].settled)
         /\ Recreated(t) \/ Agrees(q)
<1> DEFINE t == seen[q].row
<1>1. /\ t \in Request /\ sale[t].kind = "PURCHASE" /\ sale[t].status # "NONE"
      /\ sale[t].cid = arg[q].cid /\ sale[t] \in SaleRow
      /\ Recreated(t) \/ Agrees(q)
  BY BookTypes DEF Named, LineInv, PurchaseHeld, OrderInv, Held, Holds
<1> QED BY <1>1, OrderCases

(* A change of an order that the promise does not reach.                   *)
LEMMA BookMistake ==
  ASSUME BookInv, NEW t \in Request, OrderOf(t) # Book!Nothing, Recreated(t),
         OrderOf(t)'.name = OrderOf(t).name, OrderOf(t)'.day = OrderOf(t).day,
         \A u \in Request \ {t} : OrderOf(u)' = OrderOf(u),
         BookDays' = BookDays
  PROVE  Book!Mistake(t)
BY BookReused DEF Book!Mistake, BookOrders

(* A create rings up an order.                                             *)
LEMMA BookCreate ==
  ASSUME BookInv, NEW q \in Request, CreateInsert(q)
  PROVE  Book!Effect(q, arg[q])
<1>1. CASE UNCHANGED sale
  <2>1. Book!Refuse(q)
    BY <1>1, BookQuiet DEF CreateInsert, Book!Refuse
  <2> QED BY <2>1 DEF Book!Effect
<1>2. CASE ~UNCHANGED sale
  <2>1. PICK n \in 1..MaxQty : sale' = [sale EXCEPT ![q] =
          [status |-> "PARKED", kind |-> "PURCHASE", cid |-> arg[q].cid,
           day |-> seen[q].day, num |-> seen[q].num, qty |-> n, total |-> n,
           cash |-> 0, online |-> 0, tip |-> 0, owed |-> 0,
           settled |-> FALSE, corrects |-> q]]
    BY <1>2 DEF CreateInsert
  <2> DEFINE x == [status |-> "PARKED", kind |-> "PURCHASE", cid |-> arg[q].cid,
                   day |-> seen[q].day, num |-> seen[q].num, qty |-> n, total |-> n,
                   cash |-> 0, online |-> 0, tip |-> 0, owed |-> 0,
                   settled |-> FALSE, corrects |-> q]
             d == seen[q].day
             o == Book!OrderWith("parked", arg[q].cid, d, n, 0, 0, 0, 0, FALSE)
  <2>2. /\ pc[q] = "insert" /\ arg[q].op = "create" /\ Finish(q) /\ UNCHANGED <<day, closing>>
        /\ ~IdTaken(arg[q].cid)
    BY <1>2 DEF CreateInsert, At, Collides
  <2>3. n \in Int /\ n >= 1 /\ x \in SaleRow
    BY SeenType, BookTypes, AmountAssumption DEF SaleRow
  <2>4. Born(q, x)
    BY <2>1, <2>2, <2>3, BookTypes DEF Born, OrderInv, BornLast
  <2>5. /\ OrderOf(q) = Book!Nothing /\ sale'[q] = x /\ BookDays' = BookDays
        /\ \A u \in Request : u # q => OrderOf(u)' = OrderOf(u)
    BY <2>3, <2>4, BookBorn
  <2>6. OrderOf(q)' = o
    BY <2>5 DEF OrderOf, StateOf, Book!OrderWith
  <2>7. BookOrders' = [BookOrders EXCEPT ![q] = o]
    BY <2>5, <2>6 DEF BookOrders
  <2>8. d \in Day /\ BookDays[d] = "OPEN"
    BY <2>2, BookTypes DEF Secure, IsOpen, BookDays
  <2>9. \A t \in Request : Book!IsThere(t) => BookOrders[t].name # arg[q].cid
    <3> SUFFICES ASSUME NEW t \in Request, Book!IsThere(t) PROVE BookOrders[t].name # arg[q].cid
      OBVIOUS
    <3>1. OrderOf(t).state \in {"parked", "completed", "voided"} /\ BookOrders[t] = OrderOf(t)
      BY DEF Book!IsThere, BookOrders
    <3>2. Live(t) /\ OrderOf(t).name = sale[t].cid
      BY <3>1, OrderCases DEF Book!Nothing
    <3> QED BY <2>2, <3>1, <3>2 DEF IdTaken, HasId
  <2>10. BookOrders[q] = Book!Nothing
    BY <2>5 DEF BookOrders
  <2> HIDE DEF o, d
  <2>11. Book!Ring(q, arg[q])
    BY <2>2, <2>5, <2>7, <2>8, <2>9, <2>10 DEF Book!Ring, o
  <2> QED BY <2>11 DEF Book!Effect
<1> QED BY <1>1, <1>2

(* What becomes of the order whose row is written.                         *)
LEMMA BookAfter ==
  ASSUME BookInv, NEW q \in Request, NEW x \in SaleRow, Written(q, x), x.status # "NONE",
         NEW t \in Request, t = seen[q].row
  PROVE  LET state == IF x.status = "DELETED" THEN "gone"
                      ELSE IF x.status = "PARKED" THEN "parked"
                      ELSE IF IsVoided(t) THEN "voided" ELSE "completed"
         IN /\ OrderOf(t)' = Book!OrderWith(state, x.cid, x.day, x.qty, x.cash, x.online,
                               x.tip, x.owed, x.settled)
            /\ OrderOf(t)'.name = OrderOf(t).name /\ OrderOf(t)'.day = OrderOf(t).day
<1> DEFINE state == IF x.status = "DELETED" THEN "gone"
                    ELSE IF x.status = "PARKED" THEN "parked"
                    ELSE IF IsVoided(t) THEN "voided" ELSE "completed"
<1>0. Holding(q) /\ SameRow(x, sale[t])
  BY BookTypes DEF Written, Holding
<1>1. /\ sale'[t] = x /\ x.kind = "PURCHASE" /\ (IsVoided(t)' <=> IsVoided(t))
  BY <1>0, BookWritten
<1>2. StateOf(t)' = state
  BY <1>1 DEF StateOf
<1>3. OrderOf(t)' = Book!OrderWith(state, x.cid, x.day, x.qty, x.cash, x.online,
                      x.tip, x.owed, x.settled)
  BY <1>1, <1>2 DEF OrderOf, Book!OrderWith
<1>4. OrderOf(t)'.name = x.cid /\ OrderOf(t)'.day = x.day
  BY <1>3 DEF Book!OrderWith
<1>5. OrderOf(t).name = sale[t].cid /\ OrderOf(t).day = sale[t].day
  BY <1>0, BookHeld, OrderCases
<1> QED BY <1>0, <1>3, <1>4, <1>5 DEF SameRow

(* A write to a row whose name a discarded order bore.                     *)
LEMMA BookWrittenReused ==
  ASSUME BookInv, NEW q \in Request, NEW x \in SaleRow, Written(q, x), x.status # "NONE",
         Recreated(seen[q].row)
  PROVE  Book!Effect(q, arg[q])
<1>p. PICK t \in Request : t = seen[q].row
  BY BookTypes
<1>0. Holding(q)
  BY BookTypes DEF Written, Holding
<1>1. OrderOf(t) # Book!Nothing
  BY <1>p, <1>0, BookHeld
<1>2. OrderOf(t)'.name = OrderOf(t).name /\ OrderOf(t)'.day = OrderOf(t).day
  BY <1>p, BookAfter
<1>3. (\A u \in Request \ {t} : OrderOf(u)' = OrderOf(u)) /\ BookDays' = BookDays
  BY <1>p, BookWritten
<1>4. Book!Mistake(t)
  BY <1>p, <1>1, <1>2, <1>3, BookMistake
<1> QED BY <1>0, <1>4 DEF Book!Effect

(* An edit changes the parked order that it names, as the book says.       *)
LEMMA BookEdit ==
  ASSUME BookInv, NEW q \in Request, WriteLine(q)
  PROVE  Book!Effect(q, arg[q])
<1>p. PICK t \in Request : t = seen[q].row
  BY BookTypes
<1>0. /\ pc[q] = "write" /\ Holding(q) /\ arg[q].op \in Mutation /\ CanWrite(q) /\ Finish(q)
      /\ UNCHANGED <<day, closing>> /\ sale \in [Request -> SaleRow]
  BY BookTypes DEF WriteLine, At, Holding
<1>1. CASE UNCHANGED sale
  <2>1. Book!Refuse(q)
    BY <1>p, <1>0, <1>1, BookQuiet DEF Book!Refuse
  <2> QED BY <2>1 DEF Book!Effect
<1>2. CASE ~UNCHANGED sale
  <2>1. PICK x \in SaleRow : Written(q, x)
    BY <1>2, BookTypes, WriteKeeps DEF Writes
  <2>2. t \in Request /\ sale'[t] = x /\ Live(t) /\ sale[t] \in SaleRow
    BY <1>p, <1>0, <1>2, <2>1, BookWritten, BookHeld DEF WriteLine
  <2>3. x.status # "NONE"
    BY <1>p, <2>1 DEF Written
  <2>4. CASE Recreated(t)
    BY <1>p, <2>1, <2>3, <2>4, BookWrittenReused
  <2>5. CASE ~Recreated(t)
    <3>1. /\ sale[t].status = "PARKED" /\ sale[t].qty = seen[q].qty
          /\ OrderOf(t).name = arg[q].cid
      BY <1>p, <1>0, <2>5, BookHeld DEF Agrees, Mutation
    <3>2. PICK n \in NewQty(q) :
            sale' = IF n = 0
              THEN [sale EXCEPT ![t].status = "DELETED"]
              ELSE [sale EXCEPT ![t].qty = n,
                                ![t].total = IF sale[t].status = "PARKED" THEN n ELSE @]
      BY <1>p, <1>2 DEF WriteLine
    <3>3. n \in Book!QtyAfter(arg[q].op, sale[t].qty)
      BY <1>p, <1>0, <3>1, <3>2 DEF NewQty, Book!QtyAfter, Mutation
    <3>4. /\ x.cid = sale[t].cid /\ x.day = sale[t].day /\ x.cash = sale[t].cash
          /\ x.online = sale[t].online /\ x.tip = sale[t].tip /\ x.owed = sale[t].owed
          /\ x.settled = sale[t].settled
          /\ n = 0 => x.status = "DELETED" /\ x.qty = sale[t].qty
          /\ n # 0 => x.status = "PARKED" /\ x.qty = n
      <4>1. CASE n = 0
        <5>1. x = [sale[t] EXCEPT !.status = "DELETED"]
          BY <1>p, <1>0, <2>2, <3>2, <4>1
        <5> QED BY <1>p, <2>2, <4>1, <5>1 DEF SaleRow
      <4>2. CASE n # 0
        <5>1. sale' = [sale EXCEPT ![t] = [sale[t] EXCEPT !.qty = n, !.total = n]]
          BY <1>p, <1>0, <2>2, <3>1, <3>2, <4>2 DEF SaleRow
        <5>2. x = [sale[t] EXCEPT !.qty = n, !.total = n]
          BY <1>p, <1>0, <2>2, <5>1
        <5> QED BY <1>p, <2>2, <3>1, <4>2, <5>2 DEF SaleRow
      <4> QED BY <4>1, <4>2
    <3> DEFINE o == Book!OrderWith("parked", sale[t].cid, sale[t].day, sale[t].qty, sale[t].cash,
                      sale[t].online, sale[t].tip, sale[t].owed, sale[t].settled)
    <3>5. OrderOf(t) = o /\ o.state = "parked"
      <4>1. OrderOf(t) = Book!OrderWith(StateOf(t), sale[t].cid, sale[t].day, sale[t].qty,
              sale[t].cash, sale[t].online, sale[t].tip, sale[t].owed, sale[t].settled)
        BY <1>p, <1>0, BookHeld
      <4>2. StateOf(t) = "parked"
        BY <3>1 DEF StateOf
      <4> QED BY <4>1, <4>2 DEF Book!OrderWith
    <3>6. OrderOf(t)' = IF n = 0 THEN Book!InState(o, "gone") ELSE Book!WithQty(o, n)
      BY <1>p, <2>1, <2>3, <3>4, BookAfter DEF Book!InState, Book!WithQty, Book!OrderWith
    <3> HIDE DEF o
    <3>7. BookOrders' = [BookOrders EXCEPT ![t] =
                           IF n = 0 THEN Book!InState(@, "gone") ELSE Book!WithQty(@, n)]
      BY <1>p, <2>1, <2>2, <3>5, <3>6, BookWritten DEF BookOrders
    <3>8. /\ BookOrders[t].state = "parked" /\ BookOrders[t].name = arg[q].cid
          /\ n \in Book!QtyAfter(arg[q].op, BookOrders[t].qty) /\ BookDays' = BookDays
      <4>1. BookOrders[t] = o /\ o.qty = sale[t].qty
        BY <1>p, <2>2, <3>5 DEF BookOrders, o, Book!OrderWith
      <4> QED BY <1>p, <2>1, <3>1, <3>3, <3>5, <4>1, BookWritten
    <3>9. Book!Edit(q, arg[q], t)
      BY <1>p, <1>0, <3>7, <3>8 DEF Book!Edit, Mutation
    <3> QED BY <1>p, <2>2, <3>9 DEF Book!Effect
  <2> QED BY <2>4, <2>5
<1> QED BY <1>1, <1>2

(* A completion pays for what the parked order holds at that instant.      *)
LEMMA BookComplete ==
  ASSUME BookInv, NEW q \in Request, WriteComplete(q)
  PROVE  Book!Effect(q, arg[q])
<1>p. PICK t \in Request : t = seen[q].row
  BY BookTypes
<1>0. /\ pc[q] = "write" /\ Holding(q) /\ arg[q].op = "complete" /\ Finish(q)
      /\ UNCHANGED <<day, closing>> /\ sale \in [Request -> SaleRow]
  BY BookTypes DEF WriteComplete, At, Holding
<1>1. CASE UNCHANGED sale
  <2>1. Book!Refuse(q)
    BY <1>0, <1>1, BookQuiet DEF Book!Refuse
  <2> QED BY <2>1 DEF Book!Effect
<1>2. CASE ~UNCHANGED sale
  <2>1. PICK x \in SaleRow : Written(q, x)
    BY <1>2, BookTypes, WriteKeeps DEF Writes
  <2>2. sale'[t] = x /\ sale[t] \in SaleRow /\ sale[t].status = "PARKED"
    BY <1>p, <1>0, <1>2, <2>1, BookWritten, BookHeld DEF WriteComplete
  <2>3. x.status # "NONE"
    BY <2>1 DEF Written
  <2>4. CASE Recreated(t)
    BY <1>p, <2>1, <2>3, <2>4, BookWrittenReused
  <2>5. CASE ~Recreated(t)
    <3>1. /\ seen[q].total = sale[t].qty /\ OrderOf(t).name = arg[q].cid
          /\ sale[t].qty \in Int
      BY <1>p, <1>0, <2>2, <2>5, BookHeld, BookTypes, RowType DEF Agrees, OrderInv, ParkedTotal
    <3>2. PICK cash \in 0..seen[q].total, tip \in Tip, owed \in Owed \cup {0} :
            /\ cash = 0 => owed = 0
            /\ sale' = [sale EXCEPT ![seen[q].row].status = "COMPLETED",
                                    ![seen[q].row].cash = cash,
                                    ![seen[q].row].online = seen[q].total - cash,
                                    ![seen[q].row].tip = tip, ![seen[q].row].owed = owed]
      BY <1>2 DEF WriteComplete
    <3>3. /\ cash \in Int /\ cash \in 0..sale[t].qty /\ sale[t].qty - cash \in Int /\ tip \in Nat /\ owed \in Nat
      BY <3>1, <3>2, AmountAssumption
    <3>4. /\ x.cid = sale[t].cid /\ x.day = sale[t].day /\ x.qty = sale[t].qty
          /\ x.status = "COMPLETED" /\ x.cash = cash /\ x.online = sale[t].qty - cash
          /\ x.tip = tip /\ x.owed = owed /\ x.settled = sale[t].settled
      <4> DEFINE y == [sale[t] EXCEPT !.status = "COMPLETED", !.cash = cash,
                         !.online = sale[t].qty - cash, !.tip = tip, !.owed = owed]
      <4>1. /\ y.cid = sale[t].cid /\ y.day = sale[t].day /\ y.qty = sale[t].qty
            /\ y.status = "COMPLETED" /\ y.cash = cash /\ y.online = sale[t].qty - cash
            /\ y.tip = tip /\ y.owed = owed /\ y.settled = sale[t].settled
        BY <2>2 DEF SaleRow
      <4>2. sale' = [sale EXCEPT ![t] = y]
        BY <1>p, <1>0, <2>2, <3>1, <3>2 DEF SaleRow
      <4> HIDE DEF y
      <4>3. x = y
        BY <1>0, <2>2, <4>2
      <4> QED BY <4>1, <4>3
    <3> DEFINE o == Book!OrderWith("parked", sale[t].cid, sale[t].day, sale[t].qty, sale[t].cash,
                      sale[t].online, sale[t].tip, sale[t].owed, sale[t].settled)
    <3>5. OrderOf(t) = o
      <4>1. OrderOf(t) = Book!OrderWith(StateOf(t), sale[t].cid, sale[t].day, sale[t].qty,
              sale[t].cash, sale[t].online, sale[t].tip, sale[t].owed, sale[t].settled)
        BY <1>p, <1>0, BookHeld
      <4>2. StateOf(t) = "parked"
        BY <2>2 DEF StateOf
      <4> QED BY <4>1, <4>2
    <3>6. /\ o.state = "parked" /\ o.name = sale[t].cid /\ o.day = sale[t].day
          /\ o.qty = sale[t].qty /\ o.settled = sale[t].settled
      BY DEF Book!OrderWith
    <3>7. ~IsVoided(t)
      BY <2>2, BookTypes DEF IsVoided, VoidInv, VoidMirrorsOriginal
    <3>8. OrderOf(t)' = Book!OrderWith("completed", o.name, o.day, o.qty, cash, o.qty - cash,
                          tip, owed, o.settled)
      <4>1. OrderOf(t)' = Book!OrderWith("completed", x.cid, x.day, x.qty, x.cash, x.online,
                            x.tip, x.owed, x.settled)
        BY <1>p, <2>1, <2>3, <3>4, <3>7, BookAfter
      <4>2. /\ x.cid = o.name /\ x.day = o.day /\ x.qty = o.qty /\ x.cash = cash
            /\ x.online = o.qty - cash /\ x.tip = tip /\ x.owed = owed /\ x.settled = o.settled
        BY <3>4, <3>6
      <4> HIDE DEF o
      <4> QED BY <4>1, <4>2
    <3> HIDE DEF o
    <3>9. BookOrders' = [BookOrders EXCEPT ![t] =
            Book!OrderWith("completed", @.name, @.day, @.qty, cash, @.qty - cash, tip, owed,
                           @.settled)]
      BY <1>p, <2>1, <3>5, <3>8, BookWritten DEF BookOrders
    <3>10. /\ BookOrders[t].state = "parked" /\ BookOrders[t].name = arg[q].cid
           /\ cash \in 0 .. BookOrders[t].qty /\ BookDays' = BookDays
      <4>1. BookOrders[t] = o
        BY <3>5 DEF BookOrders
      <4> QED BY <1>p, <2>1, <3>1, <3>3, <3>5, <3>6, <4>1, BookWritten
    <3>11. Book!Complete(q, arg[q], t)
      BY <1>0, <3>2, <3>9, <3>10 DEF Book!Complete
    <3> QED BY <3>11 DEF Book!Effect
  <2> QED BY <2>4, <2>5
<1> QED BY <1>1, <1>2

(* Withheld change is settled while it is owed.                            *)
LEMMA BookSettle ==
  ASSUME BookInv, NEW q \in Request, WriteSettle(q)
  PROVE  Book!Effect(q, arg[q])
<1>p. PICK t \in Request : t = seen[q].row
  BY BookTypes
<1>0. /\ pc[q] = "write" /\ Holding(q) /\ arg[q].op = "settleChange" /\ Finish(q)
      /\ UNCHANGED <<day, closing>> /\ sale \in [Request -> SaleRow]
  BY BookTypes DEF WriteSettle, At, Holding
<1>1. CASE UNCHANGED sale
  <2>1. Book!Refuse(q)
    BY <1>0, <1>1, BookQuiet DEF Book!Refuse
  <2> QED BY <2>1 DEF Book!Effect
<1>2. CASE ~UNCHANGED sale
  <2>1. PICK x \in SaleRow : Written(q, x)
    BY <1>2, BookTypes, WriteKeeps DEF Writes
  <2>2. sale'[t] = x /\ sale[t] \in SaleRow
    BY <1>p, <1>0, <2>1, BookWritten, BookHeld
  <2>3. x.status # "NONE"
    BY <2>1 DEF Written
  <2>4. CASE Recreated(t)
    BY <1>p, <2>1, <2>3, <2>4, BookWrittenReused
  <2>5. CASE ~Recreated(t)
    <3>1. /\ sale[t].status = "COMPLETED" /\ OrderOf(t).name = arg[q].cid
          /\ sale[t].owed > 0 /\ ~sale[t].settled
      BY <1>p, <1>0, <2>5, BookHeld DEF Agrees
    <3>2. x = [sale[t] EXCEPT !.settled = TRUE]
      BY <1>p, <1>0, <2>2 DEF WriteSettle
    <3>3. /\ x.cid = sale[t].cid /\ x.day = sale[t].day /\ x.qty = sale[t].qty
          /\ x.status = "COMPLETED" /\ x.cash = sale[t].cash /\ x.online = sale[t].online
          /\ x.tip = sale[t].tip /\ x.owed = sale[t].owed /\ x.settled = TRUE
      BY <2>2, <3>1, <3>2 DEF SaleRow
    <3> DEFINE state == IF IsVoided(t) THEN "voided" ELSE "completed"
               o == Book!OrderWith(state, sale[t].cid, sale[t].day, sale[t].qty, sale[t].cash,
                      sale[t].online, sale[t].tip, sale[t].owed, sale[t].settled)
    <3>4. OrderOf(t) = o
      <4>1. OrderOf(t) = Book!OrderWith(StateOf(t), sale[t].cid, sale[t].day, sale[t].qty,
              sale[t].cash, sale[t].online, sale[t].tip, sale[t].owed, sale[t].settled)
        BY <1>p, <1>0, BookHeld
      <4>2. StateOf(t) = state
        BY <3>1 DEF StateOf
      <4> QED BY <4>1, <4>2
    <3>5. /\ o.state = state /\ o.name = sale[t].cid /\ o.day = sale[t].day
          /\ o.qty = sale[t].qty /\ o.cash = sale[t].cash /\ o.online = sale[t].online
          /\ o.tip = sale[t].tip /\ o.owed = sale[t].owed /\ o.settled = sale[t].settled
      BY DEF Book!OrderWith
    <3>6. OrderOf(t)' = Book!OrderWith(o.state, o.name, o.day, o.qty, o.cash, o.online,
                          o.tip, o.owed, TRUE)
      <4>1. OrderOf(t)' = Book!OrderWith(state, x.cid, x.day, x.qty, x.cash, x.online,
                            x.tip, x.owed, x.settled)
        BY <1>p, <2>1, <2>3, <3>3, BookAfter
      <4>2. /\ x.cid = o.name /\ x.day = o.day /\ x.qty = o.qty /\ x.cash = o.cash
            /\ x.online = o.online /\ x.tip = o.tip /\ x.owed = o.owed /\ x.settled = TRUE
            /\ state = o.state
        BY <3>3, <3>5
      <4> HIDE DEF o, state
      <4> QED BY <4>1, <4>2
    <3>7. state \in {"completed", "voided"}
      OBVIOUS
    <3> HIDE DEF o, state
    <3>8. BookOrders[t] = o
      BY <3>4 DEF BookOrders
    <3>9. BookOrders' = [BookOrders EXCEPT ![t] =
            Book!OrderWith(@.state, @.name, @.day, @.qty, @.cash, @.online, @.tip, @.owed, TRUE)]
      BY <1>p, <2>1, <3>4, <3>6, BookWritten DEF BookOrders
    <3>10. /\ BookOrders[t].state \in {"completed", "voided"} /\ BookOrders[t].name = arg[q].cid
           /\ BookOrders[t].owed > 0 /\ ~BookOrders[t].settled /\ BookDays' = BookDays
      BY <1>p, <2>1, <3>1, <3>4, <3>5, <3>7, <3>8, BookWritten
    <3>11. Book!Settle(q, arg[q], t)
      BY <1>0, <3>9, <3>10 DEF Book!Settle
    <3> QED BY <3>11 DEF Book!Effect
  <2> QED BY <2>4, <2>5
<1> QED BY <1>1, <1>2

(* A void turns the completed order into a voided one.                     *)
LEMMA BookVoid ==
  ASSUME BookInv, NEW q \in Request, VoidInsert(q)
  PROVE  Book!Effect(q, arg[q])
<1>p. PICK t \in Request : t = seen[q].row
  BY BookTypes
<1>0. /\ pc[q] = "insert" /\ Holding(q) /\ arg[q].op = "void" /\ Finish(q)
      /\ UNCHANGED <<day, closing>> /\ sale \in [Request -> SaleRow]
  BY BookTypes DEF VoidInsert, At, Holding
<1>1. CASE UNCHANGED sale
  <2>1. Book!Refuse(q)
    BY <1>0, <1>1, BookQuiet DEF Book!Refuse
  <2> QED BY <2>1 DEF Book!Effect
<1>2. CASE ~UNCHANGED sale
  <2>1. PICK x \in SaleRow : Born(q, x)
    BY <1>2, BookTypes, InsertBears DEF Inserts
  <2>2. x.kind = "VOID"
    <3>1. x = [status |-> "COMPLETED", kind |-> "VOID", cid |-> arg[q].other,
               day |-> seen[q].day, num |-> seen[q].num,
               qty |-> -seen[q].qty, total |-> -seen[q].total,
               cash |-> -seen[q].cash, online |-> -seen[q].online,
               tip |-> 0, owed |-> 0, settled |-> FALSE, corrects |-> seen[q].row]
      BY <1>0, <1>2, <2>1 DEF VoidInsert, Born
    <3> QED BY <3>1
  <2>3. /\ OrderOf(q)' = OrderOf(q) /\ BookDays' = BookDays /\ IsVoided(t)'
        /\ \A u \in Request : u \notin {q, t} => OrderOf(u)' = OrderOf(u)
    BY <1>p, <2>1, <2>2, BookBorn
  <2>4. /\ sale[q].status = "NONE" /\ sale[t].status = "COMPLETED"
        /\ sale[t].kind = "PURCHASE" /\ t # q /\ OrderOf(t).name = arg[q].cid
        /\ sale[t] \in SaleRow
    BY <1>p, <1>0, <2>1, BookTypes, BookHeld DEF Born, VoidInv, VoidSees, HoldsVoid
  <2>5. sale'[t] = sale[t] /\ \A u \in Request \ {t} : OrderOf(u)' = OrderOf(u)
    BY <1>0, <2>1, <2>3, <2>4 DEF Born
  <2> DEFINE o(state) == Book!OrderWith(state, sale[t].cid, sale[t].day, sale[t].qty,
                           sale[t].cash, sale[t].online, sale[t].tip, sale[t].owed,
                           sale[t].settled)
             state == IF IsVoided(t) THEN "voided" ELSE "completed"
  <2>6. OrderOf(t) = o(state) /\ OrderOf(t) # Book!Nothing
    <3>1. OrderOf(t) = o(StateOf(t)) /\ OrderOf(t) # Book!Nothing
      BY <1>p, <1>0, BookHeld
    <3>2. StateOf(t) = state
      BY <2>4 DEF StateOf
    <3> QED BY <3>1, <3>2
  <2>7. OrderOf(t)' = o("voided")
    BY <2>3, <2>4, <2>5 DEF OrderOf, StateOf, Book!OrderWith
  <2>8. /\ o(state).state = state /\ o(state).name = sale[t].cid /\ o(state).day = sale[t].day
        /\ o("voided").name = sale[t].cid /\ o("voided").day = sale[t].day
        /\ Book!InState(o(state), "voided") = o("voided")
    BY DEF Book!OrderWith, Book!InState
  <2> HIDE DEF o
  <2>9. CASE Recreated(t)
    <3>1. Book!Mistake(t)
      BY <2>3, <2>5, <2>6, <2>7, <2>8, <2>9, BookMistake
    <3> QED BY <3>1 DEF Book!Effect
  <2>10. CASE ~Recreated(t)
    <3>1. ~IsVoided(t)
      BY <1>p, <1>0, <2>10, BookTypes DEF VoidInv, NotYetVoided, HoldsVoid
    <3>2. BookOrders[t] = o(state) /\ state = "completed"
      BY <2>6, <3>1 DEF BookOrders
    <3>3. BookOrders' = [BookOrders EXCEPT ![t] = Book!InState(@, "voided")]
      BY <2>5, <2>6, <2>7, <2>8 DEF BookOrders
    <3>4. \E d \in Day : BookDays[d] = "OPEN" /\ (arg[q].role = "STAFF" => BookOrders[t].day = d)
      <4>1. seen[q].day \in Day /\ BookDays[seen[q].day] = "OPEN"
        BY <1>0, BookTypes DEF Secure, IsOpen, BookDays
      <4>2. arg[q].role = "STAFF" => sale[t].day = seen[q].day
        BY <1>p, <1>0, BookTypes DEF CloseInv, StaffSameDay
      <4> QED BY <2>8, <3>2, <4>1, <4>2
    <3>5. Book!Void(q, arg[q], t)
      BY <1>0, <2>3, <2>4, <2>6, <2>8, <3>2, <3>3, <3>4 DEF Book!Void, BookOrders
    <3> QED BY <3>5 DEF Book!Effect
  <2> QED BY <2>9, <2>10
<1> QED BY <1>1, <1>2

(* A day opens where none is open, and the closer's day closes.            *)
LEMMA BookOpenClose ==
  ASSUME BookInv, NEW q \in Request, OpenInsertDay(q) \/ CloseCommit(q)
  PROVE  Book!Effect(q, arg[q])
<1>0. /\ UNCHANGED sale /\ BookOrders' = BookOrders
      /\ day \in [Day -> [status : {"NONE", "OPEN", "CLOSED"}, date : Date]]
  BY BookQuiet, BookTypes DEF OpenInsertDay, CloseCommit
<1>1. CASE OpenInsertDay(q)
  <2>1. CASE UNCHANGED day
    <3>1. Book!Refuse(q)
      BY <1>0, <2>1, BookQuiet DEF Book!Refuse
    <3> QED BY <3>1 DEF Book!Effect
  <2>2. CASE ~UNCHANGED day
    <3>1. PICK d \in Day :
            /\ day[d].status = "NONE"
            /\ day' = [day EXCEPT ![d] = [status |-> "OPEN", date |-> arg[q].date]]
      BY <1>1, <2>2 DEF OpenInsertDay
    <3>2. BookDays' = [BookDays EXCEPT ![d] = "OPEN"] /\ BookDays[d] = "NONE"
      BY <1>0, <3>1 DEF BookDays
    <3>3. \A e \in Day : BookDays[e] # "OPEN"
      BY <1>1, <2>2 DEF OpenInsertDay, IsOpen, BookDays
    <3>4. arg[q].op = "open"
      BY <1>1 DEF OpenInsertDay, At, BookInv, RightCall
    <3>5. Book!Open(q, arg[q])
      BY <1>0, <3>2, <3>3, <3>4 DEF Book!Open
    <3> QED BY <3>5 DEF Book!Effect
  <2> QED BY <2>1, <2>2
<1>2. CASE CloseCommit(q)
  <2> DEFINE d == seen[q].day
  <2>1. /\ d \in Day /\ IsOpen(d) /\ day' = [day EXCEPT ![d].status = "CLOSED"]
        /\ arg[q].op = "close"
    BY <1>2, BookTypes DEF CloseCommit, At, BookInv, RightCall
  <2>2. BookDays' = [BookDays EXCEPT ![d] = "CLOSED"] /\ BookDays[d] = "OPEN"
    BY <1>0, <2>1 DEF BookDays, IsOpen
  <2>3. Book!Close(q, arg[q])
    BY <1>0, <2>1, <2>2 DEF Book!Close
  <2> QED BY <2>3 DEF Book!Effect
<1> QED BY <1>1, <1>2

(* The first state is one of the order book.                               *)
LEMMA BookInit == Init => Book!Init
<1> SUFFICES ASSUME Init PROVE Book!Init
  OBVIOUS
<1>1. BookDays = [d \in Day |-> IF d = FirstDay THEN "OPEN" ELSE "NONE"]
  BY DEF Init, BookDays
<1>2. BookOrders = [t \in Request |-> Book!Nothing]
  BY DEF Init, BookOrders, OrderOf, Book!Nothing
<1>3. BookAsked = [r \in Request |-> {}] /\ BookAnswered = {}
  BY DEF Init, BookAsked, BookAnswered
<1> QED BY <1>1, <1>2, <1>3 DEF Book!Init

(* Every step is a step of the book or a stutter.                          *)
LEMMA BookNext == BookInv /\ [Next]_vars => [Book!Next]_Book!vars
<1> SUFFICES ASSUME BookInv, [Next]_vars PROVE [Book!Next]_Book!vars
  OBVIOUS
<1>1. CASE UNCHANGED vars
  BY <1>1, BookQuiet DEF vars, Book!vars, BookAsked, BookAnswered
<1>2. ASSUME NEW q \in Request, Step(q) PROVE Book!Next \/ UNCHANGED Book!vars
  <2>1. ASSUME Finish(q), ~UNCHANGED <<day, sale>> PROVE Book!Effect(q, arg[q])
    <3>1. CASE Inserts(q) \/ Writes(q)
      BY <3>1, BookCreate, BookVoid, BookEdit, BookComplete, BookSettle DEF Inserts, Writes
    <3>2. CASE ~Inserts(q) /\ ~Writes(q)
      <4>1. OpenInsertDay(q) \/ CloseCommit(q)
        BY <1>2, <2>1, <3>2, BookTypes, GoesOnQuiet, DaysMove
      <4> QED BY <4>1, BookOpenClose
    <3> QED BY <3>1, <3>2
  <2>2. ASSUME UNCHANGED <<day, sale>> PROVE Book!Effect(q, arg[q])
    BY <2>2, BookQuiet DEF Book!Effect, Book!Refuse
  <2>3. CASE Book!Ask(q)
    BY <2>3 DEF Book!Next
  <2>4. CASE Finish(q) /\ Book!Answer(q) /\ BookAsked[q] = {arg[q]}
    BY <2>1, <2>2, <2>4 DEF Book!Next
  <2> QED BY <1>2, <2>3, <2>4, BookControl
<1> QED BY <1>1, <1>2 DEF Next, Step

(* Each call takes effect at one instant, on the orders and days as they   *)
(* are at that instant, or not at all, for any number of concurrent        *)
(* requests; only a change of an order under the name of a discarded one   *)
(* may be out of turn.                                                     *)
THEOREM RequestsImplementOrders == Spec => ImplementsOrders
BY BookInit, BookNext, BookInvariant, PTL DEF Spec, ImplementsOrders, Book!Spec
=============================================================================
