----------------------------- MODULE Reporting ------------------------------
(***************************************************************************)
(* reporting.service.ts: what its statements compute from days, sales and  *)
(* movements, and the reports that put several statements together, each   *)
(* of which sees the database as it is when it runs.  The writes are those *)
(* of OrderCapture and CashMovements, as far as the reports tell them      *)
(* apart.  Service types, searches, completion times and the daily         *)
(* inventory are left out.                                                 *)
(***************************************************************************)
EXTENDS Integers, FiniteSets, FiniteSetsExt, SequencesExt

CONSTANTS
  Day,      \* days that are opened, in this order: 1 .. n
  DateOf,   \* their business dates
  Order,    \* what is ordered: [product, price, servings, cash, online, tip, owed]
  Span,    \* ranges of dates that are reported: <<from, to>>
  Query,    \* queries of the order history: [status, payment, sort, asc, page]
  PageSize,
  MaxWrites \* bound on what is written

VARIABLES
  days,      \* [open, figures, expected] by day, the last two as of its close
  sales,     \* a sequence of [of, day, number, parked, order, sign, servings, settled]
  movements, \* a sequence of [day, kind, amount, amends]
  report,    \* the report on its way, if any
  writes

vars == <<days, sales, movements, report, writes>>

Sales == DOMAIN sales
Opened == DOMAIN days
Sum(op(_), S) == MapThenSumSet(op, S)

Total(i) == sales[i].sign * sales[i].order.price
Paid(i, method) == IF sales[i].parked THEN 0 ELSE sales[i].sign * sales[i].order[method]
IsPurchase(i) == sales[i].of = 0
HasCorrection(i) == \E j \in Sales : sales[j].of = i

-----------------------------------------------------------------------------
(* loadDailyReadModel                                                      *)

CountedOn(i) == sales[i].day

SalesOn(d) == {i \in Sales : CountedOn(i) = d}
TipOf(i) == IF IsPurchase(i) /\ ~sales[i].parked THEN sales[i].order.tip ELSE 0
Outstanding(d) ==
  Sum(LAMBDA i : IF IsPurchase(i) /\ ~sales[i].parked /\ ~sales[i].settled THEN sales[i].order.owed ELSE 0,
      SalesOn(d))

IsAmended(m) == \E n \in DOMAIN movements : movements[n].amends = m
Moved(d, kind) ==
  Sum(LAMBDA m : movements[m].amount,
      {m \in DOMAIN movements : movements[m].day = d /\ movements[m].kind = kind /\ ~IsAmended(m)})

Figures(d) ==
  [cash |-> Sum(LAMBDA i : Paid(i, "cash"), SalesOn(d)),
   online |-> Sum(LAMBDA i : Paid(i, "online"), SalesOn(d)),
   tips |-> Sum(TipOf, SalesOn(d)),
   orders |-> Cardinality({i \in SalesOn(d) : IsPurchase(i) /\ ~sales[i].parked}),
   moved |-> [kind \in {"IN", "EXPENSE"} |-> Moved(d, kind)]]

Gross(figures) == figures.cash + figures.online

(* calculateCashReconciliation, with a float of nothing                    *)
ExpectedCash(d) ==
  LET f == Figures(d) IN f.cash + f.tips + f.moved["IN"] + Outstanding(d) - f.moved["EXPENSE"]

All == <<Min({DateOf[d] : d \in Day}), Max({DateOf[d] : d \in Day})>>
DaysIn(range) == {d \in Opened : DateOf[d] \in range[1] .. range[2]}
DailyReadModel(range) == [d \in DaysIn(range) |-> Figures(d)]
GrossOf(model) == Sum(LAMBDA d : Gross(model[d]), DOMAIN model)

(* getClosedDailyGross                                                     *)
ClosedDailyGross(range) ==
  LET closed == {d \in DaysIn(range) : ~days[d].open}
  IN [date \in {DateOf[d] : d \in closed} |->
        Sum(LAMBDA d : Gross(Figures(d)), {d \in closed : DateOf[d] = date})]

-----------------------------------------------------------------------------
(* loadProductSales                                                        *)

IsSold(i) == ~sales[i].parked

LinesOf(product, range) ==
  {i \in Sales : IsSold(i) /\ sales[i].order.product = product /\ sales[i].day \in DaysIn(range)}
ProductSales(range) ==
  LET Row(product) ==
        [product |-> product,
         quantity |-> Sum(LAMBDA i : sales[i].sign, LinesOf(product, range)),
         cups |-> Sum(LAMBDA i : sales[i].sign * sales[i].servings, LinesOf(product, range)),
         revenue |-> Sum(Total, LinesOf(product, range))]
  IN {row \in {Row(o.product) : o \in Order} : row.quantity # 0 \/ row.revenue # 0}

(* averageCents: half a cent is rounded up.                                *)
Truncated(a, b) == IF a < 0 THEN -((-a) \div b) ELSE a \div b
Average(gross, n) ==
  IF n = 0 THEN 0
  ELSE LET quotient == Truncated(gross, n)
           remainder == gross - quotient * n
           doubled == 2 * (IF remainder < 0 THEN -remainder ELSE remainder)
       IN IF doubled < n \/ (doubled = n /\ remainder < 0) THEN quotient
          ELSE quotient + (IF remainder < 0 THEN -1 ELSE IF remainder > 0 THEN 1 ELSE 0)

(* getExpenseReport                                                        *)

IsReported(m) == ~IsAmended(m)

Expenses(range) ==
  {m \in DOMAIN movements : /\ movements[m].kind = "EXPENSE" /\ IsReported(m)
                            /\ movements[m].day \in DaysIn(range)}

-----------------------------------------------------------------------------
(* getOrderHistory: an order's status and payment are derived.             *)

Status(i) == IF HasCorrection(i) THEN "Void" ELSE IF sales[i].parked THEN "Parked" ELSE "Completed"
Payment(i) ==
  IF Paid(i, "cash") # 0 /\ Paid(i, "online") # 0 THEN "Split"
  ELSE IF Paid(i, "cash") # 0 THEN "Cash" ELSE IF Paid(i, "online") # 0 THEN "Online" ELSE "none"

HasStatus(i, status) ==
  CASE status = "Void" -> HasCorrection(i)
    [] status = "Parked" -> ~HasCorrection(i) /\ sales[i].parked
    [] status = "Completed" -> ~HasCorrection(i) /\ ~sales[i].parked

HasPayment(i, payment) ==
  LET hasCash == Paid(i, "cash") # 0
      hasOnline == Paid(i, "online") # 0
  IN CASE payment = "Split" -> hasCash /\ hasOnline
       [] payment = "Cash" -> hasCash /\ ~hasOnline
       [] payment = "Online" -> hasOnline /\ ~hasCash

(* orderHistoryCte: voids are no orders, but each order knows of its own.  *)
OrderHistory == {i \in Sales : IsPurchase(i)}

Matching(q) ==
  {i \in OrderHistory : /\ q.status # "" => HasStatus(i, q.status)
                        /\ q.payment # "" => HasPayment(i, q.payment)}

(* An order as the list, its own page and the staff's ledger of a day show *)
(* it; what is null is {}.  The columns of a tender are 0 until it is      *)
(* completed.                                                              *)
Owed(i) == IF sales[i].parked THEN 0 ELSE sales[i].order.owed

ListItem(i) ==
  [status |-> Status(i), payment |-> Payment(i), total |-> Total(i), tip |-> TipOf(i), owed |-> Owed(i),
   settled |-> IF Status(i) = "Parked" THEN {} ELSE {Owed(i) = 0 \/ sales[i].settled}]

Detail(i) ==
  [status |-> Status(i), payment |-> Payment(i), total |-> Total(i), tip |-> TipOf(i), owed |-> Owed(i),
   portions |-> IF Status(i) = "Parked" THEN {} ELSE {[m \in {"cash", "online"} |-> Paid(i, m)]},
   settled |-> Status(i) # "Parked" /\ sales[i].settled]

LedgerOrder(i) ==
  [status |-> Status(i), payment |-> Payment(i), total |-> Total(i), owed |-> Owed(i),
   portions |-> [m \in {"cash", "online"} |-> IF Paid(i, m) = 0 THEN {} ELSE {Paid(i, m)}],
   settled |-> sales[i].settled]

(* Mutant: the list is not ordered any further than by number.             *)
WithoutId(i) == <<>>

LastKey(i) == <<i>>

SortKey(q, i) ==
  LET turn == IF q.asc THEN 1 ELSE -1
      rank == CASE Status(i) = "Void" -> 3 [] Status(i) = "Parked" -> 1 [] OTHER -> 2
      date == DateOf[sales[i].day]
  IN (CASE q.sort = "orderNumber" -> <<turn * date, turn * sales[i].number>>
        [] q.sort = "status" -> <<turn * rank>>
        [] q.sort = "total" -> <<turn * Total(i)>>
        [] OTHER -> <<turn * date>>) \o <<-date, -sales[i].number>> \o LastKey(i)

Precedes(k, l) == \E n \in DOMAIN k : k[n] < l[n] /\ \A m \in 1 .. n - 1 : k[m] = l[m]
Offset(q) == (q.page - 1) * PageSize
Page(q) ==
  LET list == SetToSortSeq(Matching(q), LAMBDA i, j : Precedes(SortKey(q, i), SortKey(q, j)))
  IN SubSeq(list, Offset(q) + 1, IF Offset(q) + PageSize < Len(list) THEN Offset(q) + PageSize ELSE Len(list))

-----------------------------------------------------------------------------
(* The reports.                                                            *)

Started(op, of) ==
  [op |-> op, of |-> of, model |-> {}, products |-> {}, latest |-> {}, summary |-> {}, count |-> {},
   page |-> {},
   met |-> FALSE]

(* The dashboard is about the last fortnight, all days here.               *)
Ask ==
  /\ report = {}
  /\ \/ \E range \in Span : report' = {Started("range", range)}
     \/ report' = {Started("dashboard", All)}
     \/ \E q \in Query : report' = {Started("list", q)}
  /\ UNCHANGED <<days, sales, movements, writes>>

Got(r) == report' = {r} /\ UNCHANGED <<days, sales, movements, writes>>

(* getReport and getDashboard start their statements together.             *)
ReadDays(r) == r.op # "list" /\ r.model = {} /\ Got([r EXCEPT !.model = {DailyReadModel(r.of)}])
ReadProducts(r) == r.op # "list" /\ r.products = {} /\ Got([r EXCEPT !.products = {ProductSales(r.of)}])

(* loadSummaryDay: the open day, or else the last one.                     *)
ReadSummaryDay(r) ==
  /\ r.op = "dashboard" /\ r.latest = {}
  /\ \E d \in Opened :
       /\ days[d].open \/ \A e \in Opened :
            ~days[e].open /\ (DateOf[e] < DateOf[d] \/ (DateOf[e] = DateOf[d] /\ e <= d))
       /\ Got([r EXCEPT !.latest = {d}])

SummaryOf(d) == d

ReadSummary(r) ==
  /\ r.model # {} /\ r.products # {} /\ r.summary = {}
  /\ \E d \in r.latest : Got([r EXCEPT !.summary = {Figures(SummaryOf(d))}])

(* getOrderHistory counts in one statement and reads in the next.          *)
CountRows(r) == r.op = "list" /\ r.count = {} /\ Got([r EXCEPT !.count = {Cardinality(Matching(r.of))}])
ReadRows(r) == r.count # {} /\ r.page = {} /\ Got([r EXCEPT !.page = {Page(r.of)}])

Answered(r) ==
  /\ (r.op = "range" /\ r.model # {} /\ r.products # {}) \/ r.summary # {} \/ r.page # {}
  /\ report' = {} /\ UNCHANGED <<days, sales, movements, writes>>

-----------------------------------------------------------------------------
(* What is written meanwhile.                                              *)

Wrote == writes < MaxWrites /\ writes' = writes + 1 /\ report' = {[r EXCEPT !.met = TRUE] : r \in report}
OpenDay == {d \in Opened : days[d].open}
NumberOn(d) == Cardinality({i \in Sales : sales[i].day = d}) + 1
Sell(d, o, of, parked) ==
  /\ Wrote /\ UNCHANGED <<days, movements>>
  /\ sales' = Append(sales, [of |-> of, day |-> d, number |-> NumberOn(d), parked |-> parked, order |-> o,
                             sign |-> IF of = 0 THEN 1 ELSE -1, servings |-> IF of = 0 THEN o.servings ELSE 1,
                             settled |-> FALSE])

OpenNext ==
  /\ OpenDay = {} /\ Cardinality(Opened) + 1 \in Day /\ Wrote
  /\ days' = [d \in Opened \cup {Cardinality(Opened) + 1} |->
                IF d \in Opened THEN days[d] ELSE [open |-> TRUE, figures |-> {}, expected |-> 0]]
  /\ UNCHANGED <<sales, movements>>

Close(d) ==
  /\ ~(\E i \in Sales : sales[i].day = d /\ sales[i].parked) /\ Wrote
  /\ days' = [days EXCEPT ![d] = [open |-> FALSE, figures |-> {Figures(d)}, expected |-> ExpectedCash(d)]]
  /\ UNCHANGED <<sales, movements>>

Purchase(d) == \E o \in Order, parked \in BOOLEAN : Sell(d, o, 0, parked)

(* OrdersService.void copies a line without its packagingServingsSnapshot, *)
(* for which the column's default is 1.                                    *)
VoidOrder(d) ==
  \E i \in Sales : IsPurchase(i) /\ ~sales[i].parked /\ ~HasCorrection(i) /\ Sell(d, sales[i].order, i, FALSE)

Settle ==
  \E i \in Sales :
    /\ IsPurchase(i) /\ ~sales[i].parked /\ sales[i].order.owed > 0 /\ ~sales[i].settled /\ Wrote
    /\ sales' = [sales EXCEPT ![i].settled = TRUE] /\ UNCHANGED <<days, movements>>

Record(d) ==
  /\ Len(movements) < 2 /\ Wrote /\ UNCHANGED <<days, sales>>
  /\ \E kind \in {"IN", "EXPENSE"}, amends \in {0} \cup DOMAIN movements :
       /\ amends # 0 => movements[amends].day = d /\ movements[amends].kind = kind /\ ~IsAmended(amends)
       /\ movements' = Append(movements, [day |-> d, kind |-> kind, amount |-> Len(movements) + 1,
                                          amends |-> amends])

Init ==
  /\ days = [d \in {1} |-> [open |-> TRUE, figures |-> {}, expected |-> 0]] /\ sales = <<>> /\ movements = <<>>
  /\ report = {} /\ writes = 0

Next ==
  \/ Ask
  \/ \E r \in report :
       \/ ReadDays(r) \/ ReadProducts(r) \/ ReadSummaryDay(r) \/ ReadSummary(r)
       \/ CountRows(r) \/ ReadRows(r) \/ Answered(r)
  \/ OpenNext \/ Settle
  \/ \E d \in OpenDay : Close(d) \/ Purchase(d) \/ VoidOrder(d) \/ Record(d)
Spec == Init /\ [][Next]_vars

-----------------------------------------------------------------------------

(* What a report says of a closed day's sales, tips, orders and movements  *)
(* is what they were at its close: voids and amendments made later count   *)
(* on the day they are made.  Its change that is owed, and with it the     *)
(* cash expected, may be less: settling it later lowers both.              *)
ClosedDaysStand ==
  /\ \A d \in Opened : ~days[d].open => days[d].figures = {Figures(d)} /\ ExpectedCash(d) <= days[d].expected
  /\ \A date \in DOMAIN ClosedDailyGross(All) :
       ClosedDailyGross(All)[date] =
         Sum(LAMBDA d : Gross(CHOOSE f \in days[d].figures : TRUE),
             {d \in Opened : ~days[d].open /\ DateOf[d] = date})

(* Over all days a voided order leaves no sales, whenever it was voided.   *)
VoidsNetOut ==
  GrossOf(DailyReadModel(All)) =
    Sum(Total, {i \in Sales : IsPurchase(i) /\ ~sales[i].parked /\ ~HasCorrection(i)})

(* The expense report and the daily figures agree on every range.          *)
ExpensesAgree ==
  \A range \in Span :
    Sum(LAMBDA m : movements[m].amount, Expenses(range)) =
      Sum(LAMBDA d : Figures(d).moved["EXPENSE"], DaysIn(range))

(* Every order is listed under one status, the one it is shown with, and   *)
(* under one payment at most.                                              *)
FiltersPartition ==
  \A i \in OrderHistory :
    /\ {s \in {"Void", "Parked", "Completed"} : HasStatus(i, s)} = {Status(i)}
    /\ {p \in {"Split", "Cash", "Online"} : HasPayment(i, p)} = {Payment(i)} \ {"none"}

(* What is shown of the orders adds up to the figures of their day: the    *)
(* ledger's portions, less those of the orders voided on that day, are     *)
(* what was taken, and what the list shows as not handed over is what is   *)
(* outstanding.                                                            *)
ViewsAddUp ==
  \A d \in Opened :
    LET orders == OrderHistory \cap SalesOn(d)
        voided == {sales[j].of : j \in SalesOn(d) \ orders}
    IN  /\ \A m \in {"cash", "online"} :
             Figures(d)[m] = Sum(LAMBDA i : Sum(LAMBDA v : v, LedgerOrder(i).portions[m]), orders)
                             - Sum(LAMBDA i : Sum(LAMBDA p : p[m], Detail(i).portions), voided)
        /\ Outstanding(d) = Sum(LAMBDA i : ListItem(i).owed, {i \in orders : ListItem(i).settled = {FALSE}})
        /\ \A i \in orders : LedgerOrder(i).settled = Detail(i).settled

(* No two orders tie, so that the pages of a list hold each order once.    *)
PagesHoldEachOnce ==
  \A q \in Query : \A i, j \in Matching(q) :
    i # j => Precedes(SortKey(q, i), SortKey(q, j)) \/ Precedes(SortKey(q, j), SortKey(q, i))

(* An average is the exact one, rounded half up.                           *)
AverageIsRounded == \A gross \in -6 .. 6, n \in 1 .. 4 : Average(gross, n) = (2 * gross + n) \div (2 * n)

(* A report that no write met agrees with itself: its days and products on *)
(* the sales, its summary with its day, its page with its count.           *)
ReportsAgree ==
  \A r \in {s \in report : ~s.met} :
    /\ \A model \in r.model : \A products \in r.products :
         GrossOf(model) = Sum(LAMBDA row : row.revenue, products)
    /\ \A model \in r.model : \A d \in r.latest \cap DOMAIN model : r.summary \subseteq {model[d]}
    /\ \A n \in r.count : \A page \in r.page :
         Len(page) = IF n <= Offset(r.of) THEN 0 ELSE Min({PageSize, n - Offset(r.of)})

ReportingInv ==
  /\ ClosedDaysStand /\ VoidsNetOut /\ ExpensesAgree /\ FiltersPartition /\ PagesHoldEachOnce
  /\ AverageIsRounded /\ ReportsAgree /\ ViewsAddUp

(* ADR 0019 says a void has "negated cents, lines and payments"; then the  *)
(* cups of a product that was voided as often as sold would be none.       *)
VoidedCupsNetOut ==
  Sum(LAMBDA row : row.cups, ProductSales(All)) =
    Sum(LAMBDA i : sales[i].order.servings,
        {i \in Sales : IsPurchase(i) /\ ~sales[i].parked /\ ~HasCorrection(i)})
==============================================================================
