----------------------------- MODULE OrderLines -----------------------------
(***************************************************************************)
(* The lines of one order, from its creation to its completion or discard: *)
(* what each operation of apps/api/src/orders/orders.service.ts does to    *)
(* the amounts of a line and to the totals of the order, while the owner   *)
(* reprices the catalog.  The operations lock the order, so each is one    *)
(* step here; OrderCapture has their races and the days.                   *)
(*                                                                         *)
(* All amounts are integer cents, below the safe integers of JavaScript;   *)
(* what a column holds is smaller, and is MaxCents here.  The shared       *)
(* package (packages/shared/src/money.ts) computes the amounts again.      *)
(***************************************************************************)
EXTENDS Integers, FiniteSets, FiniteSetsExt, TLAPS

CONSTANTS
  MaxCents, \* the largest amount a column holds
  LineId,   \* the uuids of lines, in the order in which they sort
  Variant,  \* product sizes
  Entries,  \* what the catalog may say of each size
  MaxQty,   \* bound on the quantities of a request and of a line
  Cash,     \* cash portions, beside the whole total
  Extra     \* cash beyond the portion; change withheld

-----------------------------------------------------------------------------
(* The money of one line and of one tender.                                *)

DiscountKind == {"NONE", "PWD", "SENIOR"}

STATUTORY_DISCOUNT_PERCENT == 20
FREE_UPSIZE_UNIT_CENTS == 3000

(* What a line is charged for: its price and eligibility are snapshots of  *)
(* the catalog.  note says that it has a preference or a note.             *)
Choice == [price : Nat, eligible : BOOLEAN, qty : Nat, kind : DiscountKind,
           note : BOOLEAN, upsizes : Nat]

Gross(c) == c.price * c.qty
Upsize(c) == c.upsizes * FREE_UPSIZE_UNIT_CENTS

(* Half a cent rounds up.                                                  *)
Statutory(base) == (base * STATUTORY_DISCOUNT_PERCENT + 50) \div 100

Discount(c) == IF c.kind = "NONE" THEN 0 ELSE Statutory(Gross(c) - Upsize(c))

Amounts(c) == [gross |-> Gross(c), upsize |-> Upsize(c), discount |-> Discount(c),
               total |-> Gross(c) - Upsize(c) - Discount(c)]

(* Mutant: the value of the upsizes is not held against the gross.         *)
AcceptableAnyUpsize(c) ==
  /\ c.qty >= 1
  /\ c.upsizes <= c.qty
  /\ c.upsizes > 0 => c.eligible
  /\ Gross(c) <= MaxCents

(* What calculateLineAmounts accepts, and what the columns hold.           *)
Acceptable(c) ==
  /\ c.qty >= 1
  /\ c.upsizes <= c.qty
  /\ c.upsizes > 0 => c.eligible
  /\ Upsize(c) <= Gross(c)
  /\ Gross(c) <= MaxCents

(* isPlainMergeableLine                                                    *)
Plain(c) == c.kind = "NONE" /\ ~c.note /\ c.upsizes = 0

-----------------------------------------------------------------------------
(* The same discount in the shared package: by quotient and remainder, of  *)
(* the gross, and for seniors only.                                        *)

FifthRoundedHalfUp(gross) == gross \div 5 + (IF gross % 5 >= 3 THEN 1 ELSE 0)
SharedDiscount(c) == IF c.kind = "SENIOR" THEN FifthRoundedHalfUp(Gross(c)) ELSE 0

-----------------------------------------------------------------------------
(* A tender: portions paid in cash and online, the cash received (NoCash   *)
(* when the request does not say) and the part of the change withheld.     *)

NoCash == -1
Tender == [cash : Nat, online : Nat, received : Nat \cup {NoCash}, owed : Nat]

Received(t) == IF t.received = NoCash THEN t.cash ELSE t.received

(* validateTender                                                          *)
ValidTender(t, total) ==
  /\ t.cash + t.online = total
  /\ t.cash = 0 => t.received = NoCash /\ t.owed = 0
  /\ t.cash > 0 => Received(t) >= t.cash /\ t.owed <= Received(t) - t.cash

-----------------------------------------------------------------------------
(* The sheet an order is charged from (ChargeSheet of the web client's     *)
(* OrderSettlementDialogs.tsx): a field is left blank, says an amount, or  *)
(* neither.  The tip is left out, here as in a tender.                     *)

Typed == [text : {"blank", "amount", "invalid"}, cents : Int]
Blank == [text |-> "blank", cents |-> 0]
Typing(n) == [text |-> "amount", cents |-> n]
CentsOr(field, otherwise) == IF field.text = "amount" THEN field.cents ELSE otherwise

(* owed holds what is typed for the change owed, if it is to be recorded,  *)
(* which an order paid online does not offer.                              *)
Sheet == [method : {"cash", "online", "split"}, received : Typed, cash : Typed, online : Typed,
          owed : {{}} \cup {{t} : t \in Typed}]
Offered(s) == s.method = "online" => s.owed = {}

CashPayment(s, total) ==
  CASE s.method = "cash" -> total [] s.method = "split" -> CentsOr(s.cash, 0) [] OTHER -> 0
OnlinePayment(s, total) ==
  CASE s.method = "online" -> total [] s.method = "split" -> CentsOr(s.online, 0) [] OTHER -> 0
ChangeDue(s, total) ==
  LET due == CentsOr(s.received, CashPayment(s, total)) - CashPayment(s, total) IN IF due < 0 THEN 0 ELSE due

(* What submit lets through.                                               *)
Submits(s, total) ==
  /\ s.method = "split" =>
       /\ s.cash.text # "invalid" /\ s.online.text # "invalid"
       /\ CashPayment(s, total) >= 0 /\ OnlinePayment(s, total) >= 0
       /\ CashPayment(s, total) + OnlinePayment(s, total) = total
  /\ \A t \in s.owed : t.text # "invalid" /\ CentsOr(t, 0) \in 0 .. ChangeDue(s, total)
  /\ s.method = "online" \/ s.received.text # "invalid"

(* What it sends.                                                          *)
TenderOf(s, total) ==
  [cash |-> CashPayment(s, total), online |-> OnlinePayment(s, total),
   received |-> IF s.method = "online" THEN NoCash ELSE CentsOr(s.received, NoCash),
   owed |-> IF s.owed = {} THEN 0 ELSE CentsOr(CHOOSE t \in s.owed : TRUE, 0)]

(* The cash received covers a cash portion that there is.                  *)
Covers(s, total) ==
  s.method # "online" /\ s.received.text = "amount" =>
    CashPayment(s, total) > 0 /\ s.received.cents >= CashPayment(s, total)

-----------------------------------------------------------------------------
(* The lines of an order.                                                  *)

VARIABLES
  catalog,  \* what the catalog says of each size
  order,    \* the sales row: its status, totals and tender
  line      \* the sale_lines of the order

vars == <<catalog, order, line>>

LineRow == [variant : Variant, choice : Choice,
            amounts : [gross : Nat, upsize : Nat, discount : Nat, total : Int]]
NoLine == [variant |-> "none"]
Totals == [gross : Nat, upsize : Nat, discount : Nat, total : Int]
NoTotals == [gross |-> 0, upsize |-> 0, discount |-> 0, total |-> 0]
NoTender == [cash |-> 0, online |-> 0, received |-> NoCash, owed |-> 0]
Absent == [status |-> "absent", totals |-> NoTotals, tender |-> NoTender]

Parked == order.status = "PARKED"
Present(lines) == {i \in LineId : lines[i] # NoLine}

-----------------------------------------------------------------------------
(* recalculateOrder                                                        *)

SumOf(lines, f) == MapThenSumSet(LAMBDA i : lines[i].amounts[f], Present(lines))

TotalsOf(lines) ==
  LET gross == SumOf(lines, "gross")
      upsize == SumOf(lines, "upsize")
      discount == SumOf(lines, "discount")
  IN  [gross |-> gross, upsize |-> upsize, discount |-> discount,
       total |-> gross - upsize - discount]

(* An INSERT or UPDATE of an amount that its column cannot hold fails and  *)
(* takes the transaction with it.                                          *)
Recalculate(lines) ==
  /\ TotalsOf(lines).gross <= MaxCents
  /\ order' = [order EXCEPT !.status = "PARKED", !.totals = TotalsOf(lines)]

(* mutateParked, mutateParkedWithDiscard: the mutation, then the totals,   *)
(* or the discard of an order without lines.                               *)
WriteLines(lines) ==
  /\ line' = lines
  /\ IF Present(lines) = {} THEN order' = Absent ELSE Recalculate(lines)
  /\ UNCHANGED catalog

Put(i, v, c) ==
  /\ Acceptable(c)
  /\ WriteLines([line EXCEPT ![i] = [variant |-> v, choice |-> c, amounts |-> Amounts(c)]])

-----------------------------------------------------------------------------
(* The requests.                                                           *)

(* lineCreateData: what a request asks for, at the catalog's price.        *)
Incoming(v) ==
  [price : {catalog[v].price}, eligible : {catalog[v].eligible}, qty : 1 .. MaxQty,
   kind : DiscountKind, note : BOOLEAN, upsizes : 0 .. MaxQty]

(* Lines a plain line may be merged into.                                  *)
Mergeable(v) == {i \in Present(line) : line[i].variant = v /\ Plain(line[i].choice)}

(* Mutant: a merge takes the catalog's price.                              *)
MergedRepriced(i, c) == [line[i].choice EXCEPT !.qty = @ + c.qty, !.price = c.price]

Merged(i, c) == [line[i].choice EXCEPT !.qty = @ + c.qty]

Create(v, i) ==
  /\ order = Absent
  /\ catalog[v].sellable
  /\ \E c \in Incoming(v) : Put(i, v, c)

AddLine(v, i) ==
  /\ Parked
  /\ catalog[v].sellable
  /\ \E c \in Incoming(v) :
       \/ /\ Plain(c) /\ i \in Mergeable(v)
          /\ \A j \in Mergeable(v) : i <= j
          /\ Merged(i, c).qty <= MaxQty \* the bound of the model
          /\ Put(i, v, Merged(i, c))
       \/ /\ ~(Plain(c) /\ Mergeable(v) # {})
          /\ line[i] = NoLine
          /\ Put(i, v, c)

(* A PATCH: what it does not mention stays as it is.                       *)
Patched(c, qty, kind, note, n) ==
  [c EXCEPT !.qty = qty, !.kind = kind, !.note = note, !.upsizes = n]

UpdateLine(i) ==
  /\ Parked
  /\ line[i] # NoLine
  /\ \E qty \in 1 .. MaxQty, kind \in DiscountKind, note \in BOOLEAN, n \in 0 .. MaxQty :
       Put(i, line[i].variant, Patched(line[i].choice, qty, kind, note, n))

IncrementLine(i) ==
  /\ Parked
  /\ line[i] # NoLine
  /\ line[i].choice.qty < MaxQty \* the bound of the model
  /\ Put(i, line[i].variant, [line[i].choice EXCEPT !.qty = @ + 1])

RemoveLine(i) ==
  /\ Parked
  /\ line[i] # NoLine
  /\ WriteLines([line EXCEPT ![i] = NoLine])

DecrementLine(i) ==
  /\ Parked
  /\ line[i] # NoLine
  /\ \/ /\ line[i].choice.qty = 1
        /\ RemoveLine(i)
     \/ /\ line[i].choice.qty > 1
        /\ Put(i, line[i].variant, [line[i].choice EXCEPT !.qty = @ - 1])

(* complete: an answered retry changes nothing.                            *)
Complete ==
  /\ Parked
  /\ \E cash \in Cash \cup {order.totals.total}, extra \in Extra \cup {NoCash}, owed \in Extra :
       LET t == [cash |-> cash, online |-> order.totals.total - cash, owed |-> owed,
                 received |-> IF extra = NoCash THEN NoCash ELSE cash + extra]
       IN  /\ cash \in Nat /\ t.online \in Nat \* PaymentDto
           /\ ValidTender(t, order.totals.total)
           /\ order' = [order EXCEPT !.status = "COMPLETED", !.tender = t]
  /\ UNCHANGED <<catalog, line>>

(* The owner edits the catalog (external to this module).                  *)
Reprice(v) ==
  /\ \E e \in Entries[v] : catalog' = [catalog EXCEPT ![v] = e]
  /\ UNCHANGED <<order, line>>

(* What is typed into the fields of the charge sheet.                      *)
Fields(total) == {Blank} \cup {Typing(n) : n \in Cash \cup Extra \cup {total}}

-----------------------------------------------------------------------------
Init ==
  /\ catalog \in {f \in [Variant -> UNION {Entries[v] : v \in Variant}] :
                    \A v \in Variant : f[v] \in Entries[v]}
  /\ order = Absent
  /\ line = [i \in LineId |-> NoLine]

Next ==
  \/ \E i \in LineId :
       \/ \E v \in Variant : Create(v, i) \/ AddLine(v, i)
       \/ UpdateLine(i) \/ IncrementLine(i) \/ DecrementLine(i) \/ RemoveLine(i)
  \/ Complete
  \/ \E v \in Variant : Reprice(v)

Spec == Init /\ [][Next]_vars

-----------------------------------------------------------------------------
(* Every line is one that calculateLineAmounts accepts and bears exactly   *)
(* the amounts it computes for it, whichever of the six operations wrote   *)
(* it last (calculateLineAmounts is called by each of them).               *)
AmountsAreCurrent ==
  \A i \in Present(line) :
    /\ Acceptable(line[i].choice)
    /\ line[i].amounts = Amounts(line[i].choice)

(* The amount due of a line is never negative, and its discount is the     *)
(* fifth of what the upsizes leave, to within half a cent.                 *)
ChargesAreFair ==
  \A i \in Present(line) :
    LET a == line[i].amounts
        base == a.gross - a.upsize IN
    /\ a.total \in 0 .. MaxCents
    /\ a.discount # 0 => 5 * a.discount - base \in -2 .. 2

(* The sales row agrees with its lines: a parked or completed order has    *)
(* lines and bears their sums (recalculateOrder).                          *)
TotalsAddUp ==
  /\ order = Absent <=> Present(line) = {}
  /\ order # Absent => order.totals = TotalsOf(line)

(* A completed order was paid to the cent, and the change it withholds is  *)
(* part of the change its customer was due (validateTender).               *)
PaidToTheCent ==
  order.status = "COMPLETED" =>
    /\ order.tender.cash + order.tender.online = order.totals.total
    /\ order.tender.owed <= Received(order.tender) - order.tender.cash

(* A line keeps the price and the eligibility it was rung up with, when    *)
(* the catalog changes and when a later item is merged into it.            *)
SnapshotsAreKept ==
  [][\A i \in LineId : line[i] # NoLine /\ line'[i] # NoLine =>
       /\ line'[i].variant = line[i].variant
       /\ line'[i].choice.price = line[i].choice.price
       /\ line'[i].choice.eligible = line[i].choice.eligible]_vars

(* The shared package's discount of a senior's line without an upsize is   *)
(* the API's, although they round by different arithmetic on different     *)
(* expressions (orders.service.ts:101, money.ts:131).                      *)
SharedDiscountAgrees ==
  \A i \in Present(line) :
    LET c == line[i].choice IN
    c.upsizes = 0 /\ c.kind # "PWD" => SharedDiscount(c) = line[i].amounts.discount

(* What the charge sheet lets through the API accepts, except for cash     *)
(* received that does not cover the cash portion (OrderSettlementDialogs.  *)
(* tsx:188, orders.service.ts:140).                                        *)
SheetsAreAccepted ==
  Parked /\ order.totals.total \in Nat =>
    \A method \in {"cash", "online", "split"}, received, cash \in Fields(order.totals.total),
       owed \in {{}} \cup {{Typing(n)} : n \in Extra} :
      LET s == [method |-> method, received |-> received, cash |-> cash, owed |-> owed,
                online |-> Typing(order.totals.total - CentsOr(cash, 0))]
      IN  Offered(s) /\ Submits(s, order.totals.total) =>
            (ValidTender(TenderOf(s, order.totals.total), order.totals.total) <=> Covers(s, order.totals.total))

(* What is charged for an order is right, from the single line to the      *)
(* tender, whichever operations wrote it (orders.service.ts).              *)
LinesInv ==
  /\ AmountsAreCurrent /\ ChargesAreFair /\ TotalsAddUp /\ PaidToTheCent /\ SharedDiscountAgrees
  /\ SheetsAreAccepted
-----------------------------------------------------------------------------
(* Why the charges are right, for any catalog, sizes and lines.  What the  *)
(* sums of several lines come to is TLC's.                                 *)

Priced == [price : Nat, eligible : BOOLEAN, sellable : BOOLEAN]

(* The inductive invariant: a line holds a choice of the API's type that   *)
(* was acceptable, and its amounts.                                        *)
ChargeInv ==
  /\ catalog = [v \in Variant |-> catalog[v]]
  /\ \A v \in Variant : catalog[v] \in Priced
  /\ line = [i \in LineId |-> line[i]]
  /\ \A i \in Present(line) :
       /\ line[i] = [variant |-> line[i].variant, choice |-> line[i].choice,
                     amounts |-> line[i].amounts]
       /\ line[i].choice \in Choice
  /\ order = [status |-> order.status, totals |-> order.totals, tender |-> order.tender]
  /\ AmountsAreCurrent
  /\ TotalsAddUp

(* A rounded fifth is a fifth to within half a cent, both ways of          *)
(* computing it, and never more than the whole (orders.service.ts:101,     *)
(* money.ts:131).                                                          *)
LEMMA RoundedFifth ==
  ASSUME NEW base \in Nat
  PROVE  /\ Statutory(base) \in 0 .. base
         /\ 5 * Statutory(base) - base \in -2 .. 2
         /\ Statutory(base) = FifthRoundedHalfUp(base)
<1> DEFINE k == base \div 5
           m == base % 5
<1>1. k \in Nat /\ m \in 0 .. 4 /\ base = 5 * k + m
  OBVIOUS
<1> HIDE DEF k, m
<1>2. Statutory(base) = (100 * k + (20 * m + 50)) \div 100
  BY <1>1 DEF Statutory, STATUTORY_DISCOUNT_PERCENT
<1>3. CASE m \in 0 .. 2
  <2>1. Statutory(base) = k
    BY <1>1, <1>2, <1>3
  <2>2. FifthRoundedHalfUp(base) = k
    BY <1>1, <1>3 DEF FifthRoundedHalfUp, k, m
  <2> QED BY <1>1, <1>3, <2>1, <2>2
<1>4. CASE m \in 3 .. 4
  <2>1. Statutory(base) = k + 1
    BY <1>1, <1>2, <1>4
  <2>2. FifthRoundedHalfUp(base) = k + 1
    BY <1>1, <1>4 DEF FifthRoundedHalfUp, k, m
  <2> QED BY <1>1, <1>4, <2>1, <2>2
<1> QED BY <1>1, <1>3, <1>4

(* The amounts of an acceptable choice are fair, and those of the shared   *)
(* package.                                                                *)
LEMMA FairAmounts ==
  ASSUME MaxCents \in Nat, NEW c \in Choice, Acceptable(c)
  PROVE  LET a == Amounts(c)
             base == a.gross - a.upsize IN
         /\ a.total \in 0 .. MaxCents
         /\ a.discount # 0 => 5 * a.discount - base \in -2 .. 2
         /\ c.upsizes = 0 /\ c.kind # "PWD" => SharedDiscount(c) = a.discount
<1> DEFINE g == Gross(c)
           u == Upsize(c)
           base == g - u
<1>1. /\ c.price \in Nat /\ c.qty \in Nat /\ c.upsizes \in Nat
      /\ c.kind \in {"NONE", "PWD", "SENIOR"}
  BY DEF Choice, DiscountKind
<1>2. u = c.upsizes * 3000 /\ u \in Nat
  BY <1>1 DEF Upsize, FREE_UPSIZE_UNIT_CENTS
<1>3. g \in Nat
  BY <1>1 DEF Gross
<1>4. u <= g /\ g <= MaxCents
  BY DEF Acceptable
<1>5. Discount(c) = IF c.kind = "NONE" THEN 0 ELSE Statutory(base)
  BY DEF Discount
<1>6. SharedDiscount(c) = IF c.kind = "SENIOR" THEN FifthRoundedHalfUp(g) ELSE 0
  BY DEF SharedDiscount
<1>7. Amounts(c) = [gross |-> g, upsize |-> u, discount |-> Discount(c),
                    total |-> g - u - Discount(c)]
  BY DEF Amounts
<1> HIDE DEF g, u
<1>8. base \in Nat
  BY <1>2, <1>3, <1>4
<1>9. /\ Statutory(base) \in 0 .. base
      /\ 5 * Statutory(base) - base \in -2 .. 2
      /\ Statutory(base) = FifthRoundedHalfUp(base)
  BY <1>8, RoundedFifth
<1>10. c.upsizes = 0 => base = g
  BY <1>2, <1>3
<1>11. g - u - Discount(c) \in 0 .. MaxCents
  <2>1. CASE c.kind = "NONE"
    BY <1>2, <1>3, <1>4, <1>5, <2>1
  <2>2. CASE c.kind # "NONE"
    <3>1. Discount(c) \in 0 .. base
      BY <1>5, <1>9, <2>2
    <3> QED BY <1>2, <1>3, <1>4, <3>1
  <2> QED BY <2>1, <2>2
<1>12. Discount(c) # 0 => 5 * Discount(c) - base \in -2 .. 2
  BY <1>5, <1>9
<1>13. c.upsizes = 0 /\ c.kind # "PWD" => SharedDiscount(c) = Discount(c)
  BY <1>1, <1>5, <1>6, <1>9, <1>10
<1> QED BY <1>7, <1>11, <1>12, <1>13

(* The charge sheet and validateTender agree on every amount due and every *)
(* filling of the sheet, but for cash received that is short: the sheet    *)
(* does not look at it.                                                    *)
THEOREM SheetAgrees ==
  ASSUME NEW total \in Nat, NEW s \in Sheet, Offered(s), Submits(s, total), s.received.cents \in Nat
  PROVE  /\ TenderOf(s, total) \in Tender
         /\ ValidTender(TenderOf(s, total), total) <=> Covers(s, total)
<1> DEFINE cash == CashPayment(s, total)
           online == OnlinePayment(s, total)
           received == IF s.method = "online" THEN NoCash ELSE CentsOr(s.received, NoCash)
           owed == IF s.owed = {} THEN 0 ELSE CentsOr(CHOOSE t \in s.owed : TRUE, 0)
<1>1. /\ s.method \in {"cash", "online", "split"}
      /\ s.received \in Typed /\ s.cash \in Typed /\ s.online \in Typed
      /\ s.owed = {} \/ \E t \in Typed : s.owed = {t}
  BY DEF Sheet
<1>2. cash \in Nat /\ online \in Nat /\ cash + online = total
  BY <1>1 DEF Submits, CashPayment, OnlinePayment, CentsOr, Typed
<1>3. s.method = "online" => cash = 0
  BY DEF CashPayment
<1>4. ChangeDue(s, total) = LET due == CentsOr(s.received, cash) - cash IN IF due < 0 THEN 0 ELSE due
  BY DEF ChangeDue
<1>5. owed \in 0 .. ChangeDue(s, total) \/ s.owed = {}
  <2>1. CASE s.owed # {}
    <3>1. PICK t \in Typed : s.owed = {t}
      BY <1>1, <2>1
    <3>2. owed = CentsOr(t, 0)
      BY <3>1
    <3> QED BY <3>1, <3>2 DEF Submits
  <2> QED BY <2>1
<1>6. owed = 0 \/ s.method # "online"
  BY DEF Offered
<1>7. TenderOf(s, total) = [cash |-> cash, online |-> online, received |-> received, owed |-> owed]
  BY DEF TenderOf
<1>8. Covers(s, total) <=> (s.method # "online" /\ s.received.text = "amount" => cash > 0 /\ s.received.cents >= cash)
  BY DEF Covers
<1> DEFINE due == IF s.received.text = "amount" THEN s.received.cents - cash ELSE 0
<1>9. /\ s.received.text \in {"blank", "amount", "invalid"}
      /\ received = IF s.method # "online" /\ s.received.text = "amount" THEN s.received.cents ELSE -1
      /\ ChangeDue(s, total) = IF due < 0 THEN 0 ELSE due
  BY <1>1, <1>2, <1>4 DEF CentsOr, NoCash, Typed
<1>10. owed \in Nat /\ (owed = 0 \/ owed <= IF due < 0 THEN 0 ELSE due)
  <2>1. CASE s.owed = {}
    BY <2>1
  <2>2. CASE owed \in 0 .. ChangeDue(s, total)
    <3> HIDE DEF owed
    <3> QED BY <1>2, <1>9, <2>2
  <2> QED BY <1>5, <2>1, <2>2
<1> HIDE DEF cash, online, received, owed
<1>11. TenderOf(s, total) \in Tender
  BY <1>2, <1>7, <1>9, <1>10 DEF Tender, NoCash
<1> DEFINE T == TenderOf(s, total)
<1>12. T.cash = cash /\ T.online = online /\ T.received = received /\ T.owed = owed
  BY <1>7
<1>13. Received(T) = IF received = -1 THEN cash ELSE received
  BY <1>12 DEF Received, NoCash
<1>14. ValidTender(T, total) <=>
         /\ cash = 0 => received = -1 /\ owed = 0
         /\ cash > 0 => (IF received = -1 THEN cash ELSE received) >= cash
                        /\ owed <= (IF received = -1 THEN cash ELSE received) - cash
  BY <1>2, <1>12, <1>13 DEF ValidTender, NoCash
<1> HIDE DEF T
<1>15. ValidTender(T, total) <=> Covers(s, total)
  BY <1>2, <1>3, <1>6, <1>8, <1>9, <1>10, <1>14
<1> QED BY <1>11, <1>15 DEF T

(* The invariant says what the properties promise.                         *)
LEMMA ChargesFollow ==
  ASSUME MaxCents \in Nat, ChargeInv
  PROVE  ChargesAreFair /\ SharedDiscountAgrees
<1> SUFFICES ASSUME NEW i \in Present(line)
             PROVE  LET a == line[i].amounts
                        base == a.gross - a.upsize
                        c == line[i].choice IN
                    /\ a.total \in 0 .. MaxCents
                    /\ a.discount # 0 => 5 * a.discount - base \in -2 .. 2
                    /\ c.upsizes = 0 /\ c.kind # "PWD" => SharedDiscount(c) = a.discount
  BY DEF ChargesAreFair, SharedDiscountAgrees
<1>1. /\ line[i].choice \in Choice /\ Acceptable(line[i].choice)
      /\ line[i].amounts = Amounts(line[i].choice)
  BY DEF ChargeInv, AmountsAreCurrent
<1> QED BY <1>1, FairAmounts

(* The sheets TLC fills in are sheets.                                     *)
LEMMA SheetsFollow ==
  ASSUME Cash \subseteq Nat, Extra \subseteq Nat
  PROVE  SheetsAreAccepted
<1> SUFFICES ASSUME NEW total \in Nat, NEW method \in {"cash", "online", "split"},
                    NEW received \in Fields(total), NEW cash \in Fields(total),
                    NEW owed \in {{}} \cup {{Typing(n)} : n \in Extra}
             PROVE  LET s == [method |-> method, received |-> received, cash |-> cash, owed |-> owed,
                              online |-> Typing(total - CentsOr(cash, 0))]
                    IN  Offered(s) /\ Submits(s, total) =>
                          (ValidTender(TenderOf(s, total), total) <=> Covers(s, total))
  BY DEF SheetsAreAccepted
<1> DEFINE s == [method |-> method, received |-> received, cash |-> cash, owed |-> owed,
                 online |-> Typing(total - CentsOr(cash, 0))]
<1>1. \A f \in Fields(total) : f \in Typed /\ f.cents \in Nat
  BY DEF Fields, Typed, Typing, Blank
<1>2. Typing(total - CentsOr(cash, 0)) \in Typed
  BY <1>1 DEF CentsOr, Typing, Typed
<1>3. owed \in {{}} \cup {{t} : t \in Typed}
  BY DEF Typing, Typed
<1>4. s \in Sheet /\ s.received = received
  BY <1>1, <1>2, <1>3 DEF Sheet
<1> HIDE DEF s
<1>5. Offered(s) /\ Submits(s, total) => (ValidTender(TenderOf(s, total), total) <=> Covers(s, total))
  BY <1>1, <1>4, SheetAgrees
<1> QED BY <1>5 DEF s

(* Whatever is written of the lines, the order is as they are.             *)
LEMMA WrittenTotals ==
  ASSUME ChargeInv, NEW lines, WriteLines(lines)
  PROVE  /\ order' = [status |-> order'.status, totals |-> order'.totals, tender |-> order'.tender]
         /\ TotalsAddUp'
<1>1. line' = lines
  BY DEF WriteLines
<1>2. CASE Present(lines) = {}
  <2>1. order' = Absent
    BY <1>2 DEF WriteLines
  <2>2. Present(line') = {}
    BY <1>1, <1>2
  <2> QED BY <2>1, <2>2 DEF Absent, TotalsAddUp
<1>3. CASE Present(lines) # {}
  <2> DEFINE T == TotalsOf(lines)
  <2>1. order' = [order EXCEPT !.status = "PARKED", !.totals = T]
    BY <1>3 DEF WriteLines, Recalculate
  <2>2. TotalsOf(line') = T /\ Present(line') # {}
    BY <1>1, <1>3
  <2> HIDE DEF T
  <2>3. order' = [status |-> "PARKED", totals |-> T, tender |-> order.tender]
    BY <2>1 DEF ChargeInv
  <2>4. order'.status = "PARKED" /\ order'.totals = T /\ order'.tender = order.tender
    BY <2>3
  <2>5. order' # Absent
    BY <2>4 DEF Absent
  <2> QED BY <2>2, <2>3, <2>4, <2>5 DEF TotalsAddUp
<1> QED BY <1>2, <1>3

(* A line that is put with an acceptable choice keeps the invariant.       *)
LEMMA PutStep ==
  ASSUME ChargeInv, NEW i \in LineId, NEW v, NEW c \in Choice, Put(i, v, c)
  PROVE  /\ ChargeInv'
         /\ \A j \in LineId : j # i => line'[j] = line[j]
         /\ line'[i].variant = v /\ line'[i].choice = c
<1> DEFINE x == [variant |-> v, choice |-> c, amounts |-> Amounts(c)]
<1>1. line' = [line EXCEPT ![i] = x] /\ catalog' = catalog /\ Acceptable(c)
  BY DEF Put, WriteLines
<1>2. /\ x = [variant |-> x.variant, choice |-> x.choice, amounts |-> x.amounts]
      /\ x.variant = v /\ x.choice = c /\ x.amounts = Amounts(c)
  OBVIOUS
<1> HIDE DEF x
<1>3. /\ line' = [j \in LineId |-> line'[j]] /\ line'[i] = x
      /\ \A j \in LineId : j # i => line'[j] = line[j]
  BY <1>1 DEF ChargeInv
<1>4. \A j \in Present(line') : j = i \/ (j \in Present(line) /\ line'[j] = line[j])
  BY <1>3 DEF Present
<1>5. \A j \in Present(line') :
        /\ line'[j] = [variant |-> line'[j].variant, choice |-> line'[j].choice,
                       amounts |-> line'[j].amounts]
        /\ line'[j].choice \in Choice /\ Acceptable(line'[j].choice)
        /\ line'[j].amounts = Amounts(line'[j].choice)
  BY <1>1, <1>2, <1>3, <1>4 DEF ChargeInv, AmountsAreCurrent
<1>6. /\ order' = [status |-> order'.status, totals |-> order'.totals, tender |-> order'.tender]
      /\ TotalsAddUp'
  BY WrittenTotals DEF Put
<1>7. AmountsAreCurrent'
  BY <1>5 DEF AmountsAreCurrent
<1> QED BY <1>1, <1>2, <1>3, <1>5, <1>6, <1>7 DEF ChargeInv

(* The lines a request writes are acceptable choices: a fresh one at the   *)
(* catalog's price, or an edited or merged one at the line's own.          *)
Keeps(j) ==
  /\ line'[j].variant = line[j].variant
  /\ line'[j].choice.price = line[j].choice.price
  /\ line'[j].choice.eligible = line[j].choice.eligible

(* A request's item, and what it may be merged into, are choices.          *)
LEMMA IncomingType ==
  ASSUME MaxQty \in Nat, ChargeInv, NEW v \in Variant, NEW c \in Incoming(v)
  PROVE  c \in Choice
<1>1. catalog[v] \in Priced
  BY DEF ChargeInv
<1>2. 1 .. MaxQty \subseteq Nat /\ 0 .. MaxQty \subseteq Nat
  OBVIOUS
<1>3. /\ c.price \in Nat /\ c.eligible \in BOOLEAN /\ c.qty \in Nat
      /\ c.kind \in DiscountKind /\ c.note \in BOOLEAN /\ c.upsizes \in Nat
      /\ c = [price |-> c.price, eligible |-> c.eligible, qty |-> c.qty,
              kind |-> c.kind, note |-> c.note, upsizes |-> c.upsizes]
  BY <1>1, <1>2 DEF Incoming, Priced
<1> QED BY <1>3 DEF Choice

(* A line that is put over itself keeps its price.                         *)
LEMMA PutOver ==
  ASSUME ChargeInv, NEW i \in LineId, NEW c \in Choice, line[i] # NoLine,
         c.price = line[i].choice.price, c.eligible = line[i].choice.eligible,
         Put(i, line[i].variant, c)
  PROVE  ChargeInv' /\ \A j \in LineId : line[j] # NoLine => Keeps(j)
<1>1. /\ ChargeInv'
      /\ \A j \in LineId : j # i => line'[j] = line[j]
      /\ line'[i].variant = line[i].variant /\ line'[i].choice = c
  BY PutStep
<1> QED BY <1>1 DEF Keeps

(* Removing a line.                                                        *)
LEMMA RemoveStep ==
  ASSUME ChargeInv, NEW i \in LineId, RemoveLine(i)
  PROVE  ChargeInv' /\ \A j \in LineId : line'[j] # NoLine => line'[j] = line[j]
<1>1. line' = [line EXCEPT ![i] = NoLine] /\ catalog' = catalog
  BY DEF RemoveLine, WriteLines
<1>2. /\ line' = [j \in LineId |-> line'[j]] /\ line'[i] = NoLine
      /\ \A j \in LineId : j # i => line'[j] = line[j]
  BY <1>1 DEF ChargeInv
<1>3. \A j \in Present(line') : j \in Present(line) /\ line'[j] = line[j]
  BY <1>2 DEF Present
<1>4. /\ order' = [status |-> order'.status, totals |-> order'.totals, tender |-> order'.tender]
      /\ TotalsAddUp'
  BY WrittenTotals DEF RemoveLine
<1>5. AmountsAreCurrent'
  BY <1>3 DEF ChargeInv, AmountsAreCurrent
<1> QED BY <1>1, <1>2, <1>3, <1>4, <1>5 DEF ChargeInv

(* A PATCH of a choice is a choice, at the price it had.                   *)
LEMMA PatchedChoice ==
  ASSUME NEW r \in Choice, NEW q \in Nat, NEW k \in DiscountKind, NEW b \in BOOLEAN, NEW n \in Nat
  PROVE  /\ Patched(r, q, k, b, n) \in Choice
         /\ Patched(r, q, k, b, n).price = r.price
         /\ Patched(r, q, k, b, n).eligible = r.eligible
<1> DEFINE c1 == [r EXCEPT !.qty = q]
<1> DEFINE c2 == [c1 EXCEPT !.kind = k]
<1> DEFINE c3 == [c2 EXCEPT !.note = b]
<1> DEFINE c4 == [c3 EXCEPT !.upsizes = n]
<1>1. c1 \in Choice /\ c1.price = r.price /\ c1.eligible = r.eligible
  BY DEF Choice
<1> HIDE DEF c1
<1>2. c2 \in Choice /\ c2.price = r.price /\ c2.eligible = r.eligible
  BY <1>1 DEF Choice
<1> HIDE DEF c2
<1>3. c3 \in Choice /\ c3.price = r.price /\ c3.eligible = r.eligible
  BY <1>2 DEF Choice
<1> HIDE DEF c3
<1>4. c4 \in Choice /\ c4.price = r.price /\ c4.eligible = r.eligible
  BY <1>3 DEF Choice
<1>5. c4 = Patched(r, q, k, b, n)
  BY DEF Patched, c1, c2, c3
<1> QED BY <1>4, <1>5

(* Every step keeps the invariant, and the price of a line that stays.     *)
LEMMA ChargeNext ==
  ASSUME MaxQty \in Nat, \A v \in Variant : Entries[v] \subseteq Priced,
         ChargeInv, [Next]_vars
  PROVE  /\ ChargeInv'
         /\ \A j \in LineId : line[j] # NoLine /\ line'[j] # NoLine => Keeps(j)
<1>1. CASE UNCHANGED vars
  BY <1>1 DEF vars, ChargeInv, AmountsAreCurrent, TotalsAddUp, Keeps
<1>2. ASSUME NEW i \in LineId, NEW v \in Variant, Create(v, i) \/ AddLine(v, i)
      PROVE  /\ ChargeInv'
             /\ \A j \in LineId : line[j] # NoLine /\ line'[j] # NoLine => Keeps(j)
  <2>1. CASE line[i] = NoLine /\ \E c \in Incoming(v) : Put(i, v, c)
    <3>1. PICK c \in Incoming(v) : Put(i, v, c)
      BY <2>1
    <3>2. c \in Choice
      BY IncomingType
    <3>3. ChargeInv' /\ \A j \in LineId : j # i => line'[j] = line[j]
      BY <3>1, <3>2, PutStep
    <3> QED BY <2>1, <3>3 DEF Keeps
  <2>2. CASE \E c \in Incoming(v) : i \in Mergeable(v) /\ Put(i, v, Merged(i, c))
    <3>1. PICK c \in Incoming(v) : i \in Mergeable(v) /\ Put(i, v, Merged(i, c))
      BY <2>2
    <3>2. line[i] # NoLine /\ line[i].variant = v /\ line[i].choice \in Choice /\ c \in Choice
      BY <3>1, IncomingType DEF Mergeable, Present, ChargeInv
    <3>3. /\ Merged(i, c) \in Choice
          /\ Merged(i, c).price = line[i].choice.price
          /\ Merged(i, c).eligible = line[i].choice.eligible
      BY <3>2 DEF Merged, Choice
    <3>4. Put(i, line[i].variant, Merged(i, c))
      BY <3>1, <3>2
    <3> QED BY <3>2, <3>3, <3>4, PutOver
  <2>3. CASE Create(v, i)
    <3>1. line[i] = NoLine
      BY <2>3 DEF Create, ChargeInv, TotalsAddUp, Present
    <3>2. \E c \in Incoming(v) : Put(i, v, c)
      BY <2>3 DEF Create
    <3> QED BY <2>1, <3>1, <3>2
  <2>4. CASE AddLine(v, i)
    BY <2>1, <2>2, <2>4 DEF AddLine
  <2> QED BY <1>2, <2>3, <2>4
<1>3. ASSUME NEW i \in LineId, UpdateLine(i) \/ IncrementLine(i) \/ DecrementLine(i), ~RemoveLine(i)
      PROVE  /\ ChargeInv'
             /\ \A j \in LineId : line[j] # NoLine /\ line'[j] # NoLine => Keeps(j)
  <2>1. line[i] # NoLine /\ line[i].choice \in Choice
    BY <1>3 DEF UpdateLine, IncrementLine, DecrementLine, Present, ChargeInv
  <2> DEFINE old == line[i].choice
  <2>2. \E c \in Choice : /\ c.price = old.price /\ c.eligible = old.eligible
                          /\ Put(i, line[i].variant, c)
    <3>1. CASE UpdateLine(i)
      <4>1. PICK qty \in 1 .. MaxQty, kind \in DiscountKind, note \in BOOLEAN, n \in 0 .. MaxQty :
              Put(i, line[i].variant, Patched(old, qty, kind, note, n))
        BY <3>1 DEF UpdateLine
      <4>2. qty \in Nat /\ n \in Nat
        OBVIOUS
      <4> QED BY <2>1, <4>1, <4>2, PatchedChoice
    <3>2. CASE IncrementLine(i)
      <4> DEFINE c == [old EXCEPT !.qty = @ + 1]
      <4>1. c \in Choice /\ c.price = old.price /\ c.eligible = old.eligible
        BY <2>1 DEF Choice
      <4>2. Put(i, line[i].variant, c)
        BY <3>2 DEF IncrementLine
      <4> QED BY <4>1, <4>2
    <3>3. CASE DecrementLine(i)
      <4> DEFINE c == [old EXCEPT !.qty = @ - 1]
      <4>1. old.qty > 1 /\ Put(i, line[i].variant, c)
        BY <1>3, <3>3 DEF DecrementLine
      <4>2. c \in Choice /\ c.price = old.price /\ c.eligible = old.eligible
        BY <2>1, <4>1 DEF Choice
      <4> QED BY <4>1, <4>2
    <3> QED BY <1>3, <3>1, <3>2, <3>3
  <2> QED BY <2>1, <2>2, PutOver
<1>4. ASSUME NEW i \in LineId, RemoveLine(i)
      PROVE  /\ ChargeInv'
             /\ \A j \in LineId : line[j] # NoLine /\ line'[j] # NoLine => Keeps(j)
  BY <1>4, RemoveStep DEF Keeps
<1>5. CASE Complete
  <2>1. PICK t : order' = [order EXCEPT !.status = "COMPLETED", !.tender = t]
    BY <1>5 DEF Complete
  <2>2. order' = [status |-> "COMPLETED", totals |-> order.totals, tender |-> t]
    BY <2>1 DEF ChargeInv
  <2>3. order'.status = "COMPLETED" /\ order'.totals = order.totals /\ order'.tender = t
    BY <2>2
  <2>4. /\ order # Absent
        /\ order' # Absent
        /\ UNCHANGED <<catalog, line>>
    <3>1. order.status = "PARKED" /\ UNCHANGED <<catalog, line>>
      BY <1>5 DEF Complete, Parked
    <3>2. Absent.status = "absent"
      BY DEF Absent
    <3> QED BY <2>3, <3>1, <3>2
  <2>5. TotalsAddUp'
    BY <2>3, <2>4 DEF ChargeInv, TotalsAddUp
  <2>6. ChargeInv'
    BY <2>2, <2>3, <2>4, <2>5 DEF ChargeInv, AmountsAreCurrent
  <2> QED BY <2>4, <2>6 DEF Keeps
<1>6. ASSUME NEW v \in Variant, Reprice(v)
      PROVE  /\ ChargeInv'
             /\ \A j \in LineId : line[j] # NoLine /\ line'[j] # NoLine => Keeps(j)
  <2>1. PICK e \in Entries[v] : catalog' = [catalog EXCEPT ![v] = e]
    BY <1>6 DEF Reprice
  <2>2. e \in Priced /\ UNCHANGED <<order, line>>
    BY <1>6, <2>1 DEF Reprice
  <2>3. /\ catalog' = [w \in Variant |-> catalog'[w]]
        /\ \A w \in Variant : catalog'[w] \in Priced
    BY <2>1, <2>2 DEF ChargeInv
  <2> QED BY <2>2, <2>3 DEF ChargeInv, AmountsAreCurrent, TotalsAddUp, Keeps
<1> QED BY <1>1, <1>2, <1>3, <1>4, <1>5, <1>6 DEF Next

(* The inductive invariant of the charges.                                 *)
LEMMA ChargeInvariant ==
  ASSUME MaxQty \in Nat, \A v \in Variant : Entries[v] \subseteq Priced
  PROVE  Spec => []ChargeInv
<1>1. Init => ChargeInv
  <2> SUFFICES ASSUME Init PROVE ChargeInv
    OBVIOUS
  <2>1. /\ catalog = [v \in Variant |-> catalog[v]]
        /\ \A v \in Variant : catalog[v] \in Priced
    BY DEF Init
  <2>2. Present(line) = {} /\ line = [i \in LineId |-> line[i]]
    BY DEF Init, Present
  <2>3. order = Absent
    BY DEF Init
  <2> QED BY <2>1, <2>2, <2>3 DEF ChargeInv, AmountsAreCurrent, TotalsAddUp, Absent
<1>2. ChargeInv /\ [Next]_vars => ChargeInv'
  BY ChargeNext
<1> QED BY <1>1, <1>2, PTL DEF Spec

(* What a request writes of the lines leaves no completed order behind.    *)
LEMMA WrittenIsUnpaid ==
  ASSUME ChargeInv, NEW lines, WriteLines(lines)
  PROVE  order'.status # "COMPLETED"
<1>1. CASE order' = Absent
  BY <1>1 DEF Absent
<1>2. CASE order' = [order EXCEPT !.status = "PARKED", !.totals = TotalsOf(lines)]
  <2> DEFINE T == TotalsOf(lines)
  <2>1. order' = [order EXCEPT !.status = "PARKED", !.totals = T]
    BY <1>2
  <2> HIDE DEF T
  <2>2. order' = [status |-> "PARKED", totals |-> T, tender |-> order.tender]
    BY <2>1 DEF ChargeInv
  <2> QED BY <2>2
<1> QED BY <1>1, <1>2 DEF WriteLines, Recalculate

(* An order that becomes completed was paid.                               *)
LEMMA PaidNext ==
  ASSUME ChargeInv, PaidToTheCent, [Next]_vars
  PROVE  PaidToTheCent'
<1>1. CASE UNCHANGED order
  BY <1>1 DEF PaidToTheCent
<1>2. CASE \E lines : WriteLines(lines)
  <2>1. PICK lines : WriteLines(lines)
    BY <1>2
  <2>2. order'.status # "COMPLETED"
    BY <2>1, WrittenIsUnpaid
  <2> QED BY <2>2 DEF PaidToTheCent
<1>3. CASE Complete
  <2>1. PICK t : /\ t.cash \in Nat /\ ValidTender(t, order.totals.total)
                 /\ order' = [order EXCEPT !.status = "COMPLETED", !.tender = t]
    <3>1. PICK cash \in Cash \cup {order.totals.total}, extra \in Extra \cup {NoCash}, owed \in Extra :
            LET t == [cash |-> cash, online |-> order.totals.total - cash, owed |-> owed,
                      received |-> IF extra = NoCash THEN NoCash ELSE cash + extra]
            IN  /\ cash \in Nat
                /\ ValidTender(t, order.totals.total)
                /\ order' = [order EXCEPT !.status = "COMPLETED", !.tender = t]
      BY <1>3 DEF Complete
    <3> QED BY <3>1
  <2>2. order' = [status |-> "COMPLETED", totals |-> order.totals, tender |-> t]
    BY <2>1 DEF ChargeInv
  <2>3. order'.totals = order.totals /\ order'.tender = t
    BY <2>2
  <2>4. t.cash + t.online = order.totals.total
    BY <2>1 DEF ValidTender
  <2>5. t.owed <= Received(t) - t.cash
    <3>1. CASE t.cash = 0
      <4>1. t.received = NoCash /\ t.owed = 0
        BY <2>1, <3>1 DEF ValidTender
      <4> QED BY <3>1, <4>1 DEF Received
    <3>2. CASE t.cash > 0
      BY <2>1, <3>2 DEF ValidTender
    <3> QED BY <2>1, <3>1, <3>2
  <2> QED BY <2>3, <2>4, <2>5 DEF PaidToTheCent
<1>4. [Next]_vars => UNCHANGED order \/ (\E lines : WriteLines(lines)) \/ Complete
  BY DEF Next, vars, Create, AddLine, UpdateLine, IncrementLine, DecrementLine, RemoveLine,
         Put, Reprice
<1> QED BY <1>1, <1>2, <1>3, <1>4

(* For any catalog and any mix of lines: a line bears the amounts computed *)
(* for it by whichever request wrote it last, nothing is charged below     *)
(* zero, a discount is a fifth to within half a cent and the same in the   *)
(* shared package, the order bears the sums of its lines, a completed      *)
(* order was paid to the cent, and the charge sheet and the API agree.     *)
THEOREM ChargesAreRight ==
  ASSUME MaxCents \in Nat, MaxQty \in Nat, \A v \in Variant : Entries[v] \subseteq Priced,
         Cash \subseteq Nat, Extra \subseteq Nat
  PROVE  Spec => []LinesInv
<1>1. Init => PaidToTheCent
  BY DEF Init, Absent, PaidToTheCent
<1>2. ChargeInv /\ PaidToTheCent /\ [Next]_vars => PaidToTheCent'
  BY PaidNext
<1>3. ChargeInv /\ PaidToTheCent => LinesInv
  BY ChargesFollow, SheetsFollow DEF ChargeInv, LinesInv
<1> QED BY <1>1, <1>2, <1>3, ChargeInvariant, PTL DEF Spec

(* A line keeps the price and the eligibility it was rung up with, through *)
(* every repricing, merge and edit.                                        *)
THEOREM SnapshotsStay ==
  ASSUME MaxQty \in Nat, \A v \in Variant : Entries[v] \subseteq Priced
  PROVE  Spec => SnapshotsAreKept
<1>1. ChargeInv /\ [Next]_vars =>
        [\A j \in LineId : line[j] # NoLine /\ line'[j] # NoLine => Keeps(j)]_vars
  BY ChargeNext
<1>2. ChargeInv /\ [Next]_vars =>
        [\A i \in LineId : line[i] # NoLine /\ line'[i] # NoLine =>
           /\ line'[i].variant = line[i].variant
           /\ line'[i].choice.price = line[i].choice.price
           /\ line'[i].choice.eligible = line[i].choice.eligible]_vars
  BY <1>1 DEF Keeps
<1> QED BY <1>2, ChargeInvariant, PTL DEF Spec, SnapshotsAreKept
=============================================================================
