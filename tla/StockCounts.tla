---------------------------- MODULE StockCounts -----------------------------
(***************************************************************************)
(* Stock counts, their corrections and stock movements of one packaging    *)
(* item, against the close of the business day that reconciles them        *)
(* (apps/api/src/inventory, apps/api/src/trading-day).  A count or a       *)
(* movement reads the open day first and never looks at it again; a close  *)
(* locks the day and reads counts, movements and sales in one statement    *)
(* each.                                                                   *)
(*                                                                         *)
(* Counts are numbered as they are recorded.  A count may leave the item   *)
(* out: a quantity that may be missing is a set of at most one number.     *)
(***************************************************************************)
EXTENDS RestockBands, FiniteSetTheorems, TLAPS

CONSTANTS
  Request,  \* HTTP requests
  Count,    \* numbers of stock_counts rows: 1 .. n
  Day,      \* business days: 1 .. m
  Quantity, \* quantities that are counted, moved or sold
  MaxMoved, \* bound on what a day's movements and sales add up to
  Calls     \* the calls each request may be

Phase == {"open", "close"}
Op == {"count", "deliver", "waste", "close"}
(* corrects names no count when it is 0.                                   *)
Call == [op : Op, phase : Phase, corrects : Count \cup {0}]

VARIABLES
  status,   \* of each trading day: "future", "OPEN" or "CLOSED"
  count,    \* stock_counts
  moved,    \* of each day: what was delivered, wasted and sold
  closing,  \* the packaging line of each day's closing
  dayLock,  \* is the day's row locked by a close
  pc, arg,  \* where each request is, and what it asks for
  seen      \* the day it found, and what a close has read

db == <<status, count, moved, closing>>
vars == <<status, count, moved, closing, dayLock, pc, arg, seen>>

Row == [day : Day, phase : Phase, corrects : Count \cup {0}, qty : Nullable(Nat)]
NoRow == [day |-> 0]
NoMove == [delivered |-> 0, wasted |-> 0, sold |-> 0]
NoClosing == [expected |-> {}, actual |-> {}, variance |-> {}]
Label == {"idle", "check", "insert", "lock", "movements", "sales", "commit", "done"}
NoArg == [op |-> "close", phase |-> "open", corrects |-> 0]
Nothing == [day |-> 1, opening |-> {}, closing |-> {}, moved |-> NoMove]

Recorded == {c \in Count : count[c] # NoRow}
Next1 == {c \in Count : count[c] = NoRow /\ \A e \in Count : e < c => count[e] # NoRow}
CorrectionsOf(c) == {e \in Recorded : count[e].corrects = c}

-----------------------------------------------------------------------------
(* latestStockCountCorrection: of the counts of the phase that no count    *)
(* corrects, the one recorded last.                                        *)

InPhase(d, p) == {c \in Recorded : count[c].day = d /\ count[c].phase = p}
(* Mutant: counts that correct nothing.                                    *)
Originals(d, p) == {c \in InPhase(d, p) : count[c].corrects = 0}

Leaves(d, p) == {c \in InPhase(d, p) : CorrectionsOf(c) \cap InPhase(d, p) = {}}
Last(S) == {c \in S : \A e \in S : e <= c}

InForce(d, p) == Last(Leaves(d, p))
QuantityInForce(d, p) == UNION {count[c].qty : c \in InForce(d, p)}

(* getForTradingDay: what the reconciliation makes of what was read.       *)
Line(opening, actual, m) ==
  LET expected == {q + m.delivered - m.wasted - m.sold : q \in opening} IN
  [expected |-> expected, actual |-> actual,
   variance |-> {a - e : a \in actual, e \in expected}]

(* restock's getStatusForDay: the closing count if there is one.           *)
RestockCount(d) == IF InForce(d, "close") # {} THEN InForce(d, "close") ELSE InForce(d, "open")

(* sheet: the submitted count is the last one recorded.                    *)
OnSheet(d, p) == Last(InPhase(d, p))

-----------------------------------------------------------------------------
(* The life of a request.                                                  *)

At(r, l, ops) == pc[r] = l /\ arg[r].op \in ops
Goto(r, l) == pc' = [pc EXCEPT ![r] = l]

Finish(r) ==
  /\ Goto(r, "done")
  /\ dayLock' = (dayLock /\ ~(arg[r].op = "close" /\ pc[r] \in {"movements", "sales", "commit"}))
  /\ arg' = [arg EXCEPT ![r] = NoArg]
  /\ seen' = [seen EXCEPT ![r] = Nothing]

Answer(r) == Finish(r) /\ UNCHANGED db

(* requireOpenDay: outside the transaction, and no lock is taken.          *)
Start(r) ==
  /\ pc[r] = "idle"
  /\ \E call \in Calls[r], d \in Day :
       /\ status[d] = "OPEN"
       /\ arg' = [arg EXCEPT ![r] = call]
       /\ seen' = [seen EXCEPT ![r].day = d]
       /\ Goto(r, CASE call.op = "count" -> "check" [] call.op = "close" -> "lock" [] OTHER -> "insert")
  /\ UNCHANGED <<db, dayLock>>

(* A rejection on data outside this module (a member or an item that is    *)
(* not active, a value that does not fit the count method), a timeout.     *)
Abort(r) ==
  /\ pc[r] \notin {"idle", "done"}
  /\ Answer(r)

MayCorrect(r, c) ==
  /\ c \in InPhase(seen[r].day, arg[r].phase)
  /\ CorrectionsOf(c) = {}

(* submit's checks, before its INSERT.                                     *)
SubmitCheck(r) ==
  /\ At(r, "check", {"count"})
  /\ \/ /\ arg[r].corrects = 0 \/ MayCorrect(r, arg[r].corrects)
        /\ Goto(r, "insert")
        /\ UNCHANGED <<db, dayLock, arg, seen>>
     \/ /\ arg[r].corrects # 0 /\ ~MayCorrect(r, arg[r].corrects)
        /\ Answer(r)

(* The unique index on corrects_stock_count_id.                            *)
FreeInIndex(c) == c = 0 \/ CorrectionsOf(c) = {}

SubmitInsert(r) ==
  /\ At(r, "insert", {"count"})
  /\ \/ /\ FreeInIndex(arg[r].corrects)
        /\ \E c \in Next1, qty \in {{}} \cup {{q} : q \in Quantity} :
             count' = [count EXCEPT ![c] = [day |-> seen[r].day, phase |-> arg[r].phase,
                                            corrects |-> arg[r].corrects, qty |-> qty]]
        /\ Finish(r)
        /\ UNCHANGED <<status, moved, closing>>
     \/ /\ ~FreeInIndex(arg[r].corrects)
        /\ Answer(r) \* rethrowCorrectionConflict

MovementInsert(r) ==
  /\ At(r, "insert", {"deliver", "waste"})
  /\ \E q \in Quantity :
       LET m == moved[seen[r].day] IN
       moved' = [moved EXCEPT ![seen[r].day] =
         IF arg[r].op = "deliver" THEN [m EXCEPT !.delivered = @ + q]
                                  ELSE [m EXCEPT !.wasted = @ + q]]
  /\ Finish(r)
  /\ UNCHANGED <<status, count, closing>>

-----------------------------------------------------------------------------
(* close, as far as packaging goes.                                        *)

CloseLock(r) ==
  /\ At(r, "lock", {"close"})
  /\ ~dayLock
  /\ \/ /\ status[seen[r].day] = "OPEN"
        /\ dayLock' = TRUE
        /\ seen' = [seen EXCEPT ![r].opening = QuantityInForce(seen[r].day, "open"),
                                ![r].closing = QuantityInForce(seen[r].day, "close")]
        /\ Goto(r, "movements")
        /\ UNCHANGED <<db, arg>>
     \/ /\ status[seen[r].day] # "OPEN"
        /\ Answer(r)

CloseReadMovements(r) ==
  /\ At(r, "movements", {"close"})
  /\ seen' = [seen EXCEPT ![r].moved = moved[seen[r].day]]
  /\ Goto(r, "sales")
  /\ UNCHANGED <<db, dayLock, arg>>

CloseReadSales(r) ==
  /\ At(r, "sales", {"close"})
  /\ seen' = [seen EXCEPT ![r].moved.sold = moved[seen[r].day].sold]
  /\ Goto(r, "commit")
  /\ UNCHANGED <<db, dayLock, arg>>

CloseCommit(r) ==
  /\ At(r, "commit", {"close"})
  /\ status' = [status EXCEPT ![seen[r].day] = "CLOSED"]
  /\ closing' = [closing EXCEPT ![seen[r].day] =
                   Line(seen[r].opening, seen[r].closing, seen[r].moved)]
  /\ Finish(r)
  /\ UNCHANGED <<count, moved>>

-----------------------------------------------------------------------------
(* Sales and the opening of days, by other modules' requests.              *)

Sell(d) ==
  /\ status[d] = "OPEN"
  /\ \E q \in Quantity : moved' = [moved EXCEPT ![d].sold = @ + q]
  /\ moved'[d].sold <= MaxMoved
  /\ UNCHANGED <<status, count, closing, dayLock, pc, arg, seen>>

(* A void takes a completed sale out of what is sold.                      *)
Unsell(d) ==
  /\ \E q \in Quantity \cap 1 .. moved[d].sold : moved' = [moved EXCEPT ![d].sold = @ - q]
  /\ UNCHANGED <<status, count, closing, dayLock, pc, arg, seen>>

OpenDay(d) ==
  /\ \A e \in Day : status[e] # "OPEN"
  /\ status[d] = "future"
  /\ \A e \in Day : e < d => status[e] = "CLOSED"
  /\ status' = [status EXCEPT ![d] = "OPEN"]
  /\ UNCHANGED <<count, moved, closing, dayLock, pc, arg, seen>>

-----------------------------------------------------------------------------
Init ==
  /\ status = [d \in Day |-> IF d = 1 THEN "OPEN" ELSE "future"]
  /\ count = [c \in Count |-> NoRow]
  /\ moved = [d \in Day |-> NoMove]
  /\ closing = [d \in Day |-> NoClosing]
  /\ dayLock = FALSE
  /\ pc = [r \in Request |-> "idle"]
  /\ arg = [r \in Request |-> NoArg]
  /\ seen = [r \in Request |-> Nothing]

Step(r) ==
  \/ Start(r) \/ Abort(r)
  \/ SubmitCheck(r) \/ SubmitInsert(r) \/ MovementInsert(r)
  \/ CloseLock(r) \/ CloseReadMovements(r) \/ CloseReadSales(r) \/ CloseCommit(r)

Next == (\E r \in Request : Step(r)) \/ (\E d \in Day : Sell(d) \/ Unsell(d) \/ OpenDay(d))

Spec == Init /\ [][Next]_vars

-----------------------------------------------------------------------------
(* Corrections form chains: a count is corrected at most once, by a later  *)
(* count of its own day and phase, whatever raced (stock-counts.service.ts *)
(* checks before it inserts; the unique index decides).                    *)
CorrectionsFormChains ==
  \A c \in Recorded :
    /\ Cardinality(CorrectionsOf(c)) <= 1
    /\ \A e \in CorrectionsOf(c) : e > c /\ e \in InPhase(count[c].day, count[c].phase)

(* The count that the count sheet shows, by time alone, is the count that  *)
(* the reconciliation and the restock list use, by chains: no sequence of  *)
(* counts and corrections makes the screens disagree.                      *)
ScreensAgree ==
  \A d \in Day :
    /\ \A p \in Phase : OnSheet(d, p) = InForce(d, p)
    /\ RestockCount(d) = IF OnSheet(d, "close") = {} THEN OnSheet(d, "open") ELSE OnSheet(d, "close")

(* A count that was corrected is never the one in force, and a phase that  *)
(* was counted has a count in force.                                       *)
CorrectionsWin ==
  \A d \in Day, p \in Phase :
    /\ \A c \in InForce(d, p) : CorrectionsOf(c) = {}
    /\ InPhase(d, p) # {} => Cardinality(InForce(d, p)) = 1

(* One count of each phase is in force, on every screen, whatever raced.   *)
CountsInv == CorrectionsFormChains /\ ScreensAgree /\ CorrectionsWin
-----------------------------------------------------------------------------
(* Why CountsInv holds, for any numbers of counts, days and requests.      *)

IsFunction(f, S) == f = [x \in S |-> f[x]]

(* Counts are numbered without a gap.                                      *)
Gapless == \A c \in Recorded : \A e \in Count : e < c => e \in Recorded

(* A count that was corrected has one correction, a later one of its own   *)
(* day and phase.                                                          *)
Chained ==
  \A c \in Recorded : \A e \in CorrectionsOf(c) :
    /\ e > c /\ e \in InPhase(count[c].day, count[c].phase)
    /\ \A f \in CorrectionsOf(c) : f = e

(* Whatever is corrected was recorded.                                     *)
CorrectsRecorded ==
  \A e \in Recorded : count[e].corrects = 0 \/ count[e].corrects \in Recorded

(* What was recorded for a day and phase has a last count.                 *)
HasLast == \A d \in Day, p \in Phase : InPhase(d, p) # {} => OnSheet(d, p) # {}

(* What a submit checked stays so: counts are never changed.               *)
Checked ==
  \A r \in Request :
    pc[r] = "insert" /\ arg[r].op = "count" /\ arg[r].corrects # 0 =>
      arg[r].corrects \in InPhase(seen[r].day, arg[r].phase)

(* The inductive invariant.                                                *)
ChainInv ==
  /\ IsFunction(count, Count)
  /\ IsFunction(pc, Request) /\ IsFunction(arg, Request) /\ IsFunction(seen, Request)
  /\ Gapless /\ Chained /\ CorrectsRecorded /\ HasLast /\ Checked

(* A stored count is not the empty slot.                                   *)
LEMMA RowIsNotEmpty ==
  ASSUME NEW d, NEW p, NEW c, NEW q
  PROVE  [day |-> d, phase |-> p, corrects |-> c, qty |-> q] # NoRow
<1> DEFINE x == [day |-> d, phase |-> p, corrects |-> c, qty |-> q]
<1>1. "phase" \in DOMAIN x
  OBVIOUS
<1>2. "phase" \notin DOMAIN NoRow
  BY DEF NoRow
<1> QED BY <1>1, <1>2

(* The last count of a phase is one that no count corrects, and it is the  *)
(* last of those: the count by time is the count by chains.                *)
LEMMA ChainsGiveCountsInv ==
  ASSUME Count \subseteq Nat, ChainInv
  PROVE  CountsInv
<1>1. CorrectionsFormChains
  <2> SUFFICES ASSUME NEW c \in Recorded PROVE Cardinality(CorrectionsOf(c)) <= 1
    BY DEF CorrectionsFormChains, ChainInv, Chained
  <2>1. CASE CorrectionsOf(c) = {}
    BY <2>1, FS_EmptySet
  <2>2. CASE CorrectionsOf(c) # {}
    <3>1. PICK e \in CorrectionsOf(c) : \A f \in CorrectionsOf(c) : f = e
      BY <2>2 DEF ChainInv, Chained
    <3>2. CorrectionsOf(c) = {e}
      BY <3>1
    <3> QED BY <3>2, FS_Singleton
  <2> QED BY <2>1, <2>2
<1>2. ASSUME NEW d \in Day, NEW p \in Phase
      PROVE  /\ OnSheet(d, p) = InForce(d, p)
             /\ \A c \in InForce(d, p) : CorrectionsOf(c) = {}
             /\ InPhase(d, p) # {} => Cardinality(InForce(d, p)) = 1
  <2> DEFINE S == InPhase(d, p)
  <2>1. S \subseteq Recorded /\ S \subseteq Nat
    BY DEF InPhase, Recorded
  <2>2. \A c \in S : CorrectionsOf(c) \subseteq S
    BY <2>1 DEF ChainInv, Chained, InPhase
  <2>3. \A c \in Last(S) : CorrectionsOf(c) = {}
    <3> SUFFICES ASSUME NEW c \in Last(S), NEW e \in CorrectionsOf(c) PROVE FALSE
      OBVIOUS
    <3>1. c \in S /\ e \in S /\ e > c /\ e <= c
      BY <2>1, <2>2 DEF Last, ChainInv, Chained
    <3> QED BY <2>1, <3>1
  <2>4. Leaves(d, p) \subseteq S /\ Last(S) \subseteq Leaves(d, p)
    BY <2>3 DEF Leaves, Last
  <2>5. CASE S = {}
    BY <2>4, <2>5 DEF OnSheet, InForce, Last
  <2>6. CASE S # {}
    <3>1. PICK m \in Last(S) : TRUE
      BY <2>6 DEF ChainInv, HasLast, OnSheet
    <3>2. m \in Leaves(d, p) /\ m \in S /\ \A e \in S : e <= m
      BY <2>4, <3>1 DEF Last
    <3>3. Last(S) = {m}
      <4> SUFFICES ASSUME NEW c \in Last(S) PROVE c = m
        BY <3>1
      <4>1. c \in Nat /\ m \in Nat /\ c <= m /\ m <= c
        BY <2>1, <3>2 DEF Last
      <4> QED BY <4>1
    <3>4. Last(Leaves(d, p)) = {m}
      <4>1. m \in Last(Leaves(d, p))
        BY <2>4, <3>2 DEF Last
      <4> SUFFICES ASSUME NEW c \in Last(Leaves(d, p)) PROVE c = m
        BY <4>1
      <4>2. c \in Nat /\ m \in Nat /\ c <= m /\ m <= c
        BY <2>1, <2>4, <3>2 DEF Last
      <4> QED BY <4>2
    <3> QED BY <2>3, <3>1, <3>3, <3>4, FS_Singleton DEF OnSheet, InForce
  <2> QED BY <2>5, <2>6
<1>3. ScreensAgree
  <2>1. "open" \in Phase /\ "close" \in Phase
    BY DEF Phase
  <2> QED BY <1>2, <2>1 DEF ScreensAgree, RestockCount
<1>4. CorrectionsWin
  BY <1>2 DEF CorrectionsWin
<1> QED BY <1>1, <1>3, <1>4 DEF CountsInv

(* A step that records no count keeps the invariant if its request is not  *)
(* brought to an unchecked insert.                                         *)
LEMMA ChainQuiet ==
  ASSUME ChainInv, UNCHANGED count,
         IsFunction(pc', Request), IsFunction(arg', Request), IsFunction(seen', Request),
         Checked'
  PROVE  ChainInv'
<1>1. IsFunction(count', Count) /\ Gapless' /\ CorrectsRecorded'
  BY DEF ChainInv, IsFunction, Gapless, CorrectsRecorded, Recorded
<1>2. Chained'
  BY DEF ChainInv, Chained, CorrectionsOf, InPhase, Recorded
<1>3. HasLast'
  BY DEF ChainInv, HasLast, OnSheet, Last, InPhase, Recorded
<1> QED BY <1>1, <1>2, <1>3 DEF ChainInv

(* A count is recorded: it is later than every other, and the index lets   *)
(* it correct only what nothing corrects.                                  *)
LEMMA ChainInsert ==
  ASSUME Count \subseteq Nat \ {0}, ChainInv, NEW r \in Request, SubmitInsert(r), ~Answer(r)
  PROVE  ChainInv'
<1>0. PICK c \in Next1 :
        \E qty : count' = [count EXCEPT ![c] = [day |-> seen[r].day, phase |-> arg[r].phase,
                                                corrects |-> arg[r].corrects, qty |-> qty]]
  BY DEF SubmitInsert
<1>1. PICK qty :
        count' = [count EXCEPT ![c] = [day |-> seen[r].day, phase |-> arg[r].phase,
                                       corrects |-> arg[r].corrects, qty |-> qty]]
  BY <1>0
<1>2. /\ FreeInIndex(arg[r].corrects) /\ Finish(r) /\ pc[r] = "insert" /\ arg[r].op = "count"
  BY DEF SubmitInsert, At
<1> DEFINE x == [day |-> seen[r].day, phase |-> arg[r].phase,
                 corrects |-> arg[r].corrects, qty |-> qty]
<1>3. /\ x # NoRow /\ x.corrects = arg[r].corrects
      /\ x.day = seen[r].day /\ x.phase = arg[r].phase
  BY RowIsNotEmpty
<1> HIDE DEF x
<1>4. /\ c \in Count /\ c \in Nat /\ c # 0 /\ c \notin Recorded /\ count' = [count EXCEPT ![c] = x]
      /\ \A e \in Count : e < c => e \in Recorded
  BY <1>0, <1>1 DEF Next1, Recorded, x
<1>5. /\ IsFunction(count', Count) /\ count'[c] = x
      /\ \A e \in Count : e # c => count'[e] = count[e]
  BY <1>4 DEF ChainInv, IsFunction
<1>6. Recorded' = Recorded \cup {c}
  BY <1>3, <1>4, <1>5 DEF Recorded
<1>7. \A e \in Recorded : e < c
  BY <1>4 DEF ChainInv, Gapless, Recorded
<1>8. IsFunction(pc', Request) /\ IsFunction(arg', Request) /\ IsFunction(seen', Request)
  BY <1>2 DEF Finish, Goto, ChainInv, IsFunction
<1>9. \A d, p : InPhase(d, p)' = IF d = x.day /\ p = x.phase THEN InPhase(d, p) \cup {c}
                                                            ELSE InPhase(d, p)
  BY <1>4, <1>5, <1>6 DEF InPhase, Recorded
<1>10. \A b : CorrectionsOf(b)' = IF b = x.corrects THEN CorrectionsOf(b) \cup {c}
                                                    ELSE CorrectionsOf(b)
  BY <1>4, <1>5, <1>6 DEF CorrectionsOf, Recorded
<1>11. Gapless'
  <2> SUFFICES ASSUME NEW b \in Recorded', NEW e \in Count, e < b PROVE e \in Recorded'
    BY DEF Gapless
  <2> QED BY <1>4, <1>6 DEF ChainInv, Gapless, Recorded
<1>12. Chained'
  <2> SUFFICES ASSUME NEW b \in Recorded', NEW e \in CorrectionsOf(b)'
               PROVE  /\ e > b /\ e \in InPhase(count[b].day, count[b].phase)'
                      /\ \A f \in CorrectionsOf(b)' : f = e
    BY DEF Chained
  <2>1. x.corrects = 0 \/ x.corrects \in InPhase(x.day, x.phase)
    BY <1>2, <1>3 DEF ChainInv, Checked
  <2>2. b # c
    <3>1. CorrectionsOf(c) = {}
      BY <1>4 DEF ChainInv, CorrectsRecorded, CorrectionsOf
    <3>2. x.corrects # c
      BY <1>4, <2>1 DEF InPhase
    <3> QED BY <1>10, <3>1, <3>2
  <2>3. b \in Recorded /\ b \in Count /\ count'[b] = count[b]
    BY <1>5, <1>6, <2>2 DEF Recorded
  <2>4. CASE b # x.corrects
    <3>1. CorrectionsOf(b)' = CorrectionsOf(b)
      BY <1>10, <2>4
    <3>2. /\ e > b /\ e \in InPhase(count[b].day, count[b].phase)
          /\ \A f \in CorrectionsOf(b) : f = e
      BY <2>3, <3>1 DEF ChainInv, Chained
    <3>3. e \in Recorded' /\ count'[e] = count[e]
      BY <1>4, <1>5, <1>6, <3>2 DEF InPhase, Recorded
    <3> QED BY <2>3, <3>1, <3>2, <3>3 DEF InPhase
  <2>5. CASE b = x.corrects
    <3>1. CorrectionsOf(b) = {}
      BY <1>2, <1>3, <2>3, <2>5 DEF FreeInIndex
    <3>2. e = c /\ \A f \in CorrectionsOf(b)' : f = e
      BY <1>10, <2>5, <3>1
    <3>3. c > b
      BY <1>4, <1>7, <2>3
    <3>4. count'[b].day = x.day /\ count'[b].phase = x.phase
      BY <2>1, <2>3, <2>5 DEF InPhase
    <3>5. c \in Recorded' /\ count'[c].day = x.day /\ count'[c].phase = x.phase
      BY <1>5, <1>6
    <3> QED BY <3>2, <3>3, <3>4, <3>5 DEF InPhase
  <2> QED BY <2>4, <2>5
<1>13. CorrectsRecorded'
  <2>1. x.corrects = 0 \/ x.corrects \in Recorded
    BY <1>2, <1>3 DEF ChainInv, Checked, InPhase
  <2> SUFFICES ASSUME NEW e \in Recorded'
               PROVE  count'[e].corrects = 0 \/ count'[e].corrects \in Recorded'
    BY DEF CorrectsRecorded
  <2>2. CASE e = c
    BY <1>5, <1>6, <2>1, <2>2
  <2>3. CASE e # c
    <3>1. e \in Recorded /\ count'[e] = count[e]
      BY <1>5, <1>6, <2>3 DEF Recorded
    <3> QED BY <1>6, <3>1 DEF ChainInv, CorrectsRecorded
  <2> QED BY <2>2, <2>3
<1>14. HasLast'
  <2> SUFFICES ASSUME NEW d \in Day, NEW p \in Phase, InPhase(d, p)' # {}
               PROVE  OnSheet(d, p)' # {}
    BY DEF HasLast
  <2>1. CASE d = x.day /\ p = x.phase
    <3>1. InPhase(d, p)' = InPhase(d, p) \cup {c}
      BY <1>9, <2>1
    <3>2. \A e \in InPhase(d, p) : e < c /\ e \in Nat
      BY <1>7 DEF InPhase, Recorded
    <3>3. \A e \in InPhase(d, p)' : e <= c
      BY <1>4, <3>1, <3>2
    <3>4. c \in OnSheet(d, p)'
      BY <3>1, <3>3 DEF OnSheet, Last
    <3> QED BY <3>4
  <2>2. CASE ~(d = x.day /\ p = x.phase)
    <3>1. InPhase(d, p)' = InPhase(d, p)
      BY <1>9, <2>2
    <3> QED BY <3>1 DEF ChainInv, HasLast, OnSheet, Last
  <2> QED BY <2>1, <2>2
<1>15. Checked'
  <2> SUFFICES ASSUME NEW s \in Request, pc'[s] = "insert", arg'[s].op = "count",
                      arg'[s].corrects # 0
               PROVE  arg'[s].corrects \in InPhase(seen[s].day, arg[s].phase)'
    BY DEF Checked
  <2>1. s # r
    BY <1>2 DEF Finish, Goto, ChainInv, IsFunction
  <2>2. pc'[s] = pc[s] /\ arg'[s] = arg[s] /\ seen'[s] = seen[s]
    BY <1>2, <2>1 DEF Finish, Goto, ChainInv, IsFunction
  <2>3. arg[s].corrects \in InPhase(seen[s].day, arg[s].phase)
    BY <2>2 DEF ChainInv, Checked
  <2> DEFINE b == arg[s].corrects
  <2>4. b \in Recorded' /\ count'[b] = count[b]
    BY <1>4, <1>5, <1>6, <2>3 DEF InPhase, Recorded
  <2> QED BY <2>2, <2>3, <2>4 DEF InPhase
<1> QED BY <1>5, <1>8, <1>11, <1>12, <1>13, <1>14, <1>15 DEF ChainInv

(* Every step keeps the invariant of the chains.                           *)
LEMMA ChainNext == Count \subseteq Nat \ {0} /\ ChainInv /\ [Next]_vars => ChainInv'
<1> SUFFICES ASSUME Count \subseteq Nat \ {0}, ChainInv, [Next]_vars PROVE ChainInv'
  OBVIOUS
<1>0. IsFunction(pc, Request) /\ IsFunction(arg, Request) /\ IsFunction(seen, Request)
  BY DEF ChainInv
<1>1. CASE UNCHANGED <<count, pc, arg, seen>>
  BY <1>0, <1>1, ChainQuiet DEF ChainInv, Checked, InPhase, Recorded
<1>2. CASE UNCHANGED vars \/ \E d \in Day : Sell(d) \/ Unsell(d) \/ OpenDay(d)
  BY <1>1, <1>2 DEF vars, Sell, Unsell, OpenDay
<1>3. ASSUME NEW r \in Request, Step(r)
      PROVE  ChainInv'
  <2>1. CASE SubmitInsert(r) /\ ~Answer(r)
    BY <2>1, ChainInsert
  <2>2. CASE ~(SubmitInsert(r) /\ ~Answer(r))
    <3>1. UNCHANGED count
      BY <1>3, <2>2 DEF Step, Start, Abort, Answer, SubmitCheck, SubmitInsert, MovementInsert,
         CloseLock, CloseReadMovements, CloseReadSales, CloseCommit, db
    <3>2. CASE Finish(r)
      <4>1. IsFunction(pc', Request) /\ IsFunction(arg', Request) /\ IsFunction(seen', Request)
        BY <1>0, <3>2 DEF Finish, Goto, IsFunction
      <4>2. /\ pc'[r] = "done"
            /\ \A s \in Request : s # r => pc'[s] = pc[s] /\ arg'[s] = arg[s] /\ seen'[s] = seen[s]
        BY <1>0, <3>2 DEF Finish, Goto, IsFunction
      <4>3. Checked'
        BY <3>1, <4>2 DEF ChainInv, Checked, InPhase, Recorded
      <4> QED BY <3>1, <4>1, <4>3, ChainQuiet
    <3>3. CASE ~Finish(r) /\ Start(r)
      <4>1. PICK call \in Calls[r], d \in Day :
              /\ arg' = [arg EXCEPT ![r] = call]
              /\ seen' = [seen EXCEPT ![r].day = d]
              /\ pc' = [pc EXCEPT ![r] = CASE call.op = "count" -> "check"
                                           [] call.op = "close" -> "lock" [] OTHER -> "insert"]
        BY <3>3 DEF Start, Goto
      <4>2. IsFunction(pc', Request) /\ IsFunction(arg', Request) /\ IsFunction(seen', Request)
        BY <1>0, <4>1 DEF IsFunction
      <4>3. pc'[r] # "insert" \/ arg'[r].op # "count"
        BY <1>0, <4>1 DEF IsFunction
      <4>4. \A s \in Request : s # r => pc'[s] = pc[s] /\ arg'[s] = arg[s] /\ seen'[s] = seen[s]
        BY <1>0, <4>1 DEF IsFunction
      <4>5. Checked'
        BY <3>1, <4>3, <4>4 DEF ChainInv, Checked, InPhase, Recorded
      <4> QED BY <3>1, <4>2, <4>5, ChainQuiet
    <3>4. CASE ~Finish(r) /\ SubmitCheck(r)
      <4>1. /\ pc' = [pc EXCEPT ![r] = "insert"] /\ UNCHANGED <<arg, seen>>
            /\ arg[r].corrects = 0 \/ MayCorrect(r, arg[r].corrects)
        BY <3>4 DEF SubmitCheck, Answer, Goto
      <4>2. IsFunction(pc', Request) /\ IsFunction(arg', Request) /\ IsFunction(seen', Request)
        BY <1>0, <4>1 DEF IsFunction
      <4>3. \A s \in Request : s # r => pc'[s] = pc[s]
        BY <1>0, <4>1 DEF IsFunction
      <4>4. Checked'
        BY <3>1, <4>1, <4>3 DEF ChainInv, Checked, MayCorrect, InPhase, Recorded
      <4> QED BY <3>1, <4>2, <4>4, ChainQuiet
    <3>5. CASE ~Finish(r) /\ (CloseLock(r) \/ CloseReadMovements(r) \/ CloseReadSales(r))
      <4>1. /\ UNCHANGED arg
            /\ \E l \in Label \ {"insert"} : pc' = [pc EXCEPT ![r] = l]
            /\ \E x : seen' = [seen EXCEPT ![r] = x]
        BY <3>5 DEF CloseLock, CloseReadMovements, CloseReadSales, Answer, Goto, Label
      <4>2. IsFunction(pc', Request) /\ IsFunction(arg', Request) /\ IsFunction(seen', Request)
        BY <1>0, <4>1 DEF IsFunction
      <4>3. pc'[r] # "insert"
        BY <1>0, <4>1 DEF IsFunction
      <4>4. \A s \in Request : s # r => pc'[s] = pc[s] /\ seen'[s] = seen[s]
        BY <1>0, <4>1 DEF IsFunction
      <4>5. Checked'
        BY <3>1, <4>1, <4>3, <4>4 DEF ChainInv, Checked, InPhase, Recorded
      <4> QED BY <3>1, <4>2, <4>5, ChainQuiet
    <3> QED BY <1>3, <2>2, <3>2, <3>3, <3>4, <3>5
        DEF Step, Abort, Answer, SubmitInsert, MovementInsert, CloseCommit
  <2> QED BY <2>1, <2>2
<1> QED BY <1>2, <1>3 DEF Next

(* However counts, corrections and closes race, and however many there are *)
(* of each: a count is corrected at most once, and the count that the      *)
(* sheet shows by time is the one the reconciliation and the restock list  *)
(* find by chains.  The unique index on the corrected count is what the    *)
(* proof rests on; the check before the insert is not.                     *)
THEOREM CountsAgree ==
  ASSUME Count \subseteq Nat \ {0}
  PROVE  Spec => []CountsInv
<1>1. Init => ChainInv
  BY DEF Init, ChainInv, IsFunction, Gapless, Chained, CorrectsRecorded, HasLast, Checked,
         InPhase, CorrectionsOf, Recorded
<1>2. ChainInv /\ [Next]_vars => ChainInv'
  BY ChainNext
<1>3. ChainInv => CountsInv
  BY ChainsGiveCountsInv
<1> QED BY <1>1, <1>2, <1>3, PTL DEF Spec
=============================================================================
