----------------------------- MODULE MCRequests -----------------------------
(***************************************************************************)
(* Requests of the API on small instances: CashMovements, whose requests   *)
(* are r1, r2, ... and whose ids of movements are a, b and c; and the      *)
(* reports of what was sold.  They share no state here.  part says which   *)
(* of them this behaviour is about: it moves and the other stays where it  *)
(* starts, so a property of one holds here when it holds of that one.      *)
(***************************************************************************)
EXTENDS CashMovements, Integers, Sequences, TLC

CONSTANTS r1, r2, r3, r4, r5, a, b, c

Plain(op) == [op |-> op, id |-> a, target |-> a]
Record(i) == [op |-> "record", id |-> i, target |-> i]
Amendment(i, t) == [op |-> "amend", id |-> i, target |-> t]

(* An entry, retried perhaps, is amended by two requests, one of which may *)
(* amend the other's correction, while the day closes and another opens.   *)
LedgerCalls ==
  [r \in Request |->
     CASE r = r1 -> {Record(a)}
       [] r = r2 -> {Record(a), Record(c), Amendment(c, b)}
       [] r = r3 -> {Amendment(b, a)}
       [] r = r4 -> {Amendment(c, a), Amendment(c, b), Amendment(b, a), Plain("open")}
       [] OTHER -> {Plain("close")}]

VARIABLES
  part,
  tradingDays, sales, movements, report, written

reporting == <<tradingDays, sales, movements, report, written>>
requests == <<part, vars, reporting>>

(* Three days of two dates; a product with change owed and one paid by     *)
(* cash and card; reports of the second date, of all, and of the orders.   *)
Sold(p, price, n, cash, card, tip, owed) ==
  [product |-> p, price |-> price, servings |-> n, cash |-> cash, online |-> card, tip |-> tip, owed |-> owed]
Listed(s, m, sort, asc, page) == [status |-> s, payment |-> m, sort |-> sort, asc |-> asc, page |-> page]
Reporting == INSTANCE Reporting WITH
  Day <- {1, 2, 3}, DateOf <- <<1, 1, 2>>, Span <- {<<2, 2>>}, PageSize <- 1, MaxWrites <- 4,
  Order <- {Sold("pair", 5, 2, 5, 0, 1, 2), Sold("latte", 3, 1, 1, 2, 0, 0)},
  Query <- {Listed("Completed", "", "orderNumber", FALSE, 1), Listed("", "Split", "status", TRUE, 1),
            Listed("", "", "total", TRUE, 2)},
  days <- tradingDays, writes <- written

-----------------------------------------------------------------------------

RequestsInit ==
  /\ part \in {"movements", "reporting"}
  /\ Init
  /\ Reporting!Init

RequestsNext ==
  \/ part = "movements" /\ Next /\ UNCHANGED <<part, reporting>>
  \/ part = "reporting" /\ Reporting!Next /\ UNCHANGED <<part, vars>>
RequestsSpec == RequestsInit /\ [][RequestsNext]_requests
ReportingSpec == RequestsInit /\ part = "reporting" /\ [][RequestsNext]_requests

-----------------------------------------------------------------------------
(* The properties are stated, with the code they are about, in the modules *)
(* of the parts.                                                           *)

ReportingInv == part = "reporting" => Reporting!ReportingInv
VoidedCupsNetOut == Reporting!VoidedCupsNetOut
=============================================================================
