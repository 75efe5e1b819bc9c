---------------------------- MODULE JournalLedgers ----------------------------
(***************************************************************************)
(* A journal ledger (apps/api/src/journal): its deposits for closed        *)
(* business days, its withdrawals and its suggestion rates, written by     *)
(* requests that read the ledger, its deposits and the closed days before  *)
(* they write, in no transaction of their own but the bulk insert's; and   *)
(* the names of the ledgers.                                               *)
(*                                                                         *)
(* Dates are numbers.  Between midnight and eight o'clock in the shop it   *)
(* is still yesterday in UTC.                                              *)
(***************************************************************************)
EXTENDS Suggestions, FiniteSets

CONSTANTS
  Request, \* HTTP requests
  Deposit, \* ids of journal_deposits
  Date,    \* business dates: 1 .. n
  Name,    \* ledger names up to case
  Kind,    \* journal_ledgers.suggestion_kind: "NONE", "RENT" or "CHAIR"
  Calls    \* the calls each request may be

(* ids is what an update or a removal names, rows the deposits' amounts by *)
(* date, date a start date.                                                *)
Op == {"start", "deposit", "edit", "remove", "rate", "name"}

VARIABLES
  start,    \* journal_ledgers.start_date
  deposit,  \* journal_deposits
  rate,     \* journal_suggestion_rates by effective date
  closed,   \* the dates of closed business days
  today,    \* the shop's date
  night,    \* is it yesterday in UTC
  names,    \* ledgers by name and casing
  pc, arg, seen

vars == <<start, deposit, rate, closed, today, night, names, pc, arg, seen>>

NoDeposit == [date |-> 0, amount |-> 0]
Nothing == [start |-> 0, id |-> {}]
NoArg == [op |-> "remove"]
Recorded == {d \in Deposit : deposit[d] # NoDeposit}
RecordedDates == {deposit[d].date : d \in Recorded}

-----------------------------------------------------------------------------

Init ==
  /\ start = 1 /\ deposit = [d \in Deposit |-> NoDeposit]
  /\ rate = [t \in Date |-> {}] /\ closed = {} /\ today = 1 /\ night = FALSE
  /\ names = {}
  /\ pc = [q \in Request |-> "idle"] /\ arg = [q \in Request |-> NoArg]
  /\ seen = [q \in Request |-> Nothing]

Finish(q) ==
  /\ pc' = [pc EXCEPT ![q] = "done"] /\ arg' = [arg EXCEPT ![q] = NoArg]
  /\ seen' = [seen EXCEPT ![q] = Nothing]
Unchanged == UNCHANGED <<start, deposit, rate, closed, today, night, names>>

CallsAreTyped ==
  /\ Date \subseteq Nat \ {0}
  /\ \A q \in Request : \A c \in Calls[q] :
       /\ c.op \in {"deposit", "edit"} => \A r \in c.rows : r.date \in Date
       /\ c.op = "edit" => c.rows # {}
       /\ c.op = "start" => c.date \in Nat

Begin(q, c) ==
  /\ pc[q] = "idle"
  /\ arg' = [arg EXCEPT ![q] = c] /\ pc' = [pc EXCEPT ![q] = "read"]
  /\ UNCHANGED seen /\ Unchanged

(* The dates a request gives its deposits.                                 *)
Dates(c) == {r.date : r \in c.rows}
(* assertNoRepeatedBusinessDate                                            *)
DatesAreApart(c) == \A r, s \in c.rows : r.date = s.date => r = s

(* requireLedger, or the deposit with its ledger; a start date must not    *)
(* pass the earliest deposit.                                              *)
MayStart(t) == \A d \in Recorded : t <= deposit[d].date
NameIsFree(c) == \A n \in names : n.name # c.name
(* rateDataForKind: the fields of the ledger's kind, and no others.        *)
RateFits(r) ==
  \/ Kind = "RENT" /\ r.percent # {} /\ r.amount = {} /\ r.threshold = {}
  \/ Kind = "CHAIR" /\ r.percent = {} /\ r.amount # {} /\ r.threshold # {}

Read(q) ==
  /\ pc[q] = "read"
  /\ LET c == arg[q] IN
     \/ /\ \/ c.op = "start" /\ ~MayStart(c.date)
           \/ c.op = "name" /\ ~NameIsFree(c)
           \/ c.op = "rate" /\ ~RateFits(c.rate)
           \/ c.op = "edit" /\ c.id \notin Recorded
           \/ c.op = "deposit" /\ ~DatesAreApart(c)
           \/ c.op \in {"deposit", "edit"} /\ \E t \in Dates(c) : t < start
        /\ Finish(q)
     \/ /\ \/ c.op = "start" /\ MayStart(c.date)
           \/ c.op = "name" /\ NameIsFree(c)
           \/ c.op = "rate" /\ RateFits(c.rate)
           \/ c.op = "remove"
           \/ /\ c.op \in {"deposit", "edit"} /\ (c.op = "edit" => c.id \in Recorded)
              /\ (c.op = "deposit" => DatesAreApart(c)) /\ \A t \in Dates(c) : t >= start
        /\ pc' = [pc EXCEPT ![q] = IF c.op \in {"deposit", "edit"} THEN "days" ELSE "write"]
        /\ UNCHANGED <<arg, seen>>
  /\ Unchanged

(* assertEligibleDepositDates, through getClosedDailyGross                 *)
AreClosed(dates) == dates \subseteq closed

ReadDays(q) ==
  /\ pc[q] = "days"
  /\ \/ ~AreClosed(Dates(arg[q])) /\ Finish(q)
     \/ /\ AreClosed(Dates(arg[q]))
        /\ pc' = [pc EXCEPT ![q] = "write"] /\ UNCHANGED <<arg, seen>>
  /\ Unchanged

(* Mutant: no index.                                                       *)
NoIndex(dates, but) == TRUE

(* journal_deposits_ledger_id_business_date_key                            *)
FreeInIndex(dates, but) == \A d \in Recorded \ but : deposit[d].date \notin dates

(* createDeposit, and createDepositsBulk in one transaction                *)
Insert(q) ==
  LET rows == arg[q].rows IN
  IF ~FreeInIndex(Dates(arg[q]), {}) THEN UNCHANGED deposit
  ELSE \E f \in [rows -> Deposit \ Recorded] :
    /\ \A r, s \in rows : f[r] = f[s] => r = s
    /\ deposit' = [d \in Deposit |-> IF \E r \in rows : f[r] = d
                     THEN CHOOSE r \in rows : f[r] = d ELSE deposit[d]]

WriteDeposits(q) ==
  /\ pc[q] = "write" /\ arg[q].op = "deposit"
  /\ Insert(q)
  /\ Finish(q)
  /\ UNCHANGED <<start, rate, closed, today, night, names>>

(* updateDeposit                                                           *)
WriteEdit(q) ==
  /\ pc[q] = "write" /\ arg[q].op = "edit"
  /\ LET c == arg[q] IN
     deposit' = IF c.id \in Recorded /\ FreeInIndex(Dates(c), {c.id})
                THEN [deposit EXCEPT ![c.id] = CHOOSE r \in c.rows : TRUE] ELSE deposit
  /\ Finish(q)
  /\ UNCHANGED <<start, rate, closed, today, night, names>>

WriteRemove(q) ==
  /\ pc[q] = "write" /\ arg[q].op = "remove"
  /\ deposit' = [deposit EXCEPT ![arg[q].id] = NoDeposit]
  /\ Finish(q)
  /\ UNCHANGED <<start, rate, closed, today, night, names>>

(* updateLedger                                                            *)
WriteStart(q) ==
  /\ pc[q] = "write" /\ arg[q].op = "start"
  /\ start' = arg[q].date
  /\ Finish(q)
  /\ UNCHANGED <<deposit, rate, closed, today, night, names>>

(* Mutant: the date in UTC.                                                *)
UtcToday == IF night THEN today - 1 ELSE today

(* serverToday                                                             *)
ServerToday == today

(* updateRate upserts the row of today.                                    *)
WriteRate(q) ==
  /\ pc[q] = "write" /\ arg[q].op = "rate"
  /\ rate' = [t \in Date |-> IF t = ServerToday THEN {arg[q].rate} ELSE rate[t]]
  /\ Finish(q)
  /\ UNCHANGED <<start, deposit, closed, today, night, names>>

(* journal_ledgers_name_key tells case apart.                              *)
WriteName(q) ==
  /\ pc[q] = "write" /\ arg[q].op = "name"
  /\ names' = names \cup {[name |-> arg[q].name, case |-> arg[q].case]}
  /\ Finish(q)
  /\ UNCHANGED <<start, deposit, rate, closed, today, night>>

(* The days of the shop go by; a day that has begun may be closed.         *)
NewDay ==
  /\ ~night /\ today + 1 \in Date
  /\ today' = today + 1 /\ night' = TRUE
  /\ UNCHANGED <<start, deposit, rate, closed, names, pc, arg, seen>>
Morning ==
  /\ night /\ night' = FALSE
  /\ UNCHANGED <<start, deposit, rate, closed, today, names, pc, arg, seen>>
CloseDay(t) ==
  /\ t \notin closed /\ t <= today
  /\ closed' = closed \cup {t}
  /\ UNCHANGED <<start, deposit, rate, today, night, names, pc, arg, seen>>

Step(q) ==
  \/ Read(q) \/ ReadDays(q) \/ WriteDeposits(q) \/ WriteEdit(q) \/ WriteRemove(q)
  \/ WriteStart(q) \/ WriteRate(q) \/ WriteName(q)

Next ==
  \/ \E q \in Request : Step(q) \/ \E c \in Calls[q] : Begin(q, c)
  \/ NewDay \/ Morning \/ \E t \in Date : CloseDay(t)

Spec == Init /\ [][Next]_vars

-----------------------------------------------------------------------------

(* rateInForceFor, and findRateInForce: the row with the greatest date up  *)
(* to the day's.                                                           *)
RateInForce(t) ==
  UNION {rate[s] : s \in {u \in Date : u <= t /\ rate[u] # {} /\ \A v \in Date : u < v /\ v <= t => rate[v] = {}}}

(* suggestFor: nothing without a rate, and zero below a chair's threshold. *)
SuggestFor(gross, t) ==
  UNION {{Rent(gross, p) : p \in r.percent} \cup {Chair(gross, a, h) : a \in r.amount, h \in r.threshold} :
           r \in RateInForce(t)}

(* Mutant: only the days after the last recorded one.                      *)
MissingAfterLast == {t \in closed : start <= t /\ t <= ServerToday /\ \A s \in RecordedDates : s < t}

(* getMissingDays                                                          *)
MissingDays == {t \in closed : start <= t /\ t <= ServerToday} \ RecordedDates

(* A deposit is recorded for a day that is closed, and one for a day, in   *)
(* whatever order creates, edits and bulk inserts check and write.         *)
DepositsOfClosedDays ==
  /\ RecordedDates \subseteq closed
  /\ \A d, e \in Recorded : deposit[d].date = deposit[e].date => d = e

(* The journal holds deposits of closed days, and what it suggests for a   *)
(* day grows with the day (journal.service.ts, suggestions).               *)
JournalInv == DepositsOfClosedDays /\ SuggestionsNeverFall

(* A day that asks for a deposit is not lost from the list of missing days *)
(* but by a deposit, or by a later start of the ledger.                    *)
MissingUntilRecorded ==
  [][\A t \in MissingDays : t \notin MissingDays' => t \in RecordedDates' \/ start' > start]_vars

(* "a change may only move business dates from today onward"               *)
(* (journal.service.ts:267): what is suggested for a day that has gone by  *)
(* stands, also for changes between midnight and eight o'clock.            *)
PastSuggestionsStand ==
  [][\A t \in Date, g \in Gross : t < today => SuggestFor(g, t)' = SuggestFor(g, t)]_vars

=============================================================================
