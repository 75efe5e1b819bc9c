------------------------------ MODULE DayPages -------------------------------
(***************************************************************************)
(* StaffTradingDayPages.tsx on one tablet: the pages that open and close   *)
(* the business day, while others open it, close it and sell, and answers  *)
(* are lost.  A close goes by an id, kept until the form changes, so that  *)
(* sending the form again does not close a day twice.  OrderCapture has    *)
(* the steps of TradingDayService, here one a request.                     *)
(***************************************************************************)
EXTENDS Integers, FiniteSets

CONSTANTS
  Date,     \* business dates: 1 .. n
  Cash,     \* what the drawer may hold, and be said to hold
  MaxIds    \* bound on the ids of attempts to close

VARIABLES
  days,     \* by date: "none", "OPEN" or "CLOSED"
  expected, \* the cash the open day expects
  closings, \* closings stored
  ids,      \* number of ids made up
  nav,      \* the workspace's business day: the menu's, for every page
  page      \* what the page keeps

vars == <<days, expected, closings, ids, nav, page>>

OpenDates == {d \in Date : days[d] = "OPEN"}
NoForm == [cash |-> -1, reason |-> "none"]
Fresh(s) == [screen |-> s, status |-> "loading", date |-> {}, expected |-> 0, form |-> NoForm, attempt |-> 0,
             confirmOpen |-> FALSE, sending |-> {}, didClose |-> FALSE, latest |-> {}]

Init ==
  /\ days = [d \in Date |-> "none"] /\ expected = 0 /\ closings = {} /\ ids = 0
  /\ nav = {} /\ page = Fresh("open")

server == <<days, expected, closings>>

Visit(s) == page' = Fresh(s) /\ page # Fresh(s) /\ UNCHANGED <<server, ids, nav>>

(* What getClosingSummary answers, for no open day too.                    *)
ClosingSummary == [date |-> OpenDates, expected |-> expected]

(* The date shown is of the open day: getCurrentBusinessDay for the page   *)
(* that opens, which also sets the menu's, and getClosingSummary for the   *)
(* one that closes.                                                        *)
Loaded ==
  /\ page.status = "loading"
  /\ page' = [page EXCEPT !.status = "ready", !.date = ClosingSummary.date, !.expected = ClosingSummary.expected]
  /\ nav' = IF page.screen = "open" THEN OpenDates ELSE nav
  /\ UNCHANGED <<server, ids>>

LoadFailed ==
  /\ page.status = "loading" /\ page' = [page EXCEPT !.status = "failed"] /\ UNCHANGED <<server, ids, nav>>
Retry ==
  /\ page.status = "failed" /\ page' = [page EXCEPT !.status = "loading"] /\ UNCHANGED <<server, ids, nav>>

(* getLatestClosing                                                        *)
LatestClosing == {d \in {c.date : c \in closings} : \A c \in closings : c.date <= d}

(* With no day to close, the closing page shows the last closed day.       *)
LatestLoaded ==
  /\ page.screen = "close" /\ page.status = "ready" /\ page.date = {} /\ page.latest = {}
  /\ LatestClosing # {} /\ page' = [page EXCEPT !.latest = LatestClosing]
  /\ UNCHANGED <<server, ids, nav>>

-----------------------------------------------------------------------------
(* The forms.                                                              *)

Idle(s) == page.screen = s /\ page.status = "ready" /\ page.sending = {}

SubmitOpen(d) ==
  /\ Idle("open") /\ page.date = {}
  /\ page' = [page EXCEPT !.sending = {[op |-> "open", date |-> d, reply |-> "none"]}]
  /\ UNCHANGED <<server, ids, nav>>

(* resetAttemptId                                                          *)
AttemptAfterEdit == 0

(* A field of the closing form changes.                                    *)
Fill(f) ==
  /\ Idle("close") /\ page.date # {} /\ ~page.confirmOpen /\ f # page.form
  /\ page' = [page EXCEPT !.form = f, !.attempt = AttemptAfterEdit]
  /\ UNCHANGED <<server, ids, nav>>

(* performClose                                                            *)
PerformClose ==
  LET id == IF page.attempt = 0 THEN ids + 1 ELSE page.attempt IN
  /\ id <= MaxIds /\ ids' = IF id > ids THEN id ELSE ids
  /\ page' = [page EXCEPT !.attempt = id,
                          !.sending = {[op |-> "close", id |-> id, form |-> page.form, reply |-> "none"]}]
  /\ UNCHANGED <<server, nav>>

(* handleSubmit: a discrepancy, as far as the page knows, is asked about.  *)
SubmitClose ==
  /\ Idle("close") /\ page.date # {} /\ page.form.cash \in Cash /\ ~page.confirmOpen
  /\ IF page.form.cash = page.expected THEN PerformClose
     ELSE page' = [page EXCEPT !.confirmOpen = TRUE] /\ UNCHANGED <<server, ids, nav>>

Confirm == Idle("close") /\ page.confirmOpen /\ PerformClose
Dismiss == Idle("close") /\ page.confirmOpen /\ page' = [page EXCEPT !.confirmOpen = FALSE]
  /\ UNCHANGED <<server, ids, nav>>

-----------------------------------------------------------------------------
(* TradingDayService.                                                      *)

MayOpen(d) == OpenDates = {} /\ days[d] = "none"

IsReplay(id) == \E c \in closings : c.id = id

(* The day that is closed is the open one, whichever the page showed; with *)
(* none open, another close may just have won, and its closing is the      *)
(* answer.                                                                 *)
Closed(id, form) ==
  /\ days' = [d \in Date |-> IF days[d] = "OPEN" THEN "CLOSED" ELSE days[d]]
  /\ closings' = closings \cup {[id |-> id, date |-> d, form |-> form, expected |-> expected] : d \in OpenDates}
  /\ expected' = 0

Reply(r, s) == page' = [page EXCEPT !.sending = {[r EXCEPT !.reply = s]}]

Serve == \E r \in page.sending :
  /\ r.reply = "none" /\ UNCHANGED <<ids, nav>>
  /\ \/ /\ r.op = "open" /\ MayOpen(r.date)
        /\ days' = [days EXCEPT ![r.date] = "OPEN"] /\ Reply(r, "ok") /\ UNCHANGED <<expected, closings>>
     \/ r.op = "open" /\ ~MayOpen(r.date) /\ Reply(r, "refused") /\ UNCHANGED server
     \/ r.op = "close" /\ IsReplay(r.id) /\ Reply(r, "ok") /\ UNCHANGED server
     \/ r.op = "close" /\ ~IsReplay(r.id) /\ OpenDates # {} /\ Closed(r.id, r.form) /\ Reply(r, "ok")
     \/ /\ r.op = "close" /\ ~IsReplay(r.id) /\ OpenDates = {} /\ UNCHANGED server
        /\ Reply(r, "refused") \/ (closings # {} /\ Reply(r, "ok"))

(* Others close with an attempt of their own, 0, open and sell.            *)
Elsewhere ==
  /\ UNCHANGED <<ids, nav, page>>
  /\ \/ OpenDates # {} /\ \E c \in Cash : Closed(0, [cash |-> c, reason |-> "none"])
     \/ \E d \in Date : MayOpen(d) /\ days' = [days EXCEPT ![d] = "OPEN"] /\ UNCHANGED <<expected, closings>>
     \/ OpenDates # {} /\ expected + 1 \in Cash /\ expected' = expected + 1 /\ UNCHANGED <<days, closings>>

-----------------------------------------------------------------------------
(* The answer, when there is one.                                          *)

(* Mutant: an attempt that failed is given up.                             *)
FailedAttempt == 0

AttemptAfterError == page.attempt

Answered == \E r \in page.sending :
  /\ r.reply # "none" /\ UNCHANGED <<server, ids>>
  /\ IF r.reply = "refused"
     THEN page' = [page EXCEPT !.sending = {}, !.confirmOpen = FALSE, !.attempt = AttemptAfterError]
       /\ UNCHANGED nav
     ELSE IF r.op = "open"
     THEN page' = [page EXCEPT !.sending = {}, !.date = {r.date}] /\ nav' = {r.date}
     ELSE page' = [page EXCEPT !.sending = {}, !.confirmOpen = FALSE, !.didClose = TRUE, !.date = {}]
       /\ nav' = {}

Lost ==
  /\ page.sending # {}
  /\ page' = [page EXCEPT !.sending = {}, !.confirmOpen = FALSE, !.attempt = AttemptAfterError]
  /\ UNCHANGED <<server, ids, nav>>

Next ==
  \/ Visit("open") \/ Visit("close") \/ Loaded \/ LoadFailed \/ Retry \/ LatestLoaded
  \/ \E d \in Date : SubmitOpen(d)
  \/ \E c \in Cash, w \in {"none", "short"} : Fill([cash |-> c, reason |-> w])
  \/ SubmitClose \/ Confirm \/ Dismiss \/ Serve \/ Answered \/ Lost \/ Elsewhere
Spec == Init /\ [][Next]_vars

-----------------------------------------------------------------------------

(* One day is open at most, and the closing page asks about one form.      *)
TypeOK ==
  /\ days \in [Date -> {"none", "OPEN", "CLOSED"}] /\ Cardinality(OpenDates) <= 1
  /\ Cardinality(page.sending) <= 1 /\ ids \in 0 .. MaxIds

(* The closing stored under the attempt the page holds has the cash and    *)
(* the reason the form shows: whatever is changed after an answer was lost *)
(* is a new attempt, since the old one would be replayed with the old      *)
(* cash and said to have closed the day.                                   *)
AttemptIsTheForm ==
  page.attempt # 0 => \A c \in closings : c.id = page.attempt => c.form = page.form

(* An unchanged form that is sent again closes no second day: an attempt,  *)
(* of whatever visit, names one closing.                                   *)
AttemptClosesOnce ==
  \A c1, c2 \in closings : c1.id = c2.id /\ c1.id # 0 => c1 = c2

(* The parts above, for the run of all tablet pages.                       *)
DayPagesInv == AttemptIsTheForm /\ AttemptClosesOnce

(* An attempt is given up when its form changes or the page is left, never *)
(* for an error: the answer that was lost may be that the day was closed,  *)
(* and the form sent again would close the next day with the same cash.    *)
AttemptsOutliveErrors ==
  [][page.attempt # 0 /\ page'.attempt # page.attempt => page'.form # page.form]_vars
==============================================================================
