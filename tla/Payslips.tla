------------------------------- MODULE Payslips -------------------------------
(***************************************************************************)
(* Compensation of one staff member (apps/api/src/compensation): the       *)
(* entries of the work dates, the adjustments, and the commission rates by *)
(* the date from which they hold, and the payslip that is made of them.    *)
(* Every write is one statement or one transaction, and the unique indexes *)
(* on work date and effective date decide between two of them.             *)
(***************************************************************************)
EXTENDS Suggestions, FiniteSets, FiniteSetsExt

CONSTANTS
  Date,        \* dates: 1 .. n
  Adjustment,  \* ids of adjustments
  Description, \* descriptions up to case and blanks
  Pay          \* salaries, commissions and amounts of adjustments

CompensationAdjustmentKind == {"ALLOWANCE", "BONUS", "ADVANCE"}
LOAD == CHOOSE d \in Description : TRUE \* ALLOWANCE_DESCRIPTION_PRESETS[0]

VARIABLES
  entry,      \* staff_compensation_entries by work date
  adjustment, \* staff_compensation_adjustments
  rate        \* staff_commission_rates by effective date

vars == <<entry, adjustment, rate>>

Entry == [salary : Pay, commission : Pay, personal : Pay]
Row == [kind : CompensationAdjustmentKind, date : Date, amount : Pay, description : Description]
NoRow == [kind |-> "none"]
Adjusted == {a \in Adjustment : adjustment[a] # NoRow}
Unused == Adjustment \ Adjusted

Init ==
  /\ entry = [t \in Date |-> {}] /\ rate = [t \in Date |-> {}]
  /\ adjustment = [a \in Adjustment |-> NoRow]

(* The allowance a create adds to its entry: the row, if one is asked for. *)
Loaded(t, load) ==
  IF load = {} THEN {adjustment}
  ELSE {[adjustment EXCEPT ![a] = [kind |-> "ALLOWANCE", date |-> t, description |-> LOAD,
                                   amount |-> CHOOSE p \in load : TRUE]] : a \in Unused}

(* create: the entry and its allowance in one transaction.                 *)
Created(t, e, load) ==
  IF entry[t] # {} THEN UNCHANGED <<entry, adjustment>>
  ELSE entry' = [entry EXCEPT ![t] = {e}] /\ adjustment' \in Loaded(t, load)

Create(t, e, load) == Created(t, e, load) /\ UNCHANGED rate

Updated(old, s, c, personal) ==
  [salary |-> s, commission |-> c,
   personal |-> IF personal = {} THEN old.personal ELSE CHOOSE p \in personal : TRUE]

(* update: a personal commission that is not given stays.                  *)
Update(t, s, c, personal) ==
  /\ entry[t] # {}
  /\ entry' = [entry EXCEPT ![t] = {Updated(old, s, c, personal) : old \in @}]
  /\ UNCHANGED <<adjustment, rate>>

Remove(t) ==
  /\ entry[t] # {} /\ entry' = [entry EXCEPT ![t] = {}]
  /\ UNCHANGED <<adjustment, rate>>

CreateAdjustment(a, r) ==
  /\ a \in Unused /\ adjustment' = [adjustment EXCEPT ![a] = r]
  /\ UNCHANGED <<entry, rate>>
(* The kind stays what it was.                                             *)
UpdateAdjustment(a, t, p, d) ==
  /\ a \in Adjusted
  /\ adjustment' = [adjustment EXCEPT ![a] = [@ EXCEPT !.date = t, !.amount = p, !.description = d]]
  /\ UNCHANGED <<entry, rate>>
RemoveAdjustment(a) ==
  /\ a \in Adjusted /\ adjustment' = [adjustment EXCEPT ![a] = NoRow]
  /\ UNCHANGED <<entry, rate>>

UpsertCommissionRate(t, r) ==
  /\ rate' = [rate EXCEPT ![t] = {r}] /\ UNCHANGED <<entry, adjustment>>
RemoveCommissionRate(t) ==
  /\ rate[t] # {} /\ rate' = [rate EXCEPT ![t] = {}] /\ UNCHANGED <<entry, adjustment>>

Next ==
  \/ \E t \in Date, e \in Entry, load \in {{}} \cup {{p} : p \in Pay} : Create(t, e, load)
  \/ \E t \in Date, s, c \in Pay, personal \in {{}} \cup {{p} : p \in Pay} : Update(t, s, c, personal)
  \/ \E t \in Date : Remove(t) \/ RemoveCommissionRate(t)
  \/ \E a \in Adjustment : RemoveAdjustment(a) \/ \E r \in Row : CreateAdjustment(a, r)
  \/ \E a \in Adjustment, t \in Date, p \in Pay, d \in Description : UpdateAdjustment(a, t, p, d)
  \/ \E t \in Date, r \in Rate : UpsertCommissionRate(t, r)

Spec == Init /\ [][Next]_vars

-----------------------------------------------------------------------------
(* getPayslip from one date to another.                                    *)

AdjustmentsIn(from, to) == {a \in Adjusted : adjustment[a].date \in from .. to}

AmountOf(a) == adjustment[a].amount
SumAdjustments(S, kind) == MapThenSumSet(AmountOf, {a \in S : adjustment[a].kind = kind})

GroupKey(a) == <<adjustment[a].kind, adjustment[a].description>>
(* groupAdjustments: a group has the kind of its first adjustment.         *)
Groups(S) ==
  {[kind |-> adjustment[CHOOSE a \in g : TRUE].kind, total |-> MapThenSumSet(AmountOf, g), of |-> g] :
     g \in {{b \in S : GroupKey(b) = GroupKey(a)} : a \in S}}

DailyTotal(t) ==
  LET Pays(e) == e.salary + e.commission + e.personal IN MapThenSumSet(Pays, entry[t])
GrandTotal(from, to) == MapThenSumSet(DailyTotal, from .. to)
NetPayable(from, to) ==
  LET S == AdjustmentsIn(from, to) IN
  GrandTotal(from, to) + SumAdjustments(S, "ALLOWANCE") + SumAdjustments(S, "BONUS")
    - SumAdjustments(S, "ADVANCE")

(* findLastIndex, of the rates that hold from a date up to the first day.  *)
UpTo(from) == {t \in Date : t <= from /\ rate[t] # {}}
(* Mutant: every earlier rate is shown.                                    *)
AllUpTo(from) == UpTo(from)
Baseline(from) == {t \in UpTo(from) : \A u \in UpTo(from) : u <= t}
PersonalCommissionRates(from, to) ==
  {t \in Date : t <= to /\ rate[t] # {} /\ (t \in Baseline(from) \/ t > from)}

(* getDailyGrossSuggestion: the rate in force on a work date.              *)
RateInForce(d) == {t \in UpTo(d) : \A u \in UpTo(d) : u <= t}

-----------------------------------------------------------------------------

(* The groups that the payslip lists account for what is paid: each        *)
(* adjustment is in one of them, and with the daily totals they add up to  *)
(* the net amount.                                                         *)
GroupsAddUp ==
  \A from, to \in Date :
    LET S == AdjustmentsIn(from, to)
        Signed(g) == IF g.kind = "ADVANCE" THEN -g.total ELSE g.total IN
    /\ \A a \in S : Cardinality({g \in Groups(S) : a \in g.of}) = 1
    /\ NetPayable(from, to) = GrandTotal(from, to) + MapThenSumSet(Signed, Groups(S))

(* The rates a payslip shows are those by which its days' commissions were *)
(* suggested, and no others.                                               *)
RatesShownAreInForce ==
  \A from, to \in Date : from <= to =>
    PersonalCommissionRates(from, to) = UNION {RateInForce(d) : d \in from .. to}

(* A payslip explains what it pays (compensation.service.ts, getPayslip).  *)
PayslipInv == GroupsAddUp /\ RatesShownAreInForce
==============================================================================
