---------------------------- MODULE ReportPages -----------------------------
(***************************************************************************)
(* The owner's reports (apps/web/src/reporting): ReportsPage.tsx and       *)
(* ExpensesReportPage.tsx, of a range of dates, and                        *)
(* DailyInventoryReportPage.tsx, of one date, with what the service reads  *)
(* for it.  One of them is open, as route says: what is on its way to one  *)
(* that was left is dropped.  Each count has one line, of the same item.   *)
(***************************************************************************)
EXTENDS Integers, FiniteSets

CONSTANTS
  Date,
  Traded,    \* the dates that were business days
  Counted,   \* those that staff count on
  PageSize,  \* of the reconciliation table
  MaxCounts, \* bound on the counts that are stored
  MaxLoads,  \* and on the daily reports on their way
  MaxMoves   \* bound on what is done at the page

VARIABLES
  route,  \* "reports", "expenses" or "inventory"
  ranged, \* the state of a page of a range
  daily,  \* that of the page of a date
  counts, \* stored: [id, day, phase, corrects, noted]
  moves

vars == <<route, ranged, daily, counts, moves>>

(* What a page of a range starts with.  applied and exported are history:  *)
(* the range last asked for, and whether an export was begun since then.   *)
Default ==
  [from |-> CHOOSE d \in Date : \A e \in Date : d <= e,
   to |-> CHOOSE d \in Date : \A e \in Date : d >= e]
FreshRange(isOpen) ==
  [typed |-> Default, report |-> {}, loads |-> IF isOpen THEN {Default} ELSE {}, loading |-> isOpen,
   error |-> FALSE, page |-> 1, exporting |-> FALSE, scope |-> "range", products |-> FALSE,
   allTimeLoading |-> FALSE, allTimeError |-> FALSE, applied |-> Default, exported |-> FALSE]

(* A daily report on its way: what the service has read for it so far, and *)
(* the notes that were stored when it was asked for.                       *)
On(d) == {c \in counts : c.day = d}
Ask(d) == [of |-> d, current |-> TRUE, restock |-> {}, notes |-> {}, asked |-> {c \in On(d) : c.noted}]
FreshDaily(isOpen) ==
  [date |-> Default.to, report |-> {}, loads |-> IF isOpen THEN {Ask(Default.to)} ELSE {},
   loading |-> isOpen, error |-> FALSE]

Init ==
  /\ route \in {"reports", "expenses", "inventory"} /\ counts = {} /\ moves = 0
  /\ ranged = FreshRange(route # "inventory") /\ daily = FreshDaily(route = "inventory")

Moved == moves < MaxMoves /\ moves' = moves + 1

Ranged(state) == ranged' = state /\ UNCHANGED <<route, daily, counts>>
Daily(state) == daily' = state /\ UNCHANGED <<route, ranged, counts>>

-----------------------------------------------------------------------------
(* Reports of a range.                                                     *)

(* rangeError: "" is a date that is not chosen.                            *)
IsRange(range) == 0 \notin {range.from, range.to} /\ range.from <= range.to

Type(range) == Moved /\ range # ranged.typed /\ Ranged([ranged EXCEPT !.typed = range])

MayApply == ~ranged.loading

ApplyRange ==
  /\ Moved /\ IsRange(ranged.typed) /\ MayApply
  /\ Ranged([ranged EXCEPT !.loads = @ \cup {ranged.typed}, !.loading = TRUE, !.error = FALSE, !.page = 1,
                           !.applied = ranged.typed, !.exported = FALSE])

ReportAnswered(range) ==
  Ranged([ranged EXCEPT !.loads = @ \ {range}, !.loading = FALSE, !.report = {range}]) /\ UNCHANGED moves
ReportFailed(range) ==
  Ranged([ranged EXCEPT !.loads = @ \ {range}, !.loading = FALSE, !.error = TRUE]) /\ UNCHANGED moves

(* The CSV is that of the range typed; an error it meets is shown in the   *)
(* place of a report's.                                                    *)
ExportCsv ==
  /\ Moved /\ IsRange(ranged.typed) /\ ~ranged.exporting
  /\ Ranged([ranged EXCEPT !.exporting = TRUE, !.error = FALSE, !.exported = TRUE])
Exported(failed) ==
  ranged.exporting /\ Ranged([ranged EXCEPT !.exporting = FALSE, !.error = @ \/ failed]) /\ UNCHANGED moves

RowsOf(range) == Cardinality({d \in Traded : range.from <= d /\ d <= range.to})
PagesOf(rows) == IF rows = 0 THEN 1 ELSE (rows + PageSize - 1) \div PageSize

(* Mutant: the page chosen is shown, whatever report it was chosen in.     *)
AsChosen(rows) == ranged.page

CurrentPage(rows) == IF ranged.page <= PagesOf(rows) THEN ranged.page ELSE PagesOf(rows)

VisibleRows(rows) ==
  {n \in 1 .. rows : n > (CurrentPage(rows) - 1) * PageSize /\ n <= CurrentPage(rows) * PageSize}
ChangePage(range, step) ==
  /\ Moved /\ CurrentPage(RowsOf(range)) + step \in 1 .. PagesOf(RowsOf(range))
  /\ Ranged([ranged EXCEPT !.page = CurrentPage(RowsOf(range)) + step])

(* Sales of all time are loaded when they are first asked for, and kept.   *)
ChangeScope(scope) ==
  /\ Moved /\ scope # ranged.scope
  /\ Ranged(IF scope = "allTime" /\ ~ranged.products /\ ~ranged.allTimeLoading
            THEN [ranged EXCEPT !.scope = scope, !.allTimeLoading = TRUE, !.allTimeError = FALSE]
            ELSE [ranged EXCEPT !.scope = scope])
AllTimeAnswered ==
  /\ ranged.allTimeLoading /\ Ranged([ranged EXCEPT !.allTimeLoading = FALSE, !.products = TRUE])
  /\ UNCHANGED moves

AllTimeFailed ==
  /\ ranged.allTimeLoading /\ Ranged([ranged EXCEPT !.allTimeLoading = FALSE, !.allTimeError = TRUE])
  /\ UNCHANGED moves

ProductsShown ==
  IF ranged.scope = "range" THEN "range"
  ELSE IF ranged.allTimeLoading THEN "loading" ELSE IF ranged.allTimeError THEN "error" ELSE "allTime"

-----------------------------------------------------------------------------
(* The report of a date.                                                   *)

(* A count is stored; it may correct one of its phase that none corrects.  *)
Leaves(set) == {c \in set : ~\E d \in set : d.corrects = c.id}
Count(d, phase, noted) ==
  /\ Cardinality(counts) < MaxCounts
  /\ \E corrected \in {0} \cup {c.id : c \in {l \in Leaves(On(d)) : l.phase = phase}} :
       counts' = counts \cup {[id |-> Cardinality(counts) + 1, day |-> d, phase |-> phase,
                               corrects |-> corrected, noted |-> noted]}
  /\ UNCHANGED <<route, ranged, daily, moves>>

(* getStatusForDay: the last closing count in force, else the opening one. *)
InForce(set) ==
  LET phase == IF \E c \in set : c.phase = "close" THEN "close" ELSE "open"
      inForce == {c \in Leaves(set) : c.phase = phase}
  IN {c \in inForce : \A d \in inForce : d.id <= c.id}

(* getDailyInventory reads the restock needs and the notes side by side.   *)
ReadRestock(l) ==
  /\ l.restock = {} /\ UNCHANGED moves
  /\ Daily([daily EXCEPT !.loads = (@ \ {l}) \cup {[l EXCEPT !.restock = {InForce(On(l.of))}]}])
ReadNotes(l) ==
  /\ l.notes = {} /\ UNCHANGED moves
  /\ Daily([daily EXCEPT !.loads = (@ \ {l}) \cup {[l EXCEPT !.notes = {{c \in On(l.of) : c.noted}}]}])

(* Clearing the date, 0, leaves what was loaded.                           *)
ChooseDate(d) ==
  /\ Moved /\ d # daily.date /\ Cardinality(daily.loads) < MaxLoads
  /\ Daily([daily EXCEPT !.date = d, !.loading = d # 0, !.error = d = 0,
                         !.loads = {[l EXCEPT !.current = FALSE] : l \in @} \cup {Ask(e) : e \in {d} \ {0}}])

IsCurrent(l) == l.current

DailyAnswered(l) ==
  /\ l.restock # {} /\ l.notes # {} /\ UNCHANGED moves
  /\ Daily(IF IsCurrent(l) THEN [daily EXCEPT !.loads = @ \ {l}, !.loading = FALSE, !.report = {l}]
           ELSE [daily EXCEPT !.loads = @ \ {l}])
DailyFailed(l) ==
  /\ UNCHANGED moves
  /\ Daily(IF IsCurrent(l) THEN [daily EXCEPT !.loads = @ \ {l}, !.loading = FALSE, !.error = TRUE]
           ELSE [daily EXCEPT !.loads = @ \ {l}])

TableOf(r) == UNION r.restock
NotesOf(r) == UNION r.notes

(* RestockNeedsPanel: what is enough is hidden unless all is to be shown;  *)
(* the notes in the rows shown, and how many hidden ones there are.        *)
TableNotes(r, isHidden) == {c \in TableOf(r) : c.noted /\ ~isHidden}
HiddenNoted(r, isHidden) == IF isHidden THEN Cardinality({c \in TableOf(r) : c.noted}) ELSE 0

(* Mutant: the notes of all counts of the table's phase are left to it.    *)
PhaseNotes(r) == {c \in NotesOf(r) : \A t \in TableOf(r) : c.phase # t.phase}

(* CountNotesPanel leaves out the notes of the count the table is of.      *)
PanelNotes(r) == {c \in NotesOf(r) : c \notin TableOf(r)}

-----------------------------------------------------------------------------

Next ==
  \/ /\ route # "inventory"
     /\ \/ \E from, to \in Date \cup {0} : Type([from |-> from, to |-> to])
        \/ ApplyRange
        \/ \E range \in ranged.loads : ReportAnswered(range) \/ ReportFailed(range)
  \/ /\ route = "reports"
     /\ \/ ExportCsv
        \/ \E failed \in BOOLEAN : Exported(failed)
        \/ \E range \in ranged.report :
             \/ \E step \in {-1, 1} : ChangePage(range, step)
             \/ \E scope \in {"range", "allTime"} : ChangeScope(scope)
        \/ AllTimeAnswered \/ AllTimeFailed
  \/ /\ route = "inventory"
     /\ \/ \E d \in Date \cup {0} : ChooseDate(d)
        \/ \E l \in daily.loads : ReadRestock(l) \/ ReadNotes(l) \/ DailyAnswered(l) \/ DailyFailed(l)
        \/ \E d \in Counted, phase \in {"open", "close"}, noted \in BOOLEAN : Count(d, phase, noted)
Spec == Init /\ [][Next]_vars

-----------------------------------------------------------------------------

(* A page that neither loads nor tells of an error shows what was asked    *)
(* for, unless an export took its error away.                              *)
ReportIsCurrent ==
  IF route = "inventory" THEN ~daily.loading /\ ~daily.error => {r.of : r \in daily.report} = {daily.date}
  ELSE ~ranged.loading /\ ~ranged.error /\ ~ranged.exported => ranged.report = {ranged.applied}

(* A reconciliation that has rows shows some, whatever page was chosen in  *)
(* the report that was shown before it.                                    *)
PageHasRows == \A range \in ranged.report : RowsOf(range) > 0 => VisibleRows(RowsOf(range)) # {}

(* Sales of all time that were never loaded are not shown as no sales.     *)
AllTimeIsLoaded == ProductsShown = "allTime" => ranged.products

(* An item's note that was stored when the report was asked for is in the  *)
(* table or in the panel, or it is one of the hidden ones that the panel   *)
(* counts: also when a count is stored between the reads of one report.    *)
NotesAreAccountedFor ==
  \A r \in daily.report, isHidden \in BOOLEAN :
    Cardinality(r.asked \ (TableNotes(r, isHidden) \cup PanelNotes(r))) <= HiddenNoted(r, isHidden)

ReportPagesInv == ReportIsCurrent /\ PageHasRows /\ AllTimeIsLoaded /\ NotesAreAccountedFor
=============================================================================
