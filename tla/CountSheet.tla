----------------------------- MODULE CountSheet ------------------------------
(***************************************************************************)
(* StaffInventoryPages.tsx on one tablet: the form of an opening count,    *)
(* with its fills from the last closing count, and the list of deliveries  *)
(* and wastage.  Other tablets count too, items leave the sheet, answers   *)
(* are lost, and the page is left and opened again.  StockCounts has the   *)
(* steps of the server, here one a request.                                *)
(***************************************************************************)
EXTENDS Integers, Sequences, FiniteSets

CONSTANTS
  Item,       \* inventory items
  Clearable,  \* those counted by quantity: a level cannot be cleared
  Typed,      \* counts that are typed
  LastClosing,\* the counts of the last closing count, by item
  MaxCounts,  \* bound on the counts and movements stored
  MaxEdits    \* bound on what is typed, noted and filled

VARIABLES
  active,   \* items on the sheet, by the server
  counts,   \* counts stored: lines by item, with notes, and the count each corrects
  moves,    \* number of movements stored
  screen,   \* "count" or "movements"
  page,     \* what the screen keeps
  edits     \* number of edits so far

vars == <<active, counts, moves, screen, page, edits>>

Blank == [i \in Item |-> ""]
NoDraft(p) == [p EXCEPT !.values = Blank, !.fillState = Blank, !.itemNotes = Blank]

-----------------------------------------------------------------------------
(* Loading: what the page has before it is answered.                       *)

Fresh == [values |-> Blank, fillState |-> Blank, itemNotes |-> Blank, status |-> "loading", items |-> {},
          submitted |-> 0, recordingAnother |-> FALSE, sending |-> {}, entries |-> <<>>]

Init ==
  /\ active = Item /\ counts = <<>> /\ moves = 0 /\ screen = "count"
  /\ page = Fresh /\ edits = 0

(* The screen is left, or opened again: what it still sent is made          *)
(* elsewhere from here on.                                                 *)
Open(s) == screen' = s /\ page' = Fresh /\ page # Fresh /\ UNCHANGED <<active, counts, moves, edits>>

(* StockCountsService.sheet and StockMovementsService.list: the page shows *)
(* the latest count, and the movements newest first.                       *)
Loaded ==
  /\ page.status = "loading"
  /\ page' = [page EXCEPT !.status = "ready", !.items = active, !.submitted = Len(counts),
                          !.entries = [k \in 1 .. moves |-> moves - k + 1]]
  /\ UNCHANGED <<active, counts, moves, screen, edits>>

LoadFailed ==
  /\ page.status = "loading" /\ page' = [page EXCEPT !.status = "failed"]
  /\ UNCHANGED <<active, counts, moves, screen, edits>>

Retry ==
  /\ page.status = "failed" /\ page' = [page EXCEPT !.status = "loading"]
  /\ UNCHANGED <<active, counts, moves, screen, edits>>

-----------------------------------------------------------------------------
(* The form.  It is shown when no count is, and while another is recorded. *)

IsShown == screen = "count" /\ page.status = "ready" /\ (page.submitted = 0 \/ page.recordingAnother)
Edit ==
  /\ IsShown /\ page.sending = {} /\ edits < MaxEdits /\ edits' = edits + 1
  /\ UNCHANGED <<active, counts, moves, screen>>

(* Mutant: clearing a count leaves its note.                               *)
NoteKept(i, v) == page.itemNotes[i]

NoteAfter(i, v) == IF v = "" THEN "" ELSE page.itemNotes[i]

(* changeCountValue, and the note that goes with a count that is cleared.  *)
ChangeValue(i, v) ==
  /\ Edit /\ i \in page.items /\ v # page.values[i]
  /\ v = "" => i \in Clearable
  /\ page' = [page EXCEPT !.values[i] = v, !.fillState[i] = "touched", !.itemNotes[i] = NoteAfter(i, v)]

ChangeNote(i) ==
  /\ Edit /\ i \in page.items /\ page.values[i] # "" /\ page.itemNotes[i] = ""
  /\ page' = [page EXCEPT !.itemNotes[i] = "note"]

IsFillable(i) ==
  i \in page.items \cap DOMAIN LastClosing /\ page.values[i] = "" /\ page.fillState[i] # "touched"

Filled(S) ==
  [page EXCEPT !.values = [i \in Item |-> IF i \in S THEN LastClosing[i] ELSE @[i]],
               !.fillState = [i \in Item |-> IF i \in S THEN "filled" ELSE @[i]]]

(* fillAllFromLastClosing and fillItemFromLastClosing                      *)
FillAll == Edit /\ page' = Filled({i \in Item : IsFillable(i)})
FillItem(i) == Edit /\ IsFillable(i) /\ page' = Filled({i})

RecordAnother ==
  /\ screen = "count" /\ page.status = "ready" /\ page.submitted # 0 /\ ~page.recordingAnother
  /\ page' = NoDraft([page EXCEPT !.recordingAnother = TRUE])
  /\ UNCHANGED <<active, counts, moves, screen, edits>>

(* toCountLines: only an item that is counted has a line.                  *)
Lines ==
  [i \in {j \in page.items : page.values[j] # ""} |-> [value |-> page.values[i], note |-> page.itemNotes[i]]]

Corrects == IF page.recordingAnother THEN page.submitted ELSE 0

(* handleSubmit                                                            *)
Submit ==
  /\ IsShown /\ page.sending = {} /\ DOMAIN Lines # {}
  /\ page' = [page EXCEPT !.sending = {[lines |-> Lines, corrects |-> Corrects, reply |-> "none", id |-> 0]}]
  /\ UNCHANGED <<active, counts, moves, screen, edits>>

-----------------------------------------------------------------------------
(* The server, and what happens to its answers.                            *)

IsAccepted(r) ==
  /\ DOMAIN r.lines \subseteq active
  /\ r.corrects # 0 => \A k \in DOMAIN counts : counts[k].corrects # r.corrects

Stored(r) == Append(counts, [lines |-> r.lines, corrects |-> r.corrects])

ServeCount == \E r \in page.sending :
  /\ screen = "count" /\ r.reply = "none" /\ Len(counts) < MaxCounts
  /\ IF IsAccepted(r)
     THEN /\ counts' = Stored(r)
          /\ page' = [page EXCEPT !.sending = {[r EXCEPT !.reply = "ok", !.id = Len(counts) + 1]}]
     ELSE page' = [page EXCEPT !.sending = {[r EXCEPT !.reply = "refused"]}] /\ UNCHANGED counts
  /\ UNCHANGED <<active, moves, screen, edits>>

(* The count that was stored is shown and the draft is gone; after an      *)
(* error the draft stays, to be sent again.                                *)
CountAnswered(lost) == \E r \in page.sending :
  /\ screen = "count" /\ (r.reply = "none" => lost)
  /\ page' = IF r.reply = "ok" /\ ~lost
             THEN NoDraft([page EXCEPT !.sending = {}, !.submitted = r.id, !.recordingAnother = FALSE])
             ELSE [page EXCEPT !.sending = {}]
  /\ UNCHANGED <<active, counts, moves, screen, edits>>

(* StockMovementsPage.handleSubmit: a movement that was stored heads the   *)
(* list; one whose answer was lost is only there after the next load.      *)
SendMovement ==
  /\ screen = "movements" /\ page.status = "ready" /\ page.sending = {}
  /\ page' = [page EXCEPT !.sending = {[reply |-> "none", id |-> 0]}]
  /\ UNCHANGED <<active, counts, moves, screen, edits>>

ServeMovement == \E r \in page.sending :
  /\ screen = "movements" /\ r.reply = "none" /\ moves < MaxCounts /\ moves' = moves + 1
  /\ page' = [page EXCEPT !.sending = {[reply |-> "ok", id |-> moves + 1]}]
  /\ UNCHANGED <<active, counts, screen, edits>>

MovementAnswered(lost) == \E r \in page.sending :
  /\ screen = "movements" /\ (r.reply = "none" => lost)
  /\ page' = [page EXCEPT !.sending = {}, !.entries = IF lost THEN @ ELSE <<r.id>> \o @]
  /\ UNCHANGED <<active, counts, moves, screen, edits>>

(* Other tablets, and the administrator.                                   *)
CountedElsewhere == \E c \in 0 .. Len(counts) : \E i \in active, v \in Typed :
  LET r == [lines |-> [j \in {i} |-> [value |-> v, note |-> ""]], corrects |-> c] IN
  /\ Len(counts) < MaxCounts /\ IsAccepted(r) /\ counts' = Stored(r)
  /\ UNCHANGED <<active, moves, screen, page, edits>>

MovedElsewhere == moves < MaxCounts /\ moves' = moves + 1 /\ UNCHANGED <<active, counts, screen, page, edits>>
Deactivate(i) == i \in active /\ active' = active \ {i} /\ UNCHANGED <<counts, moves, screen, page, edits>>

Next ==
  \/ Open("count") \/ Open("movements") \/ Loaded \/ LoadFailed \/ Retry
  \/ \E i \in Item :
       ChangeNote(i) \/ FillItem(i) \/ Deactivate(i) \/ \E v \in Typed \cup {""} : ChangeValue(i, v)
  \/ FillAll \/ RecordAnother \/ Submit \/ SendMovement
  \/ ServeCount \/ ServeMovement \/ CountedElsewhere \/ MovedElsewhere
  \/ \E lost \in BOOLEAN : CountAnswered(lost) \/ MovementAnswered(lost)
Spec == Init /\ [][Next]_vars

-----------------------------------------------------------------------------

(* A form is only filled in for a count of its own.                        *)
TypeOK == page.fillState \in [Item -> {"", "filled", "touched"}] /\ Cardinality(page.sending) <= 1

(* A note is only shown beside a count: the request has no line for an     *)
(* item that is not counted, so the note would be dropped unseen.          *)
NotesAreSent == \A i \in Item : page.itemNotes[i] # "" => page.values[i] # ""

(* A count marked as coming from the last closing count is the one of that *)
(* count: whatever is typed over it, or cleared, takes the mark away.      *)
MarksAreTrue == \A i \in Item : page.fillState[i] = "filled" => page.values[i] = LastClosing[i]

(* A count recorded as another one is stored as a correction of the one    *)
(* that was shown, whose number stays until it is answered.                *)
AnotherIsACorrection ==
  \A r \in page.sending : screen = "count" /\ page.submitted # 0 => r.corrects = page.submitted

(* The movements shown are stored ones, each once, newest first.           *)
EntriesAreStored ==
  /\ \A j, k \in DOMAIN page.entries : j < k => page.entries[j] > page.entries[k]
  /\ \A j \in DOMAIN page.entries : page.entries[j] <= moves

(* The parts above, for the run of all tablet pages.                       *)
CountSheetInv == NotesAreSent /\ MarksAreTrue /\ AnotherIsACorrection /\ EntriesAreStored

(* A field that was typed in is never filled: it is touched until the form *)
(* is emptied.                                                             *)
TouchedFieldsAreKept ==
  [][\A i \in Item : page.fillState[i] = "touched" /\ page'.fillState[i] # "touched"
     => page'.fillState = Blank]_vars
==============================================================================
