----------------------------- MODULE Scheduling -----------------------------
(***************************************************************************)
(* SchedulingService.saveWeek (apps/api/src/scheduling) run by several     *)
(* administrators: the checks, then a transaction that finds the week,     *)
(* creates or updates its row, deletes its shifts and notes and inserts    *)
(* the new ones.  Meanwhile members are deactivated and Sunday comes.      *)
(* Weeks are numbers, a day is one of a week's, a note is text, and hours  *)
(* are a pair of minutes.                                                  *)
(***************************************************************************)
EXTENDS Integers

CONSTANTS
  Week,    \* week_start_date: 1 .. n
  Day,     \* the days of a week
  Staff,   \* ids of staff_members
  Hours,   \* <<start_minute, end_minute>>
  Note,    \* event notes
  Request, \* HTTP requests
  Calls    \* the weeks each request may save: [week, shifts, notes]

Shift == [day : Day, staff : Staff, hours : Hours]
DayNote == [day : Day, note : Note]

VARIABLES
  weeks,   \* schedule_weeks
  shifts,  \* schedule_shifts by week
  notes,   \* schedule_day_notes by week
  active,  \* staff_members.is_active
  current, \* the week of the shop's date
  lock,    \* the transaction that holds the week's row
  pc, arg,
  found,   \* did the transaction find the week's row
  gone     \* the rows it deleted

vars == <<weeks, shifts, notes, active, current, lock, pc, arg, found, gone>>

(* Only this week and the next can be saved.                               *)
Editable(w) == w \in {current, current + 1}

(* The week shown for w: its own, or the latest saved one before it.       *)
SourceWeek(w) ==
  IF w \in weeks THEN {w}
  ELSE {v \in weeks : v < w /\ \A u \in weeks : u < w => u <= v}

(* Mutant: whoever is in a saved week stays in it.                         *)
KeepSaved(w) == w \in weeks

(* A read-only saved week keeps everyone who worked it.                    *)
KeepInactive(w) == w \in weeks /\ ~Editable(w)

(* getWeek: notes are not carried to another week.                         *)
WeekView(w) ==
  [shifts |-> UNION {{s \in shifts[v] : KeepInactive(w) \/ s.staff \in active} :
                       v \in SourceWeek(w)},
   notes |-> IF w \in weeks THEN notes[w] ELSE {}]

MaxMinute == 1440
HoursAreValid(h) == h[1] >= 0 /\ h[1] < h[2] /\ h[2] <= MaxMinute

(* The checks of saveWeek on the days it is given.                         *)
Accepts(c) ==
  /\ \A s \in c.shifts : s.staff \in active /\ HoursAreValid(s.hours)
  /\ \A s, t \in c.shifts : s.day = t.day /\ s.staff = t.staff => s = t

-----------------------------------------------------------------------------

Empty == [shifts |-> {}, notes |-> {}]
NoArg == [week |-> 0, shifts |-> {}, notes |-> {}]
At(q, label) == pc' = [pc EXCEPT ![q] = label]

Init ==
  /\ weeks = {} /\ shifts = [w \in Week |-> {}] /\ notes = [w \in Week |-> {}]
  /\ active = Staff /\ current = 1 /\ lock = [w \in Week |-> {}]
  /\ pc = [q \in Request |-> "idle"] /\ arg = [q \in Request |-> NoArg]
  /\ found = [q \in Request |-> FALSE] /\ gone = [q \in Request |-> Empty]

Stored == <<weeks, shifts, notes>>
World == <<active, current>>

Finish(q) ==
  /\ At(q, "done")
  /\ arg' = [arg EXCEPT ![q] = NoArg] /\ found' = [found EXCEPT ![q] = FALSE]
  /\ gone' = [gone EXCEPT ![q] = Empty]

Begin(q, c) ==
  /\ pc[q] = "idle" /\ At(q, "check")
  /\ arg' = [arg EXCEPT ![q] = c]
  /\ UNCHANGED <<Stored, World, lock, found, gone>>

(* The window, the active members and the days are checked before the      *)
(* transaction.                                                            *)
Check(q) ==
  /\ pc[q] = "check"
  /\ IF Editable(arg[q].week) /\ Accepts(arg[q])
     THEN At(q, "find") /\ UNCHANGED <<arg, found, gone>>
     ELSE Finish(q)
  /\ UNCHANGED <<Stored, World, lock>>

FindWeek(q) ==
  /\ pc[q] = "find" /\ At(q, "week")
  /\ found' = [found EXCEPT ![q] = arg[q].week \in weeks]
  /\ UNCHANGED <<Stored, World, lock, arg, gone>>

(* Mutant: the transaction does not touch the week's row.                  *)
Untouched(q) == TRUE

(* Creating or updating the week's row waits for the transaction that has. *)
RowIsFree(q) == lock[arg[q].week] = {}

(* A week that was not found and exists by now is the other                *)
(* administrator's: schedule_weeks_location_id_week_start_date_key.        *)
WriteWeek(q) ==
  /\ pc[q] = "week" /\ RowIsFree(q)
  /\ IF ~found[q] /\ arg[q].week \in weeks
     THEN Finish(q) /\ UNCHANGED lock
     ELSE /\ At(q, "delete") /\ lock' = [lock EXCEPT ![arg[q].week] = {q}]
          /\ UNCHANGED <<arg, found, gone>>
  /\ UNCHANGED <<Stored, World>>

DeleteRows(q) ==
  /\ pc[q] = "delete" /\ At(q, "insert")
  /\ gone' = [gone EXCEPT ![q] = [shifts |-> shifts[arg[q].week], notes |-> notes[arg[q].week]]]
  /\ UNCHANGED <<Stored, World, lock, arg, found>>

(* One shift per person and day, one note per day.                         *)
InsertConflicts(c, left) ==
  \/ \E s \in c.shifts, t \in left.shifts : s.day = t.day /\ s.staff = t.staff
  \/ \E m \in c.notes, n \in left.notes : m.day = n.day

(* The commit, or the rollback, releases the row.                          *)
ReleaseLock(q) == [lock EXCEPT ![arg[q].week] = {}]

Commit(q) ==
  /\ pc[q] = "insert"
  /\ LET c == arg[q]
         left == [shifts |-> shifts[c.week] \ gone[q].shifts, notes |-> notes[c.week] \ gone[q].notes]
     IN IF InsertConflicts(c, left) THEN UNCHANGED Stored
        ELSE /\ weeks' = weeks \cup {c.week}
             /\ shifts' = [shifts EXCEPT ![c.week] = left.shifts \cup c.shifts]
             /\ notes' = [notes EXCEPT ![c.week] = left.notes \cup c.notes]
  /\ lock' = ReleaseLock(q)
  /\ Finish(q)
  /\ UNCHANGED World

(* StaffService deactivates a member, and restores one.                    *)
SetActive(m) ==
  /\ active' \in {active \ {m}, active \cup {m}} /\ active' # active
  /\ UNCHANGED <<Stored, current, lock, pc, arg, found, gone>>

SundayComes ==
  /\ current + 1 \in Week /\ current' = current + 1
  /\ UNCHANGED <<Stored, active, lock, pc, arg, found, gone>>

Step(q) == Check(q) \/ FindWeek(q) \/ WriteWeek(q) \/ DeleteRows(q) \/ Commit(q)
Next ==
  \/ \E q \in Request : Step(q) \/ \E c \in Calls[q] : Begin(q, c)
  \/ SundayComes \/ \E m \in Staff : SetActive(m)

Spec == Init /\ [][Next]_vars

-----------------------------------------------------------------------------

(* Weeks are numbered, and a week that is saved is one of them.            *)
CallsAreTyped == Week \subseteq Int /\ \A q \in Request : \A c \in Calls[q] : c.week \in Week

(* The ids, the rows and the lock hold what they can hold.                 *)
TypeOK ==
  /\ weeks \subseteq Week /\ shifts \in [Week -> SUBSET Shift] /\ notes \in [Week -> SUBSET DayNote]
  /\ active \subseteq Staff /\ current \in Week /\ \A w \in Week : lock[w] \subseteq Request

(* A saved week is what one administrator saved: two saves at once never   *)
(* leave a mixture of their shifts and notes (saveWeek's transaction).     *)
SavedWeekIsOneVersion ==
  \A w \in weeks : \E c \in UNION {Calls[q] : q \in Request} :
    c.week = w /\ c.shifts = shifts[w] /\ c.notes = notes[w]

(* What getWeek shows of a week that can be saved, saved or copied, is     *)
(* accepted when it is saved as it is, whoever was deactivated since.      *)
ShownWeekIsSavable ==
  \A w \in Week : Editable(w) => Accepts(WeekView(w))

(* A week holds together when administrators save it side by side.         *)
ScheduleInv == SavedWeekIsOneVersion /\ ShownWeekIsSavable

=============================================================================
