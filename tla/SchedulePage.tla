---------------------------- MODULE SchedulePage ----------------------------
(***************************************************************************)
(* SchedulePage.tsx: an administrator edits a week's shifts, saves them    *)
(* and moves between weeks while the answers to earlier requests are still *)
(* on their way.  One day stands for the seven; the server keeps per week  *)
(* what was saved last, and refuses what SchedulingService refuses.        *)
(***************************************************************************)
EXTENDS Integers, Sequences, FiniteSets

CONSTANTS
  Week,     \* weeks: 1 .. n
  Staff,    \* the members the page listed as active
  MaxEdits  \* bound on the edits

(* A draft is the list of shifts shown; even says its hours are in order.  *)
Line == [staff : Staff, valid : BOOLEAN]
NoWeek == [week |-> 0, lines |-> <<>>]

VARIABLES
  server,    \* the lines of each week as stored
  weekStart, week, loading, saving, error, notice, dirty,
  loads,     \* getScheduleWeek calls: [week, alive]
  sent,      \* the saveScheduleWeek call on its way, if any
  edits,     \* number of edits so far
  kept       \* what the last successful save stored: [week, lines]

vars == <<server, weekStart, week, loading, saving, error, notice, dirty, loads, sent,
          edits, kept>>
Ghosts == <<edits, kept>>

Init ==
  /\ server = [w \in Week |-> <<>>]
  /\ weekStart = 1 /\ week = NoWeek /\ loading = TRUE /\ saving = FALSE
  /\ error = FALSE /\ notice = FALSE /\ dirty = FALSE
  /\ loads = {[week |-> 1, alive |-> TRUE]} /\ sent = {}
  /\ edits = 0 /\ kept = NoWeek

(* goToWeek and the effect it runs: the earlier load is no longer alive.   *)
GoToWeek(w) ==
  /\ w # weekStart /\ weekStart' = w
  /\ loads' = {[l EXCEPT !.alive = FALSE] : l \in loads} \cup {[week |-> w, alive |-> TRUE]}
  /\ loading' = TRUE /\ error' = FALSE /\ notice' = FALSE /\ dirty' = FALSE
  /\ UNCHANGED <<server, week, saving, sent, edits, kept>>

IsAlive(l) == l.alive

(* The answer to a load arrives, or its failure does.                      *)
Loaded(l, ok) ==
  /\ loads' = loads \ {l}
  /\ IF IsAlive(l)
     THEN /\ week' = IF ok THEN [week |-> l.week, lines |-> server[l.week]] ELSE week
          /\ error' = IF ok THEN error ELSE TRUE
          /\ loading' = FALSE
     ELSE UNCHANGED <<week, error, loading>>
  /\ UNCHANGED <<server, weekStart, saving, notice, dirty, sent, edits, kept>>

(* Mutant: the notice of the last save stays.                              *)
KeepNotice == notice' = notice

ClearNotice == notice' = FALSE

(* updateDay                                                               *)
UpdateDay(lines) ==
  /\ ~loading /\ week # NoWeek /\ edits < MaxEdits
  /\ week' = [week EXCEPT !.lines = lines] /\ week' # week
  /\ dirty' = TRUE /\ ClearNotice /\ edits' = edits + 1
  /\ UNCHANGED <<server, weekStart, loading, saving, error, loads, sent, kept>>

OnShift(lines) == {lines[k].staff : k \in DOMAIN lines}

AddShift == \E m \in Staff \ OnShift(week.lines) :
  UpdateDay(Append(week.lines, [staff |-> m, valid |-> TRUE]))

(* updateShift: another member who is free, or other hours.                *)
UpdateShift == \E i \in DOMAIN week.lines :
  \/ \E m \in Staff \ OnShift(week.lines) : UpdateDay([week.lines EXCEPT ![i].staff = m])
  \/ UpdateDay([week.lines EXCEPT ![i].valid = ~@])

(* removeShift *)
Without(lines, i) == SubSeq(lines, 1, i - 1) \o SubSeq(lines, i + 1, Len(lines))
RemoveShift == \E i \in DOMAIN week.lines : UpdateDay(Without(week.lines, i))

(* save: a draft with a member twice or hours out of order is not sent.    *)
IsSavable(lines) ==
  Cardinality(OnShift(lines)) = Len(lines) /\ \A k \in DOMAIN lines : lines[k].valid

MayPress == week # NoWeek /\ ~saving

Save ==
  /\ MayPress
  /\ IF IsSavable(week.lines)
     THEN saving' = TRUE /\ error' = FALSE /\ sent' = sent \cup {week}
     ELSE error' = TRUE /\ UNCHANGED <<saving, sent>>
  /\ UNCHANGED <<server, weekStart, week, loading, notice, dirty, loads, Ghosts>>

(* The save's answer: the week as stored, or an error.                     *)
Answered(c, ok) ==
  /\ sent' = sent \ {c} /\ saving' = FALSE
  /\ IF ok
     THEN /\ server' = [server EXCEPT ![c.week] = c.lines]
          /\ week' = c /\ dirty' = FALSE /\ notice' = TRUE
          /\ kept' = c /\ UNCHANGED error
     ELSE error' = TRUE /\ UNCHANGED <<server, week, dirty, notice, kept>>
  /\ UNCHANGED <<weekStart, loading, loads, edits>>

Next ==
  \/ \E w \in Week : GoToWeek(w)
  \/ \E l \in loads, ok \in BOOLEAN : Loaded(l, ok)
  \/ AddShift \/ UpdateShift \/ RemoveShift \/ Save
  \/ \E c \in sent, ok \in BOOLEAN : Answered(c, ok)

Spec == Init /\ [][Next]_vars

-----------------------------------------------------------------------------

(* The page's state has the shape React gives it.                          *)
TypeOK ==
  /\ weekStart \in Week /\ week.week \in Week \cup {0} /\ week.lines \in Seq(Line)
  /\ {loading, saving, error, notice, dirty} \subseteq BOOLEAN /\ edits <= MaxEdits

(* While the page says "Schedule saved." the draft it shows is the one     *)
(* that is stored for that week (updateDay clears the notice).             *)
NoticeIsTrue == notice => server[week.week] = week.lines

(* At most one save is on its way, and saving says whether there is one:   *)
(* two could be stored in either order.                                    *)
OneSaveAtATime == Cardinality(sent) <= 1 /\ (saving <=> sent # {})

(* The page waits for nothing but the load of the week it stands at, and   *)
(* shows that it does: else it would wait for ever, with the earlier loads *)
(* abandoned, or let a stale draft be edited.                              *)
LoadingIsForTheTab ==
  /\ loading <=> \E l \in loads : l.alive
  /\ \A l \in loads : l.alive => l.week = weekStart

(* The parts above, for the run of all pages.                              *)
SchedulePageInv == NoticeIsTrue /\ OneSaveAtATime /\ LoadingIsForTheTab

(* The page comes to show a week other than the one its heading names only *)
(* as the answer to a save: the answer to an earlier load is not shown.    *)
LoadsAreForTheTab ==
  [][week'.week # week.week => week'.week = weekStart \/ week' = kept']_vars
==============================================================================
