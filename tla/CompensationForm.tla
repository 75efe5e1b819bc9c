-------------------------- MODULE CompensationForm --------------------------
(***************************************************************************)
(* CompensationPage.tsx: the form for a day's record of a member of the    *)
(* staff.  Its amounts are suggested, the salary by the member, the        *)
(* commissions by an answer of the server for the day and the member,      *)
(* until they are typed over; a commission can be split in two.            *)
(* The warning about a second load allowance refuses nothing and is left   *)
(* out.                                                                    *)
(***************************************************************************)
EXTENDS Integers, FiniteSets

CONSTANTS
  Staff, Date, Today,
  Base,          \* by member, the base salary: a set of at most one amount
  ShopShare,     \* by date, the commission suggested for each member
  PersonalShare, \* by member, then by date, the personal commission suggested
  Typed,         \* amounts that are typed
  MaxMoves       \* bound on what the administrator does

VARIABLES
  stored,   \* the server's records: pairs of member and date
  entries,  \* the records the page lists
  form,     \* the form, if one is open: [entry, staff, date, amount]
  dirty, source, \* the amounts that were typed, and those marked as suggested
  gross,    \* the last suggestion: "none", "loading", "ready" or "error"
  split,    \* the commission before the last split
  conflict, saving,
  asks,     \* getDailyGrossSuggestion on its way: [staff, date, current]
  sent,     \* the save on its way: [staff, date, new, answer]
  moves

vars == <<stored, entries, form, dirty, source, gross, split, conflict, saving, asks, sent, moves>>

Field == {"salary", "commission", "personal"}
Shared == {"commission", "personal"}

Init ==
  /\ stored \in SUBSET (Staff \X Date) /\ Cardinality(stored) <= 1 /\ entries = stored
  /\ form = {} /\ dirty = {} /\ source = {} /\ gross = "none" /\ split = {}
  /\ conflict = FALSE /\ saving = FALSE
  /\ asks = {} /\ sent = {} /\ moves = 0

(* What is suggested for a date and the members chosen, at most one.       *)
Suggested(members, d) ==
  [commission |-> {ShopShare[d]},
   personal |-> IF members = {} THEN {0} ELSE {PersonalShare[s][d] : s \in members}]

IsNew(f) == ~f.entry

-----------------------------------------------------------------------------

Key(fs) == {<<f.staff, f.date>> : f \in {g \in fs : IsNew(g)}}

(* The form, the effect that asks for its suggestion, and the marks left.  *)
Edited(fs, marks) ==
  /\ form' = fs
  /\ IF Key(fs) = Key(form) THEN source' = marks /\ UNCHANGED <<gross, asks>>
     ELSE LET given == {[a EXCEPT !.current = FALSE] : a \in asks}
          IN IF Key(fs) = {} THEN gross' = "none" /\ source' = marks /\ asks' = given
             ELSE /\ gross' = "loading" /\ source' = marks \ Shared
                  /\ asks' = given \cup {[staff |-> f.staff, date |-> f.date, current |-> TRUE] : f \in fs}

Moved == moves < MaxMoves /\ moves' = moves + 1

OpenAdd ==
  /\ form = {} /\ Moved
  /\ Edited({[entry |-> FALSE, staff |-> {}, date |-> Today, amount |-> [x \in Field |-> {}]]}, {})
  /\ dirty' = {} /\ split' = {} /\ conflict' = FALSE /\ UNCHANGED <<stored, entries, saving, sent>>

(* From the list, or from the conflict that names it.                      *)
OpenEdit(e) ==
  /\ form = {} \/ (conflict /\ ~saving /\ \E f \in form : f.staff = {e[1]} /\ f.date = e[2])
  /\ Moved /\ \E a \in Typed :
       Edited({[entry |-> TRUE, staff |-> {e[1]}, date |-> e[2], amount |-> [x \in Field |-> {a}]]}, {})
  /\ dirty' = {} /\ conflict' = FALSE /\ UNCHANGED <<stored, entries, split, saving, sent>>

CloseEditor ==
  /\ form # {} /\ ~saving /\ Edited({}, source) /\ conflict' = FALSE
  /\ UNCHANGED <<stored, entries, dirty, split, saving, sent, moves>>

(* changeDraft of the member: the day's commission is known already, the   *)
(* member's own is asked for.                                              *)
ChooseStaff(f, s) ==
  /\ IsNew(f) /\ ~saving /\ f.staff # {s} /\ Moved
  /\ Edited({[f EXCEPT !.staff = {s},
                !.amount = [salary |-> Base[s], personal |-> {},
                            commission |-> IF gross = "ready" THEN Suggested({}, f.date).commission ELSE @.commission]]},
            (IF Base[s] # {} THEN {"salary"} ELSE {}) \cup (IF gross = "ready" THEN {"commission"} ELSE {}))
  /\ dirty' = {} /\ split' = {} /\ conflict' = FALSE /\ UNCHANGED <<stored, entries, saving, sent>>

ChooseDate(f, d) ==
  /\ IsNew(f) /\ ~saving /\ f.date # d /\ Moved
  /\ Edited({[f EXCEPT !.date = d, !.amount.commission = {}, !.amount.personal = {}]}, source \ Shared)
  /\ dirty' = {} /\ split' = {} /\ conflict' = FALSE /\ UNCHANGED <<stored, entries, saving, sent>>

(* Mutant: a split can be undone whatever was typed after it.              *)
KeptSplit(x) == split

SplitAfter(x) == IF x = "commission" THEN {} ELSE split

Set(f, x, a) ==
  /\ Edited({[f EXCEPT !.amount[x] = {a}]}, source \ {x})
  /\ dirty' = dirty \cup {x} /\ conflict' = FALSE /\ UNCHANGED <<stored, entries, saving, sent>>

Type(f, x) == ~saving /\ Moved /\ split' = SplitAfter(x) /\ \E a \in Typed : Set(f, x, a)

SplitCommission(f) ==
  /\ IsNew(f) /\ ~saving /\ Moved
  /\ \E a \in f.amount.commission : a # 0 /\ split' = {a} /\ Set(f, "commission", a \div 2)

UndoSplit(f) == IsNew(f) /\ ~saving /\ Moved /\ \E a \in split : split' = {} /\ Set(f, "commission", a)

-----------------------------------------------------------------------------
(* The suggestion arrives.                                                 *)

Fills(x) == x \notin dirty

IsCurrent(a) == a.current

Answered(a) ==
  LET filled == {x \in Shared : Fills(x)}
      to == Suggested(a.staff, a.date)
  IN /\ asks' = asks \ {a}
     /\ IF ~IsCurrent(a) THEN UNCHANGED <<form, gross, source>>
        ELSE /\ gross' = "ready"
             /\ form' = {IF Key({f}) # {<<a.staff, a.date>>} THEN f
                         ELSE [f EXCEPT !.amount = [x \in Field |-> IF x \in filled THEN to[x] ELSE @[x]]] : f \in form}
             /\ source' = (source \ Shared) \cup filled
     /\ UNCHANGED <<stored, entries, dirty, split, conflict, saving, sent, moves>>

AskFailed(a) ==
  /\ asks' = asks \ {a} /\ gross' = IF a.current THEN "error" ELSE gross
  /\ UNCHANGED <<stored, entries, form, dirty, source, split, conflict, saving, sent, moves>>

-----------------------------------------------------------------------------
(* saveEntry: every amount is given, and the member is chosen.             *)

SaveEntry(f) ==
  /\ ~saving /\ f.staff # {} /\ \A x \in Field : f.amount[x] # {}
  /\ saving' = TRUE /\ conflict' = FALSE
  /\ sent' = {[at |-> <<s, f.date>>, new |-> IsNew(f), answer |-> "none"] : s \in f.staff}
  /\ UNCHANGED <<stored, entries, form, dirty, source, gross, split, asks, moves>>

(* The server: one record of a member and a day.                           *)
Store(r) ==
  /\ r.answer = "none"
  /\ LET answer == IF r.new /\ r.at \in stored THEN "conflict"
                   ELSE IF ~r.new /\ r.at \notin stored THEN "missing" ELSE "saved"
     IN /\ sent' = {[r EXCEPT !.answer = answer]}
        /\ stored' = IF answer = "saved" THEN stored \cup {r.at} ELSE stored
  /\ UNCHANGED <<entries, form, dirty, source, gross, split, conflict, saving, asks, moves>>

Saved(r) ==
  /\ r.answer = "saved" /\ sent' = {} /\ saving' = FALSE /\ entries' = entries \cup {r.at}
  /\ Edited({}, source) /\ UNCHANGED <<stored, dirty, split, conflict, moves>>

(* Refused, or the answer was lost: the form stays open.                   *)
SaveFailed(r) ==
  /\ sent' = {} /\ saving' = FALSE /\ conflict' = (r.answer = "conflict")
  /\ UNCHANGED <<stored, entries, form, dirty, source, gross, split, asks, moves>>

(* confirmDelete, taken as a whole.                                        *)
Delete(e) ==
  /\ form = {} /\ Moved /\ stored' = stored \ {e} /\ entries' = entries \ {e}
  /\ UNCHANGED <<form, dirty, source, gross, split, conflict, saving, asks, sent>>

Next ==
  \/ OpenAdd \/ CloseEditor
  \/ \E e \in entries : OpenEdit(e) \/ Delete(e)
  \/ \E f \in form :
       \/ \E s \in Staff : ChooseStaff(f, s)
       \/ \E d \in Date : ChooseDate(f, d)
       \/ \E x \in Field : Type(f, x)
       \/ SplitCommission(f) \/ UndoSplit(f) \/ SaveEntry(f)
  \/ \E a \in asks : Answered(a) \/ AskFailed(a)
  \/ \E r \in sent : Store(r) \/ Saved(r) \/ SaveFailed(r)
Spec == Init /\ [][Next]_vars

-----------------------------------------------------------------------------

TypeOK == Cardinality(form) <= 1 /\ dirty \subseteq Field /\ source \subseteq Field /\ Cardinality(split) <= 1

(* An amount the form marks as suggested is the one suggested for the day  *)
(* and the member it is for, whatever was chosen while answers were on     *)
(* their way.                                                              *)
MarkedIsSuggested ==
  \A f \in form : IsNew(f) =>
    /\ \A x \in source \cap Shared : gross = "ready" => f.amount[x] = Suggested(f.staff, f.date)[x]
    /\ "salary" \in source => \A s \in f.staff : f.amount.salary = Base[s]
    /\ source \cap dirty = {}

(* The undo a new record's form offers after a split gives back the        *)
(* amount the commission shown was halved from.                            *)
SplitCanBeUndone == \A f \in form : IsNew(f) => \A a \in split : f.amount.commission = {a \div 2}

CompensationFormInv == MarkedIsSuggested /\ SplitCanBeUndone

(* An amount typed into the form is not replaced by an answer that comes   *)
(* in after it.                                                            *)
TypedAmountsAreKept ==
  [][\A a \in asks : a \notin asks' =>
       \A f \in form : \A g \in form' : \A x \in dirty :
         Key({f}) = Key({g}) => g.amount[x] = f.amount[x]]_vars
==============================================================================
