-------------------------- MODULE EmploymentDialog --------------------------
(***************************************************************************)
(* EmploymentDetailsDialog.tsx, opened from the roster: a member's         *)
(* employment, one of the government numbers, one custom field and the     *)
(* commission rates.  A save is two requests, the details and then the     *)
(* custom field; Cancel does not wait for them, and closing the dialog     *)
(* closes whichever is open.                                               *)
(***************************************************************************)
EXTENDS Integers, FiniteSets

CONSTANTS
  Member, Value, \* the values of a field, at most one of which is stored
  Date,          \* dates from which a rate may hold
  Numbers,       \* the government number each member has at first, if any
  MaxMoves       \* bound on what the administrator does

VARIABLES
  stored,   \* the server: by member, [details, number, custom, rates]
  dialog,   \* the dialog, if open: [of, ready, draft, number, revealed, changing, rates]
  loads,    \* Promise.all of the two reads, on its way to the open dialog: its answer
  saves,    \* saves on their way: [of, step, sent, done, mine, alone]
  said,     \* the save after which the dialog last closed by itself: [of, sent]
  missed,   \* the answer about a rate was lost
  asked,    \* the members whose number somebody asked to change
  moves

vars == <<stored, dialog, loads, saves, said, missed, asked, moves>>

Optional == {{}} \cup {{v} : v \in Value}
Details == [details : Optional, number : Optional, custom : Optional, rates : SUBSET Date]
Nothing == [details |-> {}, custom |-> {}]

Init ==
  /\ stored = [m \in Member |-> [details |-> {}, number |-> Numbers[m], custom |-> {}, rates |-> {}]]
  /\ dialog = {} /\ loads = {} /\ saves = {} /\ said = {} /\ missed = FALSE /\ asked = {} /\ moves = 0

Moved == moves < MaxMoves /\ moves' = moves + 1

Open(m) ==
  /\ dialog = {} /\ Moved
  /\ dialog' = {[of |-> m, ready |-> FALSE, draft |-> Nothing, number |-> {}, revealed |-> FALSE,
                 changing |-> FALSE, rates |-> {}]}
  /\ loads' = {{}} /\ said' = {} /\ missed' = FALSE /\ UNCHANGED <<stored, saves, asked>>

(* The dialog goes; what it is waiting for reaches nobody.                 *)
Gone ==
  /\ dialog' = {} /\ loads' = {}

Cancel(d) ==
  /\ Gone /\ saves' = {[s EXCEPT !.mine = FALSE] : s \in saves}
  /\ UNCHANGED <<stored, said, missed, asked, moves>>

Read(d) ==
  /\ loads = {{}} /\ loads' = {{stored[d.of]}}
  /\ UNCHANGED <<stored, dialog, saves, said, missed, asked, moves>>

Loaded(d) ==
  /\ \E l \in loads : \E x \in l :
       dialog' = {[d EXCEPT !.ready = TRUE, !.draft = [details |-> x.details, custom |-> x.custom],
                   !.rates = x.rates]}
  /\ loads' = {} /\ UNCHANGED <<stored, saves, said, missed, asked, moves>>

LoadFailed(d) == loads # {} /\ loads' = {} /\ UNCHANGED <<stored, dialog, saves, said, missed, asked, moves>>

-----------------------------------------------------------------------------

Edit(d, x) ==
  /\ dialog' = {x} /\ Moved /\ asked' = asked \cup (IF x.changing THEN {d.of} ELSE {})
  /\ UNCHANGED <<stored, loads, saves, said, missed>>

Change(d, key, value) == d.ready /\ d.draft[key] # value /\ Edit(d, [d EXCEPT !.draft[key] = value])

(* The number is hidden if there is one, until it is shown or changed.     *)
Hidden(d) == ~d.revealed /\ ~d.changing

ChangeNumber(d) == d.ready /\ Hidden(d) /\ Edit(d, [d EXCEPT !.changing = TRUE])

TypeNumber(d, value) ==
  d.ready /\ (d.revealed \/ d.changing) /\ d.number # value
    /\ Edit(d, [d EXCEPT !.number = value, !.changing = TRUE])

(* reveal: the answer takes the place of what was typed.                   *)
Reveal(d) == d.ready /\ Hidden(d) /\ Edit(d, [d EXCEPT !.number = stored[d.of].number, !.revealed = TRUE])

-----------------------------------------------------------------------------
(* save.                                                                   *)

NumberSent(d) == IF d.changing THEN {d.number} ELSE {}

Save(d) ==
  /\ d.ready /\ ~(\E s \in saves : s.mine) /\ Moved
  /\ saves' = {[s EXCEPT !.alone = FALSE] : s \in saves}
                \cup {[of |-> d.of, step |-> "details", sent |-> d.draft, number |-> NumberSent(d),
                       done |-> FALSE, mine |-> TRUE, alone |-> saves = {}]}
  /\ UNCHANGED <<stored, dialog, loads, said, missed, asked>>

(* The server stores a request, or refuses it and changes nothing.         *)
Store(s) ==
  /\ ~s.done /\ saves' = (saves \ {s}) \cup {[s EXCEPT !.done = TRUE]}
  /\ stored' = IF s.step = "custom" THEN [stored EXCEPT ![s.of].custom = s.sent.custom]
               ELSE [stored EXCEPT ![s.of].details = s.sent.details,
                                   ![s.of].number = IF s.number = {} THEN stored[s.of].number
                                                    ELSE CHOOSE n \in s.number : TRUE]
  /\ UNCHANGED <<dialog, loads, said, missed, asked, moves>>

(* Mutant: the dialog closes when the details are stored.                  *)
AtOnce(s) == s.done

IsStored(s) == s.done /\ s.step = "custom"

DetailsSaved(s) ==
  /\ s.done /\ s.step = "details" /\ ~IsStored(s)
  /\ saves' = (saves \ {s}) \cup {[s EXCEPT !.step = "custom", !.done = FALSE]}
  /\ UNCHANGED <<stored, dialog, loads, said, missed, asked, moves>>

(* onSaved and onClose, whoever is open by now.                            *)
Saved(s) ==
  /\ IsStored(s) /\ Gone
  /\ saves' = {[r EXCEPT !.mine = FALSE] : r \in saves \ {s}}
  /\ said' = IF s.mine /\ s.alone THEN {[of |-> s.of, sent |-> s.sent]} ELSE {}
  /\ UNCHANGED <<stored, missed, asked, moves>>

SaveFailed(s) == saves' = saves \ {s} /\ UNCHANGED <<stored, dialog, loads, said, missed, asked, moves>>

-----------------------------------------------------------------------------
(* Rates, each stored at once; the answer may be lost.                     *)

SetRates(d, rates, shown) ==
  /\ d.ready /\ Moved /\ stored' = [stored EXCEPT ![d.of].rates = rates]
  /\ \E lost \in BOOLEAN : /\ missed' = (missed \/ lost)
                           /\ dialog' = {[d EXCEPT !.rates = IF lost THEN d.rates ELSE shown]}
  /\ UNCHANGED <<loads, saves, said, asked>>

Without(d, date) == d.rates \ {date}

AddRate(d, date) == SetRates(d, stored[d.of].rates \cup {date}, Without(d, date) \cup {date})
RemoveRate(d, date) == SetRates(d, stored[d.of].rates \ {date}, Without(d, date))

Next ==
  \/ \E m \in Member : Open(m)
  \/ \E d \in dialog :
       \/ Cancel(d) \/ Read(d) \/ Loaded(d) \/ LoadFailed(d)
       \/ ChangeNumber(d) \/ Reveal(d) \/ Save(d)
       \/ \E v \in Optional : TypeNumber(d, v) \/ Change(d, "details", v) \/ Change(d, "custom", v)
       \/ \E date \in Date : AddRate(d, date)
       \/ \E date \in d.rates : RemoveRate(d, date)
  \/ \E s \in saves : Store(s) \/ DetailsSaved(s) \/ Saved(s) \/ SaveFailed(s)
Spec == Init /\ [][Next]_vars

-----------------------------------------------------------------------------

TypeOK == stored \in [Member -> Details] /\ Cardinality(dialog) <= 1

(* When the dialog has closed after a save, both halves of the save are    *)
(* stored as they were sent, also when an earlier try stored the first     *)
(* half only.                                                              *)
SavedIsStored ==
  \A s \in said : stored[s.of].details = s.sent.details /\ stored[s.of].custom = s.sent.custom

(* The rates listed are the member's, unless the answer about one was lost. *)
RatesAreShown == \A d \in dialog : d.ready /\ ~missed => d.rates = stored[d.of].rates

(* A government number changes only where someone asked to change it, not  *)
(* by saving the dialog with the number hidden, or merely shown.           *)
NumbersAreKept == \A m \in Member \ asked : stored[m].number = Numbers[m]

EmploymentDialogInv == SavedIsStored /\ RatesAreShown /\ NumbersAreKept
==============================================================================
