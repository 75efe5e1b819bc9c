------------------------------ MODULE StaffPage ------------------------------
(***************************************************************************)
(* StaffPage.tsx: the roster that matches the search and the filter, its   *)
(* switches, and the dialogs that add and edit a member, create a login    *)
(* account (StaffAccountDialog.tsx) or replace its credentials             *)
(* (StaffCredentialDialog.tsx).  Names, salaries and credentials are left  *)
(* out: a row is a member's state and whether the member has an account.   *)
(***************************************************************************)
EXTENDS Integers, FiniteSets

CONSTANTS
  Member,
  Filter,  \* what is let through: sets of BOOLEAN, the state of a member
  MaxMoves \* bound on what the administrator does

VARIABLES
  stored,   \* the roster at the server: rows by member
  filter, shown, loading,
  loads,    \* lists on their way: [filter, current, answer]
  dialog,   \* the dialog, if one is open: [op, of, active, done]
  updating, \* updatingId: the member whose switch is waiting, if any
  requests, \* writes on their way: [op, of, active, answer, alone]
  missed,   \* an answer was lost, or one that carries a row met another request
  moves

vars == <<stored, filter, shown, loading, loads, dialog, updating, requests, missed, moves>>

Matching(f) == {<<m, stored[m]>> : m \in {n \in DOMAIN stored : stored[n].active \in f}}
Load(f) == [filter |-> f, current |-> TRUE, answer |-> {}]
Row == [active : BOOLEAN, account : BOOLEAN]

Init ==
  /\ stored \in UNION {[{m} -> Row] : m \in Member} /\ filter = BOOLEAN
  /\ shown = {} /\ loading = TRUE /\ loads = {Load(filter)}
  /\ dialog = {} /\ updating = {} /\ requests = {} /\ missed = FALSE /\ moves = 0

Moved == moves < MaxMoves /\ moves' = moves + 1

-----------------------------------------------------------------------------
(* The list.                                                               *)

(* The effect of a search, a filter, an order or a refresh.                *)
Reload(f) ==
  /\ loads' = {[l EXCEPT !.current = FALSE] : l \in loads} \cup {Load(f)}
  /\ loading' = TRUE /\ missed' = FALSE

SetFilter(f) ==
  /\ f # filter /\ dialog = {} /\ Moved /\ filter' = f /\ Reload(f)
  /\ UNCHANGED <<stored, shown, dialog, updating, requests>>

Listed(l) ==
  /\ l.answer = {} /\ loads' = (loads \ {l}) \cup {[l EXCEPT !.answer = {Matching(l.filter)}]}
  /\ UNCHANGED <<stored, filter, shown, loading, dialog, updating, requests, missed, moves>>

IsCurrent(l) == l.current

Loaded(l) ==
  /\ \E rows \in l.answer : shown' = IF IsCurrent(l) THEN rows ELSE shown
  /\ loads' = loads \ {l} /\ loading' = (loading /\ ~IsCurrent(l))
  /\ UNCHANGED <<stored, filter, dialog, updating, requests, missed, moves>>

LoadFailed(l) ==
  /\ loads' = loads \ {l} /\ loading' = (loading /\ ~l.current) /\ missed' = (missed \/ l.current)
  /\ UNCHANGED <<stored, filter, shown, dialog, updating, requests, moves>>

-----------------------------------------------------------------------------
(* What is sent.                                                           *)

(* A dialog's own request is on its way.                                   *)
Saving(d) == \E r \in requests : r.op = d.op /\ r.of = d.of

Send(op, of, active) ==
  requests' = {[r EXCEPT !.alone = FALSE] : r \in requests}
                \cup {[op |-> op, of |-> of, active |-> active, answer |-> {}, alone |-> requests = {}]}

(* toggleActive: one switch at a time, to the other state than shown.      *)
ToggleActive(m, row) ==
  /\ ~loading /\ dialog = {} /\ updating = {} /\ Moved
  /\ updating' = {m} /\ Send("toggle", m, ~row.active)
  /\ UNCHANGED <<stored, filter, shown, loading, loads, dialog, missed>>

(* The dialogs a row offers, and the form that adds a member.              *)
Offered(row) ==
  {"edit"} \cup (IF row.account THEN {"credentials"} ELSE IF row.active THEN {"account"} ELSE {})

OpenDialog(op, m, active) ==
  /\ dialog = {} /\ Moved /\ dialog' = {[op |-> op, of |-> m, active |-> active, done |-> FALSE]}
  /\ UNCHANGED <<stored, filter, shown, loading, loads, updating, requests, missed>>

ChangeDraft(d) ==
  /\ d.op \in {"add", "edit"} /\ ~Saving(d) /\ Moved /\ dialog' = {[d EXCEPT !.active = ~d.active]}
  /\ UNCHANGED <<stored, filter, shown, loading, loads, updating, requests, missed>>

Submit(d) ==
  /\ ~d.done /\ ~Saving(d) /\ Moved /\ Send(d.op, d.of, d.active)
  /\ UNCHANGED <<stored, filter, shown, loading, loads, dialog, updating, missed>>

Close(d) ==
  /\ ~Saving(d) /\ dialog' = {}
  /\ UNCHANGED <<stored, filter, shown, loading, loads, updating, requests, missed, moves>>

-----------------------------------------------------------------------------
(* The server.                                                             *)

Accepts(r) ==
  CASE r.op = "add" -> r.of \notin DOMAIN stored
    [] r.op = "account" -> stored[r.of].active /\ ~stored[r.of].account
    [] r.op = "credentials" -> stored[r.of].account
    [] OTHER -> TRUE

After(r) ==
  CASE r.op = "add" -> [active |-> r.active, account |-> FALSE]
    [] r.op = "account" -> [stored[r.of] EXCEPT !.account = TRUE]
    [] r.op = "credentials" -> stored[r.of]
    [] OTHER -> [stored[r.of] EXCEPT !.active = r.active]

Store(r) ==
  /\ r.answer = {} /\ Accepts(r)
  /\ requests' = (requests \ {r}) \cup {[r EXCEPT !.answer = {After(r)}]}
  /\ stored' = [m \in DOMAIN stored \cup {r.of} |-> IF m = r.of THEN After(r) ELSE stored[m]]
  /\ UNCHANGED <<filter, shown, loading, loads, dialog, updating, missed, moves>>

-----------------------------------------------------------------------------
(* The answers.                                                            *)

Patched(r) == {IF e[1] = r.of THEN <<r.of, row>> ELSE e : e \in shown, row \in r.answer}

(* Mutant: the row is replaced and the list not loaded again.              *)
NoReload(f) == UNCHANGED <<loads, loading, missed>>

Refreshed(f) == Reload(f)

Toggled(r) ==
  /\ r.op = "toggle" /\ r.answer # {} /\ requests' = requests \ {r} /\ updating' = {}
  /\ shown' = Patched(r) /\ Refreshed(filter)
  /\ UNCHANGED <<stored, filter, dialog, moves>>

(* saveStaff: the dialog closes and the list is loaded again.              *)
Saved(r) ==
  /\ r.op \in {"add", "edit"} /\ r.answer # {} /\ requests' = requests \ {r} /\ dialog' = {}
  /\ Refreshed(filter) /\ UNCHANGED <<stored, filter, shown, updating, moves>>

(* The account is made; the list keeps the row it had.                     *)
AccountMade(r) ==
  /\ r.op = "account" /\ r.answer # {} /\ requests' = requests \ {r}
  /\ dialog' = {[d EXCEPT !.done = TRUE] : d \in dialog}
  /\ UNCHANGED <<stored, filter, shown, loading, loads, updating, missed, moves>>

(* onUpdated: reconcileCredentialMember.                                   *)
CredentialsReplaced(r) ==
  /\ r.op = "credentials" /\ r.answer # {} /\ requests' = requests \ {r}
  /\ shown' = Patched(r) /\ dialog' = {[d EXCEPT !.done = TRUE] : d \in dialog}
  /\ missed' = (missed \/ ~r.alone)
  /\ UNCHANGED <<stored, filter, loading, loads, updating, moves>>

(* Refused, or the answer was lost.                                        *)
Failed(r) ==
  /\ requests' = requests \ {r} /\ missed' = (missed \/ r.answer # {})
  /\ UNCHANGED <<stored, filter, shown, loading, loads, dialog, moves>>

ToggleFailed(r) == r.op = "toggle" /\ Failed(r) /\ updating' = {}

(* A dialog stays open with what was typed.                                *)
SaveFailed(r) == r.op \in {"add", "edit"} /\ Failed(r) /\ UNCHANGED updating
AccountFailed(r) == r.op = "account" /\ Failed(r) /\ UNCHANGED updating
CredentialsFailed(r) == r.op = "credentials" /\ Failed(r) /\ UNCHANGED updating

Next ==
  \/ \E f \in Filter : SetFilter(f)
  \/ \E l \in loads : Listed(l) \/ Loaded(l) \/ LoadFailed(l)
  \/ \E e \in shown : ToggleActive(e[1], e[2])
  \/ ~loading /\ \E e \in shown : \E op \in Offered(e[2]) : OpenDialog(op, e[1], e[2].active)
  \/ \E m \in Member \ DOMAIN stored : OpenDialog("add", m, TRUE)
  \/ \E d \in dialog : ChangeDraft(d) \/ Submit(d) \/ Close(d)
  \/ \E r \in requests :
       \/ Store(r) \/ Toggled(r) \/ Saved(r) \/ AccountMade(r) \/ CredentialsReplaced(r)
       \/ ToggleFailed(r) \/ SaveFailed(r) \/ AccountFailed(r) \/ CredentialsFailed(r)
Spec == Init /\ [][Next]_vars

-----------------------------------------------------------------------------

TypeOK == shown \subseteq Member \X Row /\ Cardinality(dialog) <= 1 /\ Cardinality(updating) <= 1

(* With nothing on its way, no answer lost and no answer overtaken, the    *)
(* roster holds the stored members that the filter lets through, each in   *)
(* its state, whatever order switches, dialogs and lists were answered in. *)
(* It may lag behind on accounts that were just created, and shows none    *)
(* that does not exist.                                                    *)
RosterIsCurrent ==
  loads = {} /\ requests = {} /\ ~missed =>
    /\ {<<e[1], e[2].active>> : e \in shown} = {<<e[1], e[2].active>> : e \in Matching(filter)}
    /\ \A e \in shown : e[2].account => stored[e[1]].account
==============================================================================
