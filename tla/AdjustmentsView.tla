--------------------------- MODULE AdjustmentsView ---------------------------
(***************************************************************************)
(* AdjustmentsView.tsx: the allowances, bonuses and advances that match    *)
(* the filters, loaded again when a filter changes, and kept up to date by *)
(* what is added, edited and deleted without loading them again.           *)
(***************************************************************************)
EXTENDS Integers, FiniteSets

CONSTANTS
  Id,      \* adjustments that may be stored
  Scope,   \* a member and an effective date
  Filter,  \* sets of scopes the filters let through
  MaxMoves \* bound on what the administrator does

VARIABLES
  stored,  \* the server's adjustments: scope by id
  filter, shown, loading,
  loads,   \* lists on their way: [filter, current, answer]
  draft,   \* the form or the question whether to delete, if open: [op, id, scope]
  request, \* the save or deletion on its way: [op, id, scope, done]
  denied,  \* the answer was that the administrator may not see them
  missed,  \* a change was sent before the list had loaded, or its answer was lost
  moves

vars == <<stored, filter, shown, loading, loads, draft, request, denied, missed, moves>>

Matching(f) == {<<i, stored[i]>> : i \in {j \in DOMAIN stored : stored[j] \in f}}
Load(f) == [filter |-> f, current |-> TRUE, answer |-> {}]

Init ==
  /\ stored \in UNION {[{i} -> Scope] : i \in Id}
  /\ filter \in Filter /\ shown = {} /\ loading = TRUE /\ loads = {Load(filter)}
  /\ draft = {} /\ request = {} /\ denied = FALSE /\ missed = FALSE /\ moves = 0

Moved == moves < MaxMoves /\ moves' = moves + 1

(* The effect of a filter, by hand or by the cutoff's arrows: the list     *)
(* before it is given up.                                                  *)
SetFilter(f) ==
  /\ f # filter /\ draft = {} /\ ~denied /\ Moved
  /\ filter' = f /\ loading' = TRUE /\ missed' = (request # {})
  /\ loads' = {[l EXCEPT !.current = FALSE] : l \in loads} \cup {Load(f)}
  /\ UNCHANGED <<stored, shown, draft, request, denied>>

Listed(l) ==
  /\ l.answer = {} /\ loads' = (loads \ {l}) \cup {[l EXCEPT !.answer = {Matching(l.filter)}]}
  /\ UNCHANGED <<stored, filter, shown, loading, draft, request, denied, missed, moves>>

IsCurrent(l) == l.current

Loaded(l) ==
  /\ \E rows \in l.answer : shown' = IF IsCurrent(l) THEN rows ELSE shown
  /\ loads' = loads \ {l} /\ loading' = (loading /\ ~IsCurrent(l))
  /\ UNCHANGED <<stored, filter, draft, request, denied, missed, moves>>

LoadFailed(l) ==
  /\ loads' = loads \ {l} /\ loading' = (loading /\ ~l.current) /\ missed' = (missed \/ l.current)
  /\ denied' \in {denied, denied \/ l.current}
  /\ UNCHANGED <<stored, filter, shown, draft, request, moves>>

-----------------------------------------------------------------------------

Open(d) ==
  /\ draft = {} /\ ~denied /\ draft' = {d}
  /\ UNCHANGED <<stored, filter, shown, loading, loads, request, denied, missed, moves>>

OpenAdd(s) == Open([op |-> "add", id |-> {}, scope |-> s])
OpenEdit(a) == ~loading /\ Open([op |-> "edit", id |-> {a[1]}, scope |-> a[2]])
OpenDelete(a) == ~loading /\ Open([op |-> "delete", id |-> {a[1]}, scope |-> a[2]])

(* changeDraft; the member of a stored adjustment is fixed, its date not.  *)
ChangeDraft(d, s) ==
  /\ d.op # "delete" /\ s # d.scope /\ Moved /\ draft' = {[d EXCEPT !.scope = s]}
  /\ UNCHANGED <<stored, filter, shown, loading, loads, request, denied, missed>>

Close ==
  /\ draft # {} /\ request = {} /\ draft' = {}
  /\ UNCHANGED <<stored, filter, shown, loading, loads, request, denied, missed, moves>>

(* saveAdjustment and confirmDelete, up to the request.                    *)
Send(d) ==
  /\ request = {} /\ Moved
  /\ \E i \in IF d.op = "add" THEN Id \ DOMAIN stored ELSE d.id :
       request' = {[op |-> d.op, id |-> i, scope |-> d.scope, done |-> FALSE]}
  /\ missed' = (missed \/ loading)
  /\ UNCHANGED <<stored, filter, shown, loading, loads, draft, denied>>

Store(r) ==
  /\ ~r.done /\ (r.op = "add" \/ r.id \in DOMAIN stored)
  /\ request' = {[r EXCEPT !.done = TRUE]}
  /\ stored' = [i \in IF r.op = "delete" THEN DOMAIN stored \ {r.id} ELSE DOMAIN stored \cup {r.id} |->
                  IF i = r.id THEN r.scope ELSE stored[i]]
  /\ UNCHANGED <<filter, shown, loading, loads, draft, denied, missed, moves>>

(* Mutant: what was saved is listed whatever the filters are.              *)
InAnyScope(r) == TRUE

IsInScope(r) == r.scope \in filter

(* The answer: the list follows without a load.                            *)
Answered(r) ==
  /\ r.done /\ request' = {} /\ draft' = {}
  /\ shown' = {a \in shown : a[1] # r.id}
                \cup (IF r.op # "delete" /\ IsInScope(r) THEN {<<r.id, r.scope>>} ELSE {})
  /\ UNCHANGED <<stored, filter, loading, loads, denied, missed, moves>>

(* Refused, or the answer was lost: the form stays open, the question not, *)
(* and neither where the administrator may not see adjustments.            *)
Failed(r, forbidden) ==
  /\ request' = {} /\ missed' = (missed \/ r.done) /\ denied' = (denied \/ forbidden)
  /\ draft' = IF forbidden \/ r.op = "delete" THEN {} ELSE draft
  /\ UNCHANGED <<stored, filter, shown, loading, loads, moves>>

Next ==
  \/ \E f \in Filter : SetFilter(f)
  \/ \E l \in loads : Listed(l) \/ Loaded(l) \/ LoadFailed(l)
  \/ \E s \in Scope : OpenAdd(s)
  \/ \E a \in shown : OpenEdit(a) \/ OpenDelete(a)
  \/ \E d \in draft : Send(d) \/ (\E s \in Scope : ChangeDraft(d, s))
  \/ Close
  \/ \E r \in request : Store(r) \/ Answered(r) \/ (\E forbidden \in BOOLEAN : Failed(r, forbidden))
Spec == Init /\ [][Next]_vars

-----------------------------------------------------------------------------

TypeOK == shown \subseteq Id \X Scope /\ Cardinality(draft) <= 1 /\ Cardinality(request) <= 1

(* With nothing on its way and no answer lost, the list holds the          *)
(* adjustments that are stored and match the filters, through changes that *)
(* move one into or out of them.                                           *)
ListMatchesFilters == loads = {} /\ request = {} /\ ~missed => shown = Matching(filter)
==============================================================================
