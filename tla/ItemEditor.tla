----------------------------- MODULE ItemEditor -----------------------------
(***************************************************************************)
(* InventoryItemEditorPage.tsx: a stock item's count method and its pars   *)
(* for normal and peak days.  A save is a request for the item and then,   *)
(* at the same time, one for each par, which the server takes only if the  *)
(* par is of the item's method.  Other fields are left out.                *)
(***************************************************************************)
EXTENDS Integers, FiniteSets

CONSTANTS
  Id,      \* items, of which First is there when the page is opened
  First,
  Typed,   \* quantities that are typed
  Level,   \* levels that are chosen
  MaxMoves \* bound on what administrators do

Day == {"normal", "peak"}
Method == {"quantity", "level"}

VARIABLES
  items,  \* the server's items: [method, pars] by id, a par at most one [method, value]
  page,   \* the page, if open: [id, ready, draft, current], id at most one item
  loads,  \* getInventoryItem on its way: [id, answer]
  save,   \* the save on its way: [id, step, draft, mine, met, pars, refused]
  made,   \* items the form that is open has created
  failed, \* a request of the form failed or its answer was lost
  said,   \* the save after which the page was left: [id, draft]
  moves

vars == <<items, page, loads, save, made, failed, said, moves>>

NoPar == [d \in Day |-> {}]
Empty == [method |-> "quantity", quantity |-> NoPar, level |-> NoPar]

(* draftFromItem: a par of the other method leaves the entry blank.        *)
DraftFrom(item) ==
  LET Entry(method) == [d \in Day |-> {p.value : p \in {q \in item.pars[d] : q.method = method}}]
  IN [method |-> item.method, quantity |-> Entry("quantity"), level |-> Entry("level")]

(* What a draft says of a day's par; none while its entry is blank.        *)
ParOf(draft, d) ==
  {[method |-> draft.method, value |-> v] :
     v \in IF draft.method = "level" THEN draft.level[d] ELSE draft.quantity[d]}

IsValid(draft) == \A d \in Day : ParOf(draft, d) # {}

Init ==
  /\ items = [i \in {First} |->
                [method |-> "quantity", pars |-> [d \in Day |-> {[method |-> "quantity", value |-> 0]}]]]
  /\ page = {} /\ loads = {} /\ save = {} /\ made = {} /\ failed = FALSE /\ said = {} /\ moves = 0

Moved == moves < MaxMoves /\ moves' = moves + 1

-----------------------------------------------------------------------------

(* The page for an item, or for a new one.                                 *)
Open(id) ==
  /\ page = {} /\ Moved
  /\ page' = {[id |-> id, ready |-> id = {}, draft |-> Empty]}
  /\ loads' = IF id = {} THEN {} ELSE {{}}
  /\ made' = {} /\ failed' = FALSE /\ said' = {} /\ UNCHANGED <<items, save>>

(* Cancel, a link that is there at all times.                              *)
Leave ==
  /\ page # {} /\ page' = {} /\ loads' = {} /\ save' = {[s EXCEPT !.mine = FALSE] : s \in save}
  /\ UNCHANGED <<items, made, failed, said, moves>>

Read(p) ==
  /\ loads = {{}} /\ p.id \subseteq DOMAIN items /\ loads' = {{items[i] : i \in p.id}}
  /\ UNCHANGED <<items, page, save, made, failed, said, moves>>

Loaded(p) ==
  /\ \E l \in loads : \E item \in l : page' = {[p EXCEPT !.ready = TRUE, !.draft = DraftFrom(item)]}
  /\ loads' = {} /\ UNCHANGED <<items, save, made, failed, said, moves>>

Edit(p, draft) ==
  /\ p.ready /\ draft # p.draft /\ Moved /\ page' = {[p EXCEPT !.draft = draft]}
  /\ UNCHANGED <<items, loads, save, made, failed, said>>

(* setCountMethod: pars of either method are kept in the form.             *)
SetCountMethod(p, method) == Edit(p, [p.draft EXCEPT !.method = method])

(* setParField *)
SetPar(p, d) ==
  IF p.draft.method = "level" THEN \E v \in Level : Edit(p, [p.draft EXCEPT !.level[d] = {v}])
  ELSE \E v \in Typed : Edit(p, [p.draft EXCEPT !.quantity[d] = {v}])

-----------------------------------------------------------------------------
(* submit.                                                                 *)

Saving(s) == s.mine

Submit(p) ==
  /\ p.ready /\ ~(\E s \in save : Saving(s)) /\ IsValid(p.draft) /\ Moved
  /\ save' = {[s EXCEPT !.met = TRUE] : s \in save}
               \cup {[id |-> p.id, step |-> "item", draft |-> p.draft, mine |-> TRUE, met |-> save # {},
                      pars |-> {}, refused |-> {}]}
  /\ UNCHANGED <<items, page, loads, made, failed, said>>

Replace(s, t) == save' = (save \ {s}) \cup {t}

(* The server: a new item, or the item's method; its pars stay.            *)
StoreItem(s) ==
  /\ s.step = "item" /\ s.id \subseteq DOMAIN items
  /\ \E i \in IF s.id = {} THEN Id \ DOMAIN items ELSE s.id :
       /\ items' = [j \in DOMAIN items \cup {i} |->
                      IF j = i THEN [method |-> s.draft.method, pars |-> IF s.id = {} THEN NoPar ELSE items[i].pars]
                      ELSE items[j]]
       /\ made' = IF s.id = {} /\ s.mine THEN made \cup {i} ELSE made
       /\ Replace(s, [s EXCEPT !.id = {i}, !.step = "pars"])
  /\ UNCHANGED <<page, loads, failed, said, moves>>

(* upsertParLevel, for each day in either order.                           *)
StorePar(s, d) ==
  /\ s.step = "pars" /\ d \notin s.pars
  /\ \E i \in s.id :
       LET isTaken == i \in DOMAIN items /\ items[i].method = s.draft.method
       IN /\ items' = IF isTaken THEN [items EXCEPT ![i].pars[d] = ParOf(s.draft, d)] ELSE items
          /\ Replace(s, [s EXCEPT !.pars = s.pars \cup {d},
                                 !.refused = s.refused \cup (IF isTaken THEN {} ELSE {d})])
  /\ UNCHANGED <<page, loads, made, failed, said, moves>>

(* A par's answer is lost, or the server fails.                            *)
LosePar(s, d) ==
  /\ s.step = "pars" /\ d \notin s.refused
  /\ Replace(s, [s EXCEPT !.pars = s.pars \cup {d}, !.refused = s.refused \cup {d}])
  /\ UNCHANGED <<items, page, loads, made, failed, said, moves>>

(* Mutant: the page is left as soon as one par was saved.                  *)
OneIsSaved(s) == s.pars \ s.refused # {}

AllAreSaved(s) == s.pars = Day /\ s.refused = {}

(* The inventory is shown next, whatever page is open by now.              *)
Saved(s) ==
  /\ s.step = "pars" /\ AllAreSaved(s) /\ page' = {} /\ loads' = {}
  /\ save' = {[t EXCEPT !.mine = FALSE] : t \in save \ {s}}
  /\ said' = {[id |-> i, draft |-> s.draft] : i \in IF s.mine /\ ~s.met THEN s.id ELSE {}}
  /\ UNCHANGED <<items, made, failed, moves>>

(* The page shows the pars that were refused; the form is as it was, and   *)
(* still that of a new item if it was one.                                 *)
ParsRefused(s) ==
  /\ s.pars = Day /\ s.refused # {} /\ save' = save \ {s} /\ failed' = (failed \/ s.mine)
  /\ UNCHANGED <<items, page, loads, made, said, moves>>

SaveFailed(s) ==
  /\ s.pars = {} /\ save' = save \ {s} /\ failed' = (failed \/ s.mine)
  /\ UNCHANGED <<items, page, loads, made, said, moves>>

(* removeItem, with its answer: the server may refuse it.                  *)
Remove(p) ==
  /\ p.ready /\ p.id # {} /\ p.id \subseteq DOMAIN items /\ Moved
  /\ items' = [i \in DOMAIN items \ p.id |-> items[i]] /\ page' = {} /\ loads' = {}
  /\ save' = {[s EXCEPT !.mine = FALSE] : s \in save} /\ said' = {}
  /\ UNCHANGED <<made, failed>>

(* Another administrator changes the method of an item.                    *)
Elsewhere(i) ==
  /\ Moved /\ \E method \in Method \ {items[i].method} : items' = [items EXCEPT ![i].method = method]
  /\ save' = {[s EXCEPT !.met = TRUE] : s \in save} /\ said' = {} /\ UNCHANGED <<page, loads, made, failed>>

Next ==
  \/ Open({}) \/ \E i \in DOMAIN items : Open({i}) \/ Elsewhere(i)
  \/ Leave
  \/ \E p \in page :
       \/ Read(p) \/ Loaded(p) \/ Submit(p) \/ Remove(p)
       \/ \E method \in Method : SetCountMethod(p, method)
       \/ \E d \in Day : SetPar(p, d)
  \/ \E s \in save :
       \/ StoreItem(s) \/ Saved(s) \/ ParsRefused(s) \/ SaveFailed(s)
       \/ \E d \in Day : StorePar(s, d) \/ LosePar(s, d)
Spec == Init /\ [][Next]_vars

-----------------------------------------------------------------------------

TypeOK == DOMAIN items \subseteq Id /\ Cardinality(page) <= 1

(* When the page was left after a save that no other change met, the item   *)
(* has the method that was chosen and both pars that were entered, each of  *)
(* that method.                                                            *)
SavedIsStored ==
  \A x \in said : /\ items[x.id].method = x.draft.method
                  /\ \A d \in Day : items[x.id].pars[d] = ParOf(x.draft, d)

(* A form creates one item, unless a request of it failed: the form of a   *)
(* new item whose par was refused creates another when it is sent again.   *)
OneItemIsMade == failed \/ Cardinality(made) <= 1

ItemEditorInv == SavedIsStored /\ OneItemIsMade
==============================================================================
