---------------------------- MODULE ProductEditor ----------------------------
(***************************************************************************)
(* ProductEditorPage.tsx on an existing product: sizes are added, removed  *)
(* (a saved one on the server first) and dragged into order (an order of   *)
(* saved sizes is sent at once), and the whole form is submitted.  The     *)
(* server is CatalogService's, for one administrator.                      *)
(***************************************************************************)
EXTENDS Integers, Sequences, FiniteSets, SequencesExt

CONSTANTS
  Key,       \* keys of the form's sizes
  First,     \* the sizes the form loaded; their keys are their ids
  MaxMoves,  \* bound on the drags and submissions
  MaxAtOnce  \* bound on the requests on their way

VARIABLES
  variants,    \* the product's stored sizes
  draft,       \* the form's sizes, in order
  ids,         \* the keys of the form that are ids
  removingKey, \* the size being removed, if any
  reorders,    \* orders on their way: [order, previous, reply]
  removal,     \* the answer to the removal: none, "removed" or "refused"
  submission,  \* "none", "sent", "refused" or "saved", when the form is left
  form,        \* the sizes that were submitted
  moves

vars == <<variants, draft, ids, removingKey, reorders, removal, submission, form, moves>>

Waiting == Cardinality(reorders) + Cardinality(removingKey)
Editing == submission # "saved"
Move == moves < MaxMoves /\ moves' = moves + 1

Init ==
  /\ variants = ToSet(First) /\ draft = First /\ ids = ToSet(First) /\ removingKey = {}
  /\ reorders = {} /\ removal = "none" /\ submission = "none" /\ form = {} /\ moves = 0

AddSize(k) ==
  /\ Editing /\ k \notin ids \cup ToSet(draft) /\ Move
  /\ draft' = Append(draft, k)
  /\ UNCHANGED <<variants, ids, removingKey, reorders, removal, submission, form>>

Without(k) == SelectSeq(draft, LAMBDA s : s # k)

(* deleteSize: a new size goes at once, a saved one is asked for first.    *)
DeleteSize(k) ==
  /\ Editing /\ k \in ToSet(draft) /\ Len(draft) # 1 /\ removingKey = {} /\ Waiting < MaxAtOnce
  /\ IF k \in ids THEN removingKey' = {k} /\ UNCHANGED draft
     ELSE draft' = Without(k) /\ UNCHANGED removingKey
  /\ UNCHANGED <<variants, ids, reorders, removal, submission, form, moves>>

(* CatalogService.removeSize                                               *)
ServerRemoves ==
  /\ removingKey # {} /\ removal = "none"
  /\ IF removingKey \subseteq variants /\ Cardinality(variants) # 1
     THEN variants' = variants \ removingKey /\ removal' = "removed"
     ELSE removal' = "refused" /\ UNCHANGED variants
  /\ UNCHANGED <<draft, ids, removingKey, reorders, submission, form, moves>>

(* Mutant: the size leaves the form only when the form is loaded again.    *)
NeverDrops == FALSE

DropsFromForm == removal = "removed"

RemovalAnswered ==
  /\ removal # "none" /\ removal' = "none" /\ removingKey' = {}
  /\ draft' = IF DropsFromForm THEN SelectSeq(draft, LAMBDA s : s \notin removingKey) ELSE draft
  /\ UNCHANGED <<variants, ids, reorders, submission, form, moves>>

MoveItem(items, from, to) == InsertAt(RemoveAt(items, from), to, items[from])

(* persistSizeOrder: a form with a new size keeps its order to itself.     *)
PersistOrder(from, to) ==
  /\ Editing /\ from # to /\ Waiting < MaxAtOnce /\ Move
  /\ draft' = MoveItem(draft, from, to)
  /\ reorders' = IF ToSet(draft) \subseteq ids
                 THEN reorders \cup {[order |-> draft', previous |-> draft, reply |-> "none"]}
                 ELSE reorders
  /\ UNCHANGED <<variants, ids, removingKey, removal, submission, form>>

(* CatalogService.reorderSizes: every size must be the product's.          *)
ServerReorders(r) ==
  /\ r.reply = "none"
  /\ reorders' = (reorders \ {r}) \cup
       {[r EXCEPT !.reply = IF ToSet(r.order) \subseteq variants THEN "saved" ELSE "refused"]}
  /\ UNCHANGED <<variants, draft, ids, removingKey, removal, submission, form, moves>>

(* The order is taken back when it was refused or its answer was lost.     *)
ReorderAnswered(r, lost) ==
  /\ r.reply # "none" /\ reorders' = reorders \ {r}
  /\ draft' = IF r.reply = "saved" /\ ~lost THEN draft ELSE r.previous
  /\ UNCHANGED <<variants, ids, removingKey, removal, submission, form, moves>>

Submit ==
  /\ Editing /\ submission # "sent" /\ Move
  /\ submission' = "sent" /\ form' = ToSet(draft)
  /\ UNCHANGED <<variants, draft, ids, removingKey, reorders, removal>>

(* updateProduct refuses a form with a size the product no longer has;     *)
(* otherwise it keeps the sizes the form does not have.                    *)
ServerUpdates ==
  /\ submission = "sent"
  /\ IF form \cap ids \subseteq variants
     THEN submission' = "saved" /\ variants' = variants \cup form
     ELSE submission' = "refused" /\ UNCHANGED variants
  /\ UNCHANGED <<draft, ids, removingKey, reorders, removal, form, moves>>

Next ==
  \/ \E k \in Key : AddSize(k) \/ DeleteSize(k)
  \/ ServerRemoves \/ RemovalAnswered \/ Submit \/ ServerUpdates
  \/ \E from, to \in DOMAIN draft : PersistOrder(from, to)
  \/ \E r \in reorders : ServerReorders(r) \/ \E lost \in BOOLEAN : ReorderAnswered(r, lost)
Spec == Init /\ [][Next]_vars

-----------------------------------------------------------------------------

(* The form has each size once, and one at least.                          *)
TypeOK == IsInjective(draft) /\ draft # <<>> /\ ToSet(draft) \subseteq Key /\ ids \subseteq Key

(* A size the form says was removed does not come back to it: with no      *)
(* request on its way, the saved sizes in the form are stored ones, so     *)
(* that Save is not refused for them.                                      *)
FormSizesAreStored ==
  Editing /\ reorders = {} /\ removingKey = {} => ToSet(draft) \cap ids \subseteq variants

(* A removal that was refused leaves the size in the form: a stored size   *)
(* the form does not show could not be edited any more.                    *)
StoredSizesAreShown ==
  Editing /\ reorders = {} /\ removingKey = {} => variants \subseteq ToSet(draft)

(* The parts above, for the run of all pages.                              *)
EditorInv == FormSizesAreStored /\ StoredSizesAreShown
==============================================================================
