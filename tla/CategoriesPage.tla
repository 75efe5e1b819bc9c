--------------------------- MODULE CategoriesPage ---------------------------
(***************************************************************************)
(* CategoriesPage.tsx: categories are dragged into order, each drag sent   *)
(* as a whole order the page shows at once and takes back when it fails,   *)
(* while categories are created; requests may overtake each other.         *)
(***************************************************************************)
EXTENDS Integers, Sequences, FiniteSets, SequencesExt

CONSTANTS
  Category,    \* ids of categories
  First,       \* the order the page loaded
  MaxReorders, \* bound on the drags
  MaxInFlight  \* bound on the requests on their way

VARIABLES
  weights,  \* sort_weight of the stored categories
  list,     \* the categories as the page shows them
  drags,    \* number of drags so far
  sent,     \* reorders on their way: [id, order, previous]
  answers,  \* their answers: [id, ok, previous]
  creating, \* the category being created, if any
  notice, pageError

vars == <<weights, list, drags, sent, answers, creating, notice, pageError>>

Weighted(order) == [c \in ToSet(order) |-> 10 * CHOOSE i \in DOMAIN order : order[i] = c]

Init ==
  /\ weights = Weighted(First) /\ list = First /\ drags = 0
  /\ sent = {} /\ answers = {} /\ creating = {} /\ notice = FALSE /\ pageError = FALSE

MoveItem(items, from, to) == InsertAt(RemoveAt(items, from), to, items[from])

(* dropOn, or the arrow keys, and persistOrder up to its request           *)
PersistOrder(from, to) ==
  /\ drags < MaxReorders /\ Cardinality(sent) + Cardinality(answers) < MaxInFlight
  /\ from # to /\ drags' = drags + 1
  /\ list' = MoveItem(list, from, to)
  /\ sent' = sent \cup {[id |-> drags, order |-> list', previous |-> list]}
  /\ pageError' = FALSE
  /\ UNCHANGED <<weights, answers, creating, notice>>

(* reorderCategories on the server: all the weights, or none.              *)
Stored(r, ok) ==
  /\ sent' = sent \ {r} /\ answers' = answers \cup {[id |-> r.id, ok |-> ok, previous |-> r.previous]}
  /\ weights' = IF ok THEN [c \in DOMAIN weights |-> IF c \in ToSet(r.order)
                               THEN Weighted(r.order)[c] ELSE weights[c]]
                ELSE weights
  /\ UNCHANGED <<list, drags, creating, notice, pageError>>

(* Mutant: the order stays as it was dragged.                              *)
KeepOrder(r) == list

RestoreOrder(r) == r.previous

(* persistOrder after its request                                          *)
Answered(r) ==
  /\ answers' = answers \ {r}
  /\ IF r.ok THEN notice' = TRUE /\ UNCHANGED <<list, pageError>>
     ELSE list' = RestoreOrder(r) /\ pageError' = TRUE /\ UNCHANGED notice
  /\ UNCHANGED <<weights, drags, sent, creating>>

(* submit: the new category is last on the page, behind all it shows.      *)
Submit(c) ==
  /\ creating = {} /\ c \notin DOMAIN weights
  /\ creating' = {[id |-> c, weight |-> 10 * (Len(list) + 1)]} /\ pageError' = FALSE
  /\ UNCHANGED <<weights, list, drags, sent, answers, notice>>

Created(c) ==
  /\ creating' = {} /\ list' = Append(list, c.id) /\ notice' = TRUE
  /\ weights' = [k \in DOMAIN weights \cup {c.id} |-> IF k = c.id THEN c.weight ELSE weights[k]]
  /\ UNCHANGED <<drags, sent, answers, pageError>>

CreateFailed(c) ==
  /\ creating' = {} /\ pageError' = TRUE
  /\ UNCHANGED <<weights, list, drags, sent, answers, notice>>

Next ==
  \/ \E from, to \in DOMAIN list : PersistOrder(from, to)
  \/ \E r \in sent, ok \in BOOLEAN : Stored(r, ok)
  \/ \E r \in answers : Answered(r)
  \/ \E c \in Category : Submit(c)
  \/ \E c \in creating : Created(c) \/ CreateFailed(c)
Spec == Init /\ [][Next]_vars

-----------------------------------------------------------------------------

(* The page's list has each category once.                                 *)
TypeOK == IsInjective(list) /\ ToSet(list) \subseteq Category /\ \A r \in sent : r.id < MaxReorders

(* "Stored weights update from the order below.": when nothing is on its   *)
(* way, the order shown is the order the weights give.                     *)
OrderShownIsStored ==
  sent = {} /\ answers = {} /\ creating = {} =>
    \A i, j \in DOMAIN list : i < j => weights[list[i]] <= weights[list[j]]
==============================================================================
