--------------------------- MODULE InventoryItems ---------------------------
(***************************************************************************)
(* The owner's stock items, their par levels and their categories          *)
(* (apps/api/src/inventory/inventory-items.service.ts and                  *)
(* stock-categories.service.ts), edited by concurrent requests while staff *)
(* count the items and the catalog maps packaging to them.  A request      *)
(* reads and validates in one step and writes in another; it has no        *)
(* transaction, so only the constraints of the database (the SQL under     *)
(* apps/api/prisma/migrations) look at both.                               *)
(*                                                                         *)
(* A category name is known by its case-folded form.  Each item has the    *)
(* par of one day type.                                                    *)
(***************************************************************************)
EXTENDS RestockBands, FiniteSets

CONSTANTS
  Request,   \* HTTP requests
  Item, Category, Name,
  Threshold, \* quantities that pars are made of
  Calls      \* what requests ask for

Method == {"QUANTITY", "LEVEL"}

(* A par of a level-counted item, or the bands of a quantity-counted one.  *)
ParBands == [par : {{q} : q \in Threshold}, low : Nullable(Threshold), urgent : Nullable(Threshold)]
LevelPar(l) == [method |-> "LEVEL", level |-> l]
QuantityPar(b) == [method |-> "QUANTITY", bands |-> b]
NoPar == [method |-> "none"]

(* What an update mentions of the method and of the mark: {} leaves it.    *)
Patch == [method : Nullable(Method), reconciled : Nullable(BOOLEAN)]

Par == [method : {"LEVEL"}, level : Level] \cup [method : {"QUANTITY"}, bands : ParBands]
Row == [category : Category, method : Method, reconciled : BOOLEAN]
Call ==
  [op : {"create"}, category : Category, method : Method, reconciled : BOOLEAN]
  \cup [op : {"update"}, item : Item, patch : Patch]
  \cup [op : {"remove"}, item : Item]
  \cup [op : {"par"}, item : Item, par : Par]
  \cup [op : {"count"}, item : Item, shape : Method]
  \cup [op : {"name"}, category : Category, name : Name]
  \cup [op : {"removeCategory"}, category : Category]

VARIABLES
  item,     \* inventory_items: NoItem, or category, method and marks
  par,      \* par_levels, by item
  counted,  \* of each item, the kind of value in its last count line, if any
  mapped,   \* is the item some product's cup or lid
  category, \* stock_categories: their names, NoName when absent
  arg       \* what each request is about to write, or NoArg

db == <<item, par, counted, mapped, category>>
vars == <<item, par, counted, mapped, category, arg>>

NoItem == [method |-> "none"]
NoName == "none"
NoArg == [op |-> "none"]
CallsAreTyped == Calls \subseteq Call /\ Threshold \subseteq Nat /\ NoName \notin Name

Exists(i) == item[i] # NoItem
HasCategory(c) == category[c] # NoName
ItemsOf(c) == {i \in Item : Exists(i) /\ item[i].category = c}

-----------------------------------------------------------------------------
(* What the service validates.                                             *)

(* validateReconciled                                                      *)
ReconciledFits(reconciled, method) == reconciled => method = "QUANTITY"

(* validateParLevel                                                        *)
ParFits(p, method) ==
  /\ p.method = method
  /\ p.method = "QUANTITY" =>
       /\ p.bands.low = {} => p.bands.urgent = {}
       /\ \A l \in p.bands.low, q \in p.bands.par : l <= q
       /\ \A u \in p.bands.urgent, l \in p.bands.low : u <= l

(* The item after an update that read it as it was.                        *)
Patched(was, p) ==
  [was EXCEPT !.method = IF p.method = {} THEN @ ELSE CHOOSE m \in p.method : TRUE,
              !.reconciled = IF p.reconciled = {} THEN @ ELSE CHOOSE b \in p.reconciled : TRUE]

(* Does what a request asks for pass the checks it makes before it writes? *)
Valid(call) ==
  CASE call.op = "create" -> HasCategory(call.category) /\ ReconciledFits(call.reconciled, call.method)
    [] call.op = "update" -> /\ Exists(call.item)
                             /\ LET next == Patched(item[call.item], call.patch)
                                IN  ReconciledFits(next.reconciled, next.method)
    [] call.op = "remove" -> Exists(call.item) /\ counted[call.item] = {} /\ ~mapped[call.item]
    [] call.op = "par" -> Exists(call.item) /\ ParFits(call.par, item[call.item].method)
    [] call.op = "count" -> Exists(call.item) /\ call.shape = item[call.item].method
    [] call.op = "name" -> \A c \in Category : category[c] = call.name => c = call.category
    [] call.op = "removeCategory" -> HasCategory(call.category) /\ ItemsOf(call.category) = {}

-----------------------------------------------------------------------------
(* The life of a request.                                                  *)

At(r, op) == arg[r].op = op
Finish(r) == arg' = [arg EXCEPT ![r] = NoArg]

(* A request reads and validates, or is answered with what does not fit.   *)
Start(r) ==
  /\ arg[r] = NoArg
  /\ \E call \in Calls :
       /\ Valid(call)
       /\ arg' = [arg EXCEPT ![r] = call]
  /\ UNCHANGED db

(* A constraint refused the write (rethrowConstraint), or the row is gone. *)
Refuse(r) ==
  /\ Finish(r)
  /\ UNCHANGED db

ItemCreate(r) ==
  LET c == arg[r] IN
  /\ At(r, "create")
  /\ \/ /\ HasCategory(c.category) \* foreign key
        /\ \E i \in Item :
             /\ ~Exists(i)
             /\ item' = [item EXCEPT ![i] = [category |-> c.category, method |-> c.method,
                                             reconciled |-> c.reconciled]]
        /\ Finish(r)
        /\ UNCHANGED <<par, counted, mapped, category>>
     \/ ~HasCategory(c.category) /\ Refuse(r)

(* inventory_items_reconciled_count_method_check                           *)
RowChecks(i, row) == ReconciledFits(row.reconciled, row.method)

(* The UPDATE sets the columns that the request mentions, and no others.   *)
ItemUpdate(r) ==
  LET c == arg[r]
      row == Patched(item[c.item], c.patch) IN
  /\ At(r, "update")
  /\ \/ /\ Exists(c.item) /\ RowChecks(c.item, row)
        /\ item' = [item EXCEPT ![c.item] = row]
        /\ Finish(r)
        /\ UNCHANGED <<par, counted, mapped, category>>
     \/ /\ IF Exists(c.item) THEN ~RowChecks(c.item, row) ELSE TRUE
        /\ Refuse(r)

(* Mutant: the references counted before the DELETE decide alone.          *)
Unreferenced(i) == TRUE

(* The foreign keys of count lines and of product sizes.                   *)
MayDelete(i) == counted[i] = {} /\ ~mapped[i]

ItemRemove(r) ==
  LET i == arg[r].item IN
  /\ At(r, "remove")
  /\ \/ /\ Exists(i) /\ MayDelete(i)
        /\ item' = [item EXCEPT ![i] = NoItem]
        /\ par' = [par EXCEPT ![i] = NoPar] \* ON DELETE CASCADE
        /\ Finish(r)
        /\ UNCHANGED <<counted, mapped, category>>
     \/ /\ ~(Exists(i) /\ MayDelete(i))
        /\ Refuse(r)

ParUpsert(r) ==
  LET i == arg[r].item IN
  /\ At(r, "par")
  /\ \/ /\ Exists(i)
        /\ par' = [par EXCEPT ![i] = arg[r].par]
        /\ Finish(r)
        /\ UNCHANGED <<item, counted, mapped, category>>
     \/ ~Exists(i) /\ Refuse(r)

(* stock-counts.service.ts, as far as the item goes.                       *)
CountLine(r) ==
  LET i == arg[r].item IN
  /\ At(r, "count")
  /\ \/ /\ Exists(i)
        /\ counted' = [counted EXCEPT ![i] = {arg[r].shape}]
        /\ Finish(r)
        /\ UNCHANGED <<item, par, mapped, category>>
     \/ ~Exists(i) /\ Refuse(r)

(* stock_categories_name_case_insensitive_key                              *)
NameIsFree(c, n) == \A d \in Category : category[d] = n => d = c

(* A category is created or renamed.                                       *)
CategoryName(r) ==
  LET c == arg[r] IN
  /\ At(r, "name")
  /\ \/ /\ NameIsFree(c.category, c.name)
        /\ category' = [category EXCEPT ![c.category] = c.name]
        /\ Finish(r)
        /\ UNCHANGED <<item, par, counted, mapped>>
     \/ ~NameIsFree(c.category, c.name) /\ Refuse(r)

CategoryRemove(r) ==
  LET c == arg[r].category IN
  /\ At(r, "removeCategory")
  /\ \/ /\ HasCategory(c) /\ ItemsOf(c) = {} \* foreign key
        /\ category' = [category EXCEPT ![c] = NoName]
        /\ Finish(r)
        /\ UNCHANGED <<item, par, counted, mapped>>
     \/ ~(HasCategory(c) /\ ItemsOf(c) = {}) /\ Refuse(r)

(* The catalog maps an item as a size's cup or lid, or no longer does.     *)
MapPackaging(i) ==
  /\ Exists(i)
  /\ mapped' = [mapped EXCEPT ![i] = ~@]
  /\ UNCHANGED <<item, par, counted, category, arg>>

-----------------------------------------------------------------------------
Init ==
  /\ \E c \in Category, n \in Name :
       category = [d \in Category |-> IF d = c THEN n ELSE NoName]
  /\ item = [i \in Item |-> NoItem]
  /\ par = [i \in Item |-> NoPar]
  /\ counted = [i \in Item |-> {}]
  /\ mapped = [i \in Item |-> FALSE]
  /\ arg = [r \in Request |-> NoArg]

Next ==
  \/ \E r \in Request :
       \/ Start(r) \/ ItemCreate(r) \/ ItemUpdate(r) \/ ItemRemove(r) \/ ParUpsert(r)
       \/ CountLine(r) \/ CategoryName(r) \/ CategoryRemove(r)
  \/ \E i \in Item : MapPackaging(i)

Spec == Init /\ [][Next]_vars

-----------------------------------------------------------------------------
(* A reconciled item is counted by quantity, although two updates may each *)
(* validate their half of a row that the other one is changing             *)
(* (inventory-items.service.ts:135; the CHECK of the table decides).       *)
ReconciledIsCounted ==
  \A i \in Item : Exists(i) => ReconciledFits(item[i].reconciled, item[i].method)

(* No deletion leaves a count line, a product size or an item with a row   *)
(* that is gone, whatever was referenced after the request looked.         *)
ReferencesResolve ==
  \A i \in Item :
    /\ counted[i] # {} \/ mapped[i] \/ par[i] # NoPar => Exists(i)
    /\ Exists(i) => HasCategory(item[i].category)

(* Two categories never have one name, but for case, when they are created *)
(* or renamed side by side.                                                *)
NamesAreDistinct ==
  \A c, d \in Category : c # d /\ HasCategory(c) => category[c] # category[d]

(* With the pars that may be stored, counting more of an item never makes  *)
(* it more urgent, and less than par is never enough                       *)
(* (restock.service.ts:58 looks at the thresholds one by one).             *)
MoreIsNeverMoreUrgent ==
  \A i \in Item :
    /\ par[i].method = "QUANTITY" =>
         LET b == par[i].bands IN
         \A q \in Threshold \cup {0} :
           /\ QuantityStatus(q, b) <= QuantityStatus(q + 1, b)
           /\ (\E p \in b.par : q < p) => QuantityStatus(q, b) # ENOUGH
    /\ par[i].method = "LEVEL" =>
         LET p == par[i].level IN
         \A l \in 0 .. 6 :
           /\ LevelStatus(l, {p}) <= LevelStatus(l + 1, {p})
           /\ l < p => LevelStatus(l, {p}) # ENOUGH

(* The table of items, its references and the names of categories stay     *)
(* sound under requests that validate against rows others then change      *)
(* (inventory-items.service.ts and stock-categories.service.ts).           *)
ItemsInv == ReconciledIsCounted /\ ReferencesResolve /\ NamesAreDistinct /\ MoreIsNeverMoreUrgent
=============================================================================
