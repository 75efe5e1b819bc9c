------------------------------- MODULE Catalog -------------------------------
(***************************************************************************)
(* CatalogService (apps/api/src/catalog): the sizes of one product and the *)
(* names of the categories, written by requests that check before they     *)
(* write.  Several administrators write at once, and orders sell sizes.    *)
(*                                                                         *)
(* A name is what is left of it without case; a spelling is the name as it *)
(* is stored.                                                              *)
(***************************************************************************)
EXTENDS Integers, Sequences, FiniteSets, SequencesExt

CONSTANTS
  Request,    \* HTTP requests
  Size,       \* ids of product_variants
  Category,   \* ids of categories
  Name,       \* names without case
  Spelling,   \* the ways to spell a name
  FirstSizes, \* the sizes the product is created with
  Calls       \* the calls each request may be

(* An input size may carry the id of a saved one.                          *)
SizeInput == [id : {S \in SUBSET Size : Cardinality(S) <= 1}, name : Name, spelling : Spelling]

Op == {"updateProduct", "removeSize", "reorderSizes", "category"}

VARIABLES
  sizes,      \* product_variants of the product, by id
  sold,       \* the variants sale_lines refer to
  categories, \* categories, by id
  pc, arg

vars == <<sizes, sold, categories, pc, arg>>

Absent == [name |-> "", spelling |-> "", weight |-> 0]
NoCategory == [name |-> "", spelling |-> ""]
NoArg == [op |-> "reorderSizes"]
Existing(rows, none) == {i \in DOMAIN rows : rows[i] # none}
Sizes == Existing(sizes, Absent)
Row(s, weight) == [name |-> s.name, spelling |-> s.spelling, weight |-> weight]

Init ==
  /\ sizes = FirstSizes /\ sold = {} /\ categories = [c \in Category |-> NoCategory]
  /\ pc = [q \in Request |-> "idle"] /\ arg = [q \in Request |-> NoArg]

Finish(q) == pc' = [pc EXCEPT ![q] = "done"] /\ arg' = [arg EXCEPT ![q] = NoArg]
Rows == <<sizes, sold, categories>>

Begin(q, c) ==
  /\ pc[q] = "idle" /\ pc' = [pc EXCEPT ![q] = "check"]
  /\ arg' = [arg EXCEPT ![q] = c] /\ UNCHANGED Rows

(* validateSizeNames: the sizes supplied, without case.                    *)
NamesAreUnique(ss) == \A i, j \in DOMAIN ss : ss[i].name = ss[j].name => i = j

Supplied(ss) == UNION {s.id : s \in ToSet(ss)}

(* removeSize looks for the size among the product's, of which one must be *)
(* left, and for sale lines of it.                                         *)
MayRemove(s) == s \in Sizes /\ Cardinality(Sizes) # 1 /\ s \notin sold

(* ensureCategoryNameAvailable                                             *)
CategoryNameIsFree(c) ==
  \A k \in Existing(categories, NoCategory) \ {c.id} : categories[k].name # c.name

(* What each operation checks before it writes.                            *)
Passes(c) ==
  CASE c.op = "updateProduct" -> NamesAreUnique(c.sizes)
    [] c.op = "removeSize"    -> MayRemove(c.size)
    [] c.op = "reorderSizes"  -> ToSet(c.order) \subseteq Sizes
    [] c.op = "category"      -> CategoryNameIsFree(c)

Check(q) ==
  /\ pc[q] = "check"
  /\ IF Passes(arg[q]) THEN pc' = [pc EXCEPT ![q] = "write"] /\ UNCHANGED arg ELSE Finish(q)
  /\ UNCHANGED Rows

(* product_variants_product_id_name_key                                    *)
FitsSizeIndex(rows, none) == \A i, j \in Existing(rows, none) :
  rows[i].name = rows[j].name /\ rows[i].spelling = rows[j].spelling => i = j

(* Mutant: the form is all there is of the product.                        *)
UpdatedOnly(ss, ids) ==
  [i \in Size |-> IF \E k \in DOMAIN ss : ids[k] = i
                  THEN LET k == CHOOSE k \in DOMAIN ss : ids[k] = i IN Row(ss[k], k * 10)
                  ELSE Absent]

(* The rows of updateProduct: supplied ids are rewritten, the rest get new *)
(* ids, and sizes that are not supplied stay.  ids says who gets which.    *)
Updated(ss, ids) ==
  [i \in Size |-> IF \E k \in DOMAIN ss : ids[k] = i
                  THEN LET k == CHOOSE k \in DOMAIN ss : ids[k] = i IN Row(ss[k], k * 10)
                  ELSE sizes[i]]

(* updateProduct's transaction; one of its own updates locks the product,  *)
(* so that two of them do not mix.                                         *)
UpdateProduct(q) ==
  LET ss == arg[q].sizes IN
  /\ pc[q] = "write" /\ arg[q].op = "updateProduct"
  /\ IF Supplied(ss) \subseteq Sizes
     THEN \E ids \in [DOMAIN ss -> Size] :
       /\ \A k \in DOMAIN ss : IF ss[k].id = {} THEN ids[k] \notin Sizes ELSE ids[k] \in ss[k].id
       /\ \A k, l \in DOMAIN ss : ids[k] = ids[l] => k = l
       /\ sizes' = IF FitsSizeIndex(Updated(ss, ids), Absent) THEN Updated(ss, ids) ELSE sizes
     ELSE UNCHANGED sizes
  /\ Finish(q) /\ UNCHANGED <<sold, categories>>

(* sale_lines_product_variant_id_fkey                                      *)
IsReferenced(s) == s \in sold

RemoveSize(q) ==
  /\ pc[q] = "write" /\ arg[q].op = "removeSize"
  /\ sizes' = IF IsReferenced(arg[q].size) THEN sizes ELSE [sizes EXCEPT ![arg[q].size] = Absent]
  /\ Finish(q) /\ UNCHANGED <<sold, categories>>

(* Each size gets the weight of its place; a size that is gone fails all.  *)
ReorderSizes(q) ==
  LET order == arg[q].order IN
  /\ pc[q] = "write" /\ arg[q].op = "reorderSizes"
  /\ sizes' = IF ToSet(order) \subseteq Sizes
              THEN [i \in Size |-> IF i \in ToSet(order)
                     THEN [sizes[i] EXCEPT !.weight = 10 * CHOOSE k \in DOMAIN order : order[k] = i]
                     ELSE sizes[i]]
              ELSE sizes
  /\ Finish(q) /\ UNCHANGED <<sold, categories>>

(* categories_name_case_insensitive_key                                    *)
FitsNameIndex(rows) == \A i, j \in Existing(rows, NoCategory) : rows[i].name = rows[j].name => i = j

(* createCategory and updateCategory                                       *)
WriteCategory(q) ==
  LET c == arg[q]
      rows == [categories EXCEPT ![c.id] = [name |-> c.name, spelling |-> c.spelling]]
  IN
  /\ pc[q] = "write" /\ c.op = "category"
  /\ categories' = IF FitsNameIndex(rows) THEN rows ELSE categories
  /\ Finish(q) /\ UNCHANGED <<sizes, sold>>

(* OrdersService writes a line of a size that exists.                      *)
Sell(s) ==
  /\ s \in Sizes /\ sold' = sold \cup {s} /\ sold' # sold
  /\ UNCHANGED <<sizes, categories, pc, arg>>

Step(q) == Check(q) \/ UpdateProduct(q) \/ RemoveSize(q) \/ ReorderSizes(q) \/ WriteCategory(q)
Next ==
  \/ \E q \in Request : Step(q) \/ \E c \in Calls[q] : Begin(q, c)
  \/ \E s \in Size : Sell(s)

Spec == Init /\ [][Next]_vars

-----------------------------------------------------------------------------

(* The rows and the calls have their shapes.                               *)
TypeOK ==
  /\ \A i \in Sizes : sizes[i].name \in Name /\ sizes[i].spelling \in Spelling
  /\ sold \subseteq Size
  /\ \A q \in Request : arg[q].op \in Op
       /\ (arg[q].op = "updateProduct" => ToSet(arg[q].sizes) \subseteq SizeInput)

(* A size an order sold stays, though removeSize looked before the order   *)
(* came: orders keep their lines' products.                                *)
SoldSizesAreKept == sold \subseteq Sizes

(* No two sizes of the product are spelled alike, whichever forms          *)
(* administrators save at once.                                            *)
SpellingsAreDistinct == \A i, j \in Sizes :
  sizes[i].name = sizes[j].name /\ sizes[i].spelling = sizes[j].spelling => i = j

(* No two categories have one name (categories ignore letter case).        *)
CategoryNamesAreDistinct == \A i, j \in Existing(categories, NoCategory) :
  categories[i].name = categories[j].name => i = j

(* What administrators and orders at work at once may not break in the     *)
(* catalog (catalog.service.ts checks before it writes).                   *)
CatalogInv == SoldSizesAreKept /\ SpellingsAreDistinct /\ CategoryNamesAreDistinct

(* A size is not changed by another's form: what a request neither names   *)
(* nor removes stays as it is.                                             *)
OthersAreLeft ==
  [][\A q \in Request : pc[q] = "write" /\ pc'[q] = "done" /\ arg[q].op = "updateProduct" =>
       \A s \in Sizes \ Supplied(arg[q].sizes) : sizes'[s] = sizes[s]]_vars

-----------------------------------------------------------------------------
(* What the proofs of Records_proof assume of the forms.                   *)

SizeRow == [name : Name \cup {""}, spelling : Spelling \cup {""}, weight : Int]

(* The forms are sequences of inputs, an order is a sequence of sizes, and *)
(* the product is created with sizes that are not spelled alike.           *)
FormsAreTyped ==
  /\ \A q \in Request : \A c \in Calls[q] :
       /\ c.op = "updateProduct" => c.sizes \in Seq(SizeInput)
       /\ c.op = "reorderSizes" => c.order \in Seq(Size)
  /\ FirstSizes \in [Size -> SizeRow]
  /\ FitsSizeIndex(FirstSizes, Absent)
==============================================================================
