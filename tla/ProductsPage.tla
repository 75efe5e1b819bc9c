---------------------------- MODULE ProductsPage ----------------------------
(***************************************************************************)
(* ProductsPage.tsx: the products of a filter, loaded again whenever the   *)
(* filter changes, and switches that change a product's availability at    *)
(* once on the page, then on the server, and take the change back when     *)
(* the server's answer is an error.                                        *)
(***************************************************************************)
EXTENDS Integers, FiniteSets

CONSTANTS
  Product,  \* ids of products
  Filter,   \* filters: the products each lets through
  MaxMoves, \* bound on the changes of filter and of switches
  MaxAtOnce \* bound on the awaited requests

VARIABLES
  available, \* the stored products' availability
  filter, products, \* what is shown: availability by product
  loading, updatingId,
  loads,     \* listProducts on their way: [filter, active, result]
  changes,   \* availability changes on their way: [product, to, previous, ok]
  moves

vars == <<available, filter, products, loading, updatingId, loads, changes, moves>>

Nobody == ""
Pending == [done |-> FALSE, rows |-> <<>>]
Matching(f) == [p \in f |-> available[p]]

Init ==
  /\ available = [p \in Product |-> TRUE] /\ filter \in Filter /\ products = <<>>
  /\ loading = TRUE /\ updatingId = Nobody /\ moves = 0
  /\ loads = {[filter |-> filter, active |-> TRUE, result |-> Pending]} /\ changes = {}

(* The effect of a changed filter: the earlier load is given up.           *)
SetFilter(f) ==
  /\ Cardinality(changes) < MaxAtOnce
  /\ f # filter /\ filter' = f /\ moves < MaxMoves /\ moves' = moves + 1
  /\ loading' = TRUE
  /\ loads' = {[l EXCEPT !.active = FALSE] : l \in loads}
                \cup {[filter |-> f, active |-> TRUE, result |-> Pending]}
  /\ UNCHANGED <<available, products, updatingId, changes>>

(* The server lists the products.                                          *)
Listed(l) ==
  /\ ~l.result.done
  /\ loads' = (loads \ {l}) \cup {[l EXCEPT !.result = [done |-> TRUE, rows |-> Matching(l.filter)]]}
  /\ UNCHANGED <<available, filter, products, loading, updatingId, changes, moves>>

(* Mutant: the last answer wins.                                           *)
AnyRequest(l) == TRUE

IsActiveRequest(l) == l.active

Loaded(l) ==
  /\ l.result.done /\ loads' = loads \ {l}
  /\ IF IsActiveRequest(l) THEN products' = l.result.rows /\ loading' = FALSE
     ELSE UNCHANGED <<products, loading>>
  /\ UNCHANGED <<available, filter, updatingId, changes, moves>>

LoadFailed(l) ==
  /\ loads' = loads \ {l} /\ loading' = (loading /\ ~IsActiveRequest(l))
  /\ UNCHANGED <<available, filter, products, updatingId, changes, moves>>

(* changeAvailability up to its request: a switch is off while its own     *)
(* product is the one being updated.                                       *)
ChangeAvailability(p) ==
  /\ Cardinality(changes) < MaxAtOnce
  /\ ~loading /\ p \in DOMAIN products /\ updatingId # p
  /\ moves < MaxMoves /\ moves' = moves + 1
  /\ updatingId' = p /\ products' = [products EXCEPT ![p] = ~@]
  /\ changes' = changes \cup {[product |-> p, to |-> ~products[p], previous |-> products, stored |-> FALSE]}
  /\ UNCHANGED <<available, filter, loading, loads>>

Stored(c) ==
  /\ ~c.stored /\ available' = [available EXCEPT ![c.product] = c.to]
  /\ changes' = (changes \ {c}) \cup {[c EXCEPT !.stored = TRUE]}
  /\ UNCHANGED <<filter, products, loading, updatingId, loads, moves>>

Changed(c) ==
  /\ c.stored /\ changes' = changes \ {c} /\ updatingId' = Nobody
  /\ products' = [p \in DOMAIN products |-> IF p = c.product THEN c.to ELSE products[p]]
  /\ UNCHANGED <<available, filter, loading, loads, moves>>

(* Mutant: a change that failed stays on the page.                         *)
LeaveChanged(c) == products

(* The change failed, or its answer was lost.                              *)
Restored(c) == c.previous

ChangeFailed(c) ==
  /\ changes' = changes \ {c} /\ updatingId' = Nobody /\ products' = Restored(c)
  /\ UNCHANGED <<available, filter, loading, loads, moves>>

Next ==
  \/ \E f \in Filter : SetFilter(f)
  \/ \E l \in loads : Listed(l) \/ Loaded(l) \/ LoadFailed(l)
  \/ \E p \in Product : ChangeAvailability(p)
  \/ \E c \in changes : Stored(c) \/ Changed(c) \/ (~c.stored /\ ChangeFailed(c))
Spec == Init /\ [][Next]_vars

-----------------------------------------------------------------------------

(* The page shows products and their availability.                         *)
TypeOK == DOMAIN products \subseteq Product /\ updatingId \in Product \cup {Nobody}

(* A load's answer shows the products of the filter chosen last, never an  *)
(* earlier filter's.                                                       *)
LoadsAreForTheFilter ==
  [][loading /\ ~loading' /\ products' # products => DOMAIN products' = filter']_vars

(* "Availability changes save immediately": with no request on its way,    *)
(* each switch shows what is stored.                                       *)
SwitchesShowWhatIsStored ==
  changes = {} /\ loads = {} => \A p \in DOMAIN products : products[p] = available[p]
==============================================================================
