---------------------------- MODULE HistoryPages -----------------------------
(***************************************************************************)
(* OrderHistoryPage.tsx and OrderHistoryDetailPage.tsx in one browser: the *)
(* list, whose query is the page's address, and an order opened from it,   *)
(* which may be voided.  The list is rendered, and loaded, some time after *)
(* its address changes.  Going from one order to another keeps the page.   *)
(* Searches, service types and payment methods are filters like a status.  *)
(***************************************************************************)
EXTENDS Integers, FiniteSets

CONSTANTS
  Order,
  Status,   \* statuses to filter by; "" is none
  Size,     \* rows per page; 10 is the default
  Matches,  \* how many orders there are by status
  MaxMoves  \* bound on what is clicked

VARIABLES
  route,    \* "list", or the order that is open
  url,      \* the list's query: [status, size, sort, asc, page]
  rendered, \* the one it was rendered with
  chosen,   \* the status and size last chosen
  list,     \* what is listed, if anything: the query it was loaded for
  loads,    \* loads on their way: [of, active, read, void]
  failed,   \* whether the last load failed
  shown,    \* the order that is shown, if any: [id, void]
  dialog,   \* [open, voiding, id, error]: a void's id is kept for its retries
  said,     \* the order last said to be void, if any
  requests, \* voids on their way: [order, id, step, here]
  voids,    \* by order, the id of its void, if it has one
  tried,    \* since the order was opened, [order, id] of the voids sent
  missed,   \* and whether an answer was lost, or a void met a load or another
  moves

listed == <<url, rendered, chosen, list>>
voiding == <<dialog, said, requests, tried, missed>>
vars == <<route, listed, loads, failed, shown, voiding, voids, moves>>

Default == [status |-> "", size |-> 10, sort |-> "businessDay", asc |-> FALSE, page |-> 1]
Closed == [open |-> FALSE, voiding |-> FALSE, id |-> {}, error |-> FALSE]
Inactive(set) == {[l EXCEPT !.active = FALSE] : l \in set}
IsLoading == \E l \in loads : l.active
Moved == moves < MaxMoves /\ moves' = moves + 1

Init ==
  /\ route = "list" /\ url = Default /\ rendered = Default
  /\ chosen = [status |-> Default.status, size |-> Default.size] /\ list = {}
  /\ loads = {[of |-> Default, active |-> TRUE]} /\ failed = FALSE
  /\ shown = {} /\ dialog = Closed /\ said = {} /\ requests = {} /\ tried = {} /\ missed = FALSE
  /\ voids = [o \in Order |-> {}] /\ moves = 0

-----------------------------------------------------------------------------
(* The list.                                                               *)

(* Mutant: a change starts from the query this render was given.           *)
RenderedQuery == rendered

LatestQuery == url

Goes(query) == url' = query /\ UNCHANGED <<route, rendered, list, loads, failed, shown, voiding, voids>>

UpdateStatus(s) ==
  Moved /\ Goes([LatestQuery EXCEPT !.status = s, !.page = 1]) /\ chosen' = [chosen EXCEPT !.status = s]
UpdateSize(n) ==
  Moved /\ Goes([LatestQuery EXCEPT !.size = n, !.page = 1]) /\ chosen' = [chosen EXCEPT !.size = n]
SortBy(sort) ==
  /\ Moved /\ list # {} /\ UNCHANGED chosen
  /\ Goes([LatestQuery EXCEPT !.sort = sort, !.page = 1,
                              !.asc = IF rendered.sort = sort THEN ~rendered.asc ELSE TRUE])

PagesOf(query) == (Matches[query.status] + query.size - 1) \div query.size
ItemsOn(query) ==
  {n \in 1 .. Matches[query.status] : n > (query.page - 1) * query.size /\ n <= query.page * query.size}
SetPage(n) ==
  /\ Moved /\ UNCHANGED chosen
  /\ \E query \in list : ItemsOn(query) # {} /\ n \in 1 .. PagesOf(query)
  /\ Goes([LatestQuery EXCEPT !.page = n])

(* The effect of a render with another query.                              *)
Render ==
  /\ rendered # url /\ rendered' = url
  /\ loads' = Inactive(loads) \cup {[of |-> url, active |-> TRUE]} /\ failed' = FALSE
  /\ UNCHANGED <<route, url, chosen, list, shown, voiding, voids, moves>>

IsActive(l) == l.active

Loaded(l) ==
  /\ loads' = loads \ {l} /\ list' = IF IsActive(l) THEN {l.of} ELSE list
  /\ UNCHANGED <<route, url, rendered, chosen, failed, shown, voiding, voids, moves>>

LoadFailed(l) ==
  /\ loads' = loads \ {l} /\ failed' = (failed \/ IsActive(l))
  /\ UNCHANGED <<route, listed, shown, voiding, voids, moves>>

-----------------------------------------------------------------------------
(* An order.                                                               *)

(* Mutant: a void's id is kept when the page goes on to another order.     *)
KeptId == dialog.id

FreshDialog == {}

Visit(o) ==
  /\ Moved /\ route # o /\ rendered = url /\ route' = o
  /\ loads' = (IF route = "list" THEN {} ELSE Inactive(loads))
                \cup {[of |-> o, active |-> TRUE, read |-> FALSE, void |-> FALSE]}
  /\ list' = {} /\ failed' = FALSE /\ said' = {} /\ tried' = {} /\ missed' = (requests # {})
  /\ dialog' = [Closed EXCEPT !.voiding = dialog.voiding, !.id = FreshDialog]
  /\ UNCHANGED <<url, rendered, chosen, shown, requests, voids>>

Back ==
  /\ route # "list" /\ Moved /\ route' = "list" /\ loads' = {[of |-> url, active |-> TRUE]} /\ failed' = FALSE
  /\ shown' = {} /\ dialog' = Closed /\ said' = {} /\ tried' = {} /\ missed' = FALSE
  /\ requests' = {[r EXCEPT !.here = FALSE] : r \in requests}
  /\ UNCHANGED <<url, rendered, chosen, list, voids>>

ReadOrder(l) ==
  /\ ~l.read /\ loads' = (loads \ {l}) \cup {[l EXCEPT !.read = TRUE, !.void = voids[l.of] # {}]}
  /\ UNCHANGED <<route, listed, failed, shown, voiding, voids, moves>>

OrderLoaded(l) ==
  /\ l.read /\ loads' = loads \ {l}
  /\ shown' = IF IsActive(l) THEN {[id |-> l.of, void |-> l.void]} ELSE shown
  /\ UNCHANGED <<route, listed, failed, voiding, voids, moves>>

OpenDialog(o) ==
  /\ ~o.void /\ ~dialog.open /\ dialog' = [dialog EXCEPT !.open = TRUE, !.error = FALSE]
  /\ UNCHANGED <<route, listed, loads, failed, shown, said, requests, tried, missed, voids, moves>>

CloseDialog ==
  /\ dialog.open /\ ~dialog.voiding /\ dialog' = [dialog EXCEPT !.open = FALSE, !.error = FALSE]
  /\ UNCHANGED <<route, listed, loads, failed, shown, said, requests, tried, missed, voids, moves>>

ConfirmVoid(o) ==
  /\ Moved /\ dialog.open /\ ~dialog.voiding
  /\ LET id == IF dialog.id = {} THEN moves' ELSE CHOOSE n \in dialog.id : TRUE
     IN /\ dialog' = [dialog EXCEPT !.id = {id}, !.voiding = TRUE, !.error = FALSE]
        /\ requests' = requests \cup {[order |-> o.id, id |-> id, step |-> "sent", here |-> TRUE]}
        /\ tried' = tried \cup {[order |-> o.id, id |-> id]}
  /\ missed' = (missed \/ IsLoading)
  /\ UNCHANGED <<route, listed, loads, failed, shown, said, voids>>

(* OrdersService.void: a void of the order with that id is answered again, *)
(* the id of another is refused, and so is an order that is void.          *)
Serve(r) ==
  /\ r.step = "sent"
  /\ LET isReplay == r.id \in voids[r.order]
         mayVoid == voids[r.order] = {} /\ \A o \in Order : r.id \notin voids[o]
     IN /\ voids' = IF mayVoid THEN [voids EXCEPT ![r.order] = {r.id}] ELSE voids
        /\ requests' = (requests \ {r}) \cup {[r EXCEPT
                                                !.step = IF isReplay \/ mayVoid THEN "done" ELSE "refused"]}
  /\ UNCHANGED <<route, listed, loads, failed, shown, dialog, said, tried, missed, moves>>

IsItsOrder(o, r) == o.id = r.order

Voided(r) ==
  /\ r.step = "done" /\ requests' = requests \ {r}
  /\ IF r.here
     THEN /\ shown' = {[o EXCEPT !.void = o.void \/ IsItsOrder(o, r)] : o \in shown}
          /\ dialog' = [dialog EXCEPT !.open = FALSE, !.voiding = FALSE] /\ said' = {r.order}
     ELSE UNCHANGED <<shown, dialog, said>>
  /\ UNCHANGED <<route, listed, loads, failed, tried, missed, voids, moves>>

(* It was refused, never served, or its answer is lost.                    *)
VoidFailed(r) ==
  /\ requests' = requests \ {r} /\ missed' = (missed \/ r.step = "done")
  /\ dialog' = IF r.here THEN [dialog EXCEPT !.voiding = FALSE, !.error = TRUE] ELSE dialog
  /\ UNCHANGED <<route, listed, loads, failed, shown, said, tried, voids, moves>>

(* A void by somebody else.                                                *)
Elsewhere(o) ==
  /\ Moved /\ voids[o] = {} /\ voids' = [voids EXCEPT ![o] = {0}] /\ missed' = TRUE
  /\ UNCHANGED <<route, listed, loads, failed, shown, dialog, said, requests, tried>>

Next ==
  \/ /\ route = "list"
     /\ \/ \E s \in Status : UpdateStatus(s)
        \/ \E n \in Size : UpdateSize(n)
        \/ \E sort \in {"businessDay", "total"} : SortBy(sort)
        \/ \E n \in 1 .. 2 : SetPage(n)
        \/ Render
        \/ \E l \in loads : Loaded(l) \/ LoadFailed(l)
        \/ \E query \in list : ItemsOn(query) # {} /\ \E o \in Order : Visit(o)
  \/ /\ route # "list"
     /\ \/ \E o \in Order : Visit(o)
        \/ Back \/ CloseDialog
        \/ \E l \in loads : ReadOrder(l) \/ OrderLoaded(l) \/ LoadFailed(l)
        \/ \E o \in shown : OpenDialog(o) \/ ConfirmVoid(o)
        \/ \E o \in Order : Elsewhere(o)
  \/ \E r \in requests : Serve(r) \/ Voided(r) \/ VoidFailed(r)
Spec == Init /\ [][Next]_vars

-----------------------------------------------------------------------------

(* Once nothing is loading, the list is the one of the query in force and  *)
(* the order is the one that was opened, unless the load failed.           *)
ShowsWhatWasAskedFor ==
  ~IsLoading /\ ~failed => IF route = "list" THEN list = {rendered} ELSE {o.id : o \in shown} = {route}

(* Changes that follow each other before a render are all kept.            *)
ChangesAreKept == chosen = [status |-> url.status, size |-> url.size]

(* Only a void that was stored is shown or told, and one that is stored is *)
(* shown unless its answer was lost, somebody else made it or it met a     *)
(* load.                                                                   *)
VoidsShownAreStored ==
  /\ \A o \in said : voids[o] # {}
  /\ \A o \in shown :
       /\ o.void => voids[o.id] # {}
       /\ o.id = route /\ ~IsLoading /\ ~failed /\ requests = {} /\ ~missed => o.void = (voids[o.id] # {})

(* A void that is sent again after its answer was lost is not refused for  *)
(* what the page did itself: when it is refused, somebody else, or a void  *)
(* sent before the order was opened, had voided the order.  That leaves    *)
(* out a void confirmed on the order shown before while the next one loads.*)
RefusedForOthersOnly ==
  \A r \in requests :
    /\ r.step = "refused" /\ [order |-> r.order, id |-> r.id] \in tried
    /\ \A t \in tried : t.order = route
    => voids[r.order] # {} /\ [order |-> r.order, id |-> CHOOSE n \in voids[r.order] : TRUE] \notin tried

HistoryPagesInv == ShowsWhatWasAskedFor /\ ChangesAreKept /\ VoidsShownAreStored /\ RefusedForOthersOnly
=============================================================================
