----------------------------- MODULE JournalPage -----------------------------
(***************************************************************************)
(* JournalPage.tsx with BulkAddPanel.tsx: a ledger is selected, its        *)
(* deposits and its closed days without one are loaded apart, deposits are *)
(* recorded one by one or many at once, and after each write the page      *)
(* reads the ledger again.  A withdrawal is like a deposit that no day     *)
(* refuses and is left out.                                                *)
(***************************************************************************)
EXTENDS Integers, FiniteSets

CONSTANTS
  Ledger, First,  \* the ledgers, and the one the list shows first
  Day,            \* the business days closed since the ledgers' start
  Amount,         \* amounts an administrator types
  Suggestion,     \* by ledger, the amount suggested for each of its days: a set of at most one
  MaxMoves,       \* bound on what the administrator does
  MaxAtOnce       \* bound on the writes that are under way

VARIABLES
  recorded,   \* the server's deposits: by ledger, amounts by day
  page, rows, \* what the page shows, and the rows of Bulk add by day
  reads,      \* loads on their way: [of, ledger, current, answer]
  writes,     \* writes on their way, with the refresh after them:
              \* [kind, ledger, shown, was, amounts, step, answer]
  missed,     \* the ledger was selected with a write on its way, or something was stored since that
              \* the page was not told of
  moves

vars == <<recorded, page, rows, reads, writes, missed, moves>>

Empty == [d \in {} |-> 0]
Missing(l) == [ledger |-> l, days |-> Day \ DOMAIN recorded[l]]
Detail(l) == [ledger |-> l, amounts |-> recorded[l]]

Read(of, l) == [of |-> of, ledger |-> l, current |-> TRUE, answer |-> {}]

(* The effect that loads: the load before it is given up.                  *)
Reload(of, l, rs) == {IF r.of = of THEN [r EXCEPT !.current = FALSE] ELSE r : r \in rs} \cup {Read(of, l)}

Init ==
  /\ recorded = [l \in Ledger |-> Empty]
  /\ page = [selected |-> First, detail |-> {}, detailError |-> FALSE, missing |-> {}, missingError |-> FALSE,
             bulk |-> FALSE, entry |-> {}, saving |-> FALSE, deleting |-> FALSE, bulkSaving |-> FALSE, conflict |-> FALSE]
  /\ rows = [d \in {} |-> {}] /\ writes = {} /\ missed = FALSE /\ moves = 0
  /\ reads = {Read("detail", First), Read("missing", First)}

-----------------------------------------------------------------------------
(* What is rendered.                                                       *)

Loading(of, rs) == \E r \in rs : r.of = of /\ r.current

Workspace(p, rs) ==
  /\ ~p.detailError /\ ~Loading("detail", rs)
  /\ \E d \in p.detail : d.ledger = p.selected

Panel(p, rs) == p.bulk /\ Workspace(p, rs)

DaysOf(p) == UNION {m.days : m \in p.missing}
SuggestionFor(p, d) == UNION {Suggestion[m.ledger] : m \in {n \in p.missing : d \in n.days}}

DefaultRow(p, d) == [ticked |-> SuggestionFor(p, d) # {}, amount |-> SuggestionFor(p, d), dirty |-> FALSE]

(* Mutant: the rows are made anew for every list.                          *)
FreshRows(p, rs) == [d \in DaysOf(p) |-> DefaultRow(p, d)]

(* mergeRowStates: a day that had a row keeps it.                          *)
MergedRows(p, rs) == [d \in DaysOf(p) |-> IF d \in DOMAIN rs THEN rs[d] ELSE DefaultRow(p, d)]

(* The panel's effect: its rows live as long as it does and follow the     *)
(* list of days.                                                           *)
Shown(p, rs, changed) ==
  /\ page' = p
  /\ rows' = IF ~Panel(p, rs) THEN [d \in {} |-> {}]
             ELSE IF p.missing # page.missing \/ ~Panel(page, reads) THEN MergedRows(p, changed) ELSE changed

-----------------------------------------------------------------------------
(* Loads.                                                                  *)

SelectLedger(l) ==
  /\ l # page.selected /\ page.entry = {} /\ moves < MaxMoves /\ moves' = moves + 1
  /\ reads' = Reload("missing", l, Reload("detail", l, reads)) /\ missed' = (writes # {})
  /\ Shown([page EXCEPT !.selected = l, !.detailError = FALSE, !.missingError = FALSE], reads', rows)
  /\ UNCHANGED <<recorded, writes>>

Retry(of) ==
  /\ \/ of = "detail" /\ page.detailError
     \/ of = "missing" /\ Panel(page, reads) /\ ~Loading(of, reads) /\ ~page.bulkSaving
  /\ moves < MaxMoves /\ moves' = moves + 1
  /\ reads' = Reload(of, page.selected, reads)
  /\ Shown([page EXCEPT !.detailError = (of # "detail" /\ @),
          !.missingError = (of # "missing" /\ @)], reads', rows)
  /\ UNCHANGED <<recorded, writes, missed>>

(* The server reads; a load that was given up first just ends.             *)
Answer(r) ==
  /\ r.answer = {} /\ r.current
  /\ reads' = (reads \ {r}) \cup {[r EXCEPT !.answer = {IF r.of = "detail" THEN Detail(r.ledger)
                                                        ELSE Missing(r.ledger)}]}
  /\ UNCHANGED <<recorded, page, rows, writes, missed, moves>>

IsCurrent(r) == r.current

Answered(r) ==
  /\ r.answer # {} /\ reads' = reads \ {r}
  /\ Shown(IF ~IsCurrent(r) THEN page
           ELSE IF r.of = "detail" THEN [page EXCEPT !.detail = r.answer]
                ELSE [page EXCEPT !.missing = r.answer], reads', rows)
  /\ UNCHANGED <<recorded, writes, missed, moves>>

ReadFailed(r) ==
  /\ reads' = reads \ {r}
  /\ Shown(IF ~r.current THEN page
           ELSE IF r.of = "detail" THEN [page EXCEPT !.detail = {}, !.detailError = TRUE]
           ELSE [page EXCEPT !.missing = {}, !.missingError = TRUE], reads', rows)
  /\ UNCHANGED <<recorded, writes, missed, moves>>

-----------------------------------------------------------------------------
(* Forms.                                                                  *)

Typing(p, changed) ==
  /\ moves < MaxMoves /\ moves' = moves + 1 /\ page.detail # {}
  /\ Shown(p, reads, changed) /\ UNCHANGED <<recorded, reads, writes, missed>>

OpenSection ==
  /\ page.entry = {} /\ Workspace(page, reads)
  /\ Shown([page EXCEPT !.bulk = ~@], reads, rows)
  /\ UNCHANGED <<recorded, reads, writes, missed, moves>>

(* A form, for a new deposit or the one of a ledger's day.                 *)
Entry(l, was, d, amount, follows) ==
  [ledger |-> l, was |-> was, day |-> d, amount |-> amount, follows |-> follows]

(* openNewEntry: the last missing day, with its suggestion.                *)
OpenNewEntry ==
  /\ page.entry = {} /\ ~page.bulk /\ Workspace(page, reads)
  /\ \E d \in Day :
       /\ DaysOf(page) # {} => d \in DaysOf(page) /\ \A e \in DaysOf(page) : e <= d
       /\ Typing([page EXCEPT !.entry = {Entry(page.selected, {}, d, SuggestionFor(page, d), TRUE)},
                   !.conflict = FALSE], rows)

OpenEditDeposit ==
  /\ page.entry = {} /\ ~page.bulk /\ Workspace(page, reads)
  /\ \E l \in page.detail : \E d \in DOMAIN l.amounts :
       Typing([page EXCEPT !.entry = {Entry(l.ledger, {d}, d, {l.amounts[d]}, FALSE)},
                !.conflict = FALSE], rows)

(* changeEntryDate, changeEntryAmount, changeAmountSource.                 *)
ChangeEntry(e) ==
  /\ ~page.saving
  /\ \/ \E d \in Day \ {e.day} :
          Typing([page EXCEPT !.conflict = FALSE,
                    !.entry = {[e EXCEPT !.day = d, !.amount = IF e.follows THEN SuggestionFor(page, d) ELSE @]}], rows)
     \/ \E a \in Amount : Typing([page EXCEPT !.entry = {[e EXCEPT !.amount = {a}, !.follows = FALSE]}], rows)
     \/ /\ SuggestionFor(page, e.day) # {}
        /\ Typing([page EXCEPT !.entry = {[e EXCEPT !.amount = SuggestionFor(page, e.day), !.follows = TRUE]}], rows)

CloseEntry == page.entry # {} /\ ~page.saving /\ Typing([page EXCEPT !.entry = {}], rows)

(* toggleRow, changeAmount, useSuggestion.                                 *)
ChangeRow(d) ==
  /\ ~page.bulkSaving /\ d \in DOMAIN rows
  /\ \/ Typing(page, [rows EXCEPT ![d].ticked = ~@])
     \/ \E a \in Amount : Typing(page, [rows EXCEPT ![d].amount = {a}, ![d].dirty = TRUE])
     \/ rows[d].dirty /\ SuggestionFor(page, d) # {}
        /\ Typing(page, [rows EXCEPT ![d].amount = SuggestionFor(page, d), ![d].dirty = FALSE])

-----------------------------------------------------------------------------
(* Writes, each followed by a refresh of the ledger that was selected.     *)

Send(kind, l, was, amounts, p) ==
  /\ Cardinality(writes) < MaxAtOnce /\ moves < MaxMoves /\ moves' = moves + 1
  /\ writes' = writes \cup {[kind |-> kind, ledger |-> l, shown |-> page.selected, was |-> was, amounts |-> amounts,
                             step |-> "sent", answer |-> {}]}
  /\ Shown(p, reads, rows) /\ UNCHANGED <<recorded, reads, missed>>

SaveEntry(e) ==
  /\ ~page.saving
  /\ \E l \in page.detail : \E a \in e.amount :
       Send("entry", IF e.was = {} THEN l.ledger ELSE e.ledger, e.was, [d \in {e.day} |-> a],
               [page EXCEPT !.saving = TRUE, !.conflict = FALSE])

SaveBulk ==
  LET ticked == {d \in DOMAIN rows : rows[d].ticked}
  IN /\ page.bulk /\ ~page.bulkSaving /\ ticked # {} /\ \A d \in ticked : rows[d].amount # {}
     /\ Send("bulk", page.selected, {}, [d \in ticked |-> CHOOSE a \in rows[d].amount : TRUE],
             [page EXCEPT !.bulkSaving = TRUE, !.conflict = FALSE])

ConfirmDelete(d) ==
  /\ ~page.deleting /\ ~page.bulk /\ Workspace(page, reads)
  /\ \E l \in page.detail : d \in DOMAIN l.amounts
  /\ Send("delete", page.selected, {d}, Empty, [page EXCEPT !.deleting = TRUE])

Put(w, step) == writes' = (writes \ {w}) \cup {[w EXCEPT !.step = step]}

(* The server, in one transaction: days that are recorded refuse it, and   *)
(* an entry that is gone cannot be changed.                                *)
Store(w) ==
  LET here == recorded[w.ledger]
      kept == [d \in DOMAIN here \ w.was |-> here[d]]
  IN /\ w.step = "sent"
     /\ IF ~(w.was \subseteq DOMAIN here) THEN Put(w, "refused") /\ UNCHANGED recorded
        ELSE IF DOMAIN kept \cap DOMAIN w.amounts # {} THEN Put(w, "conflict") /\ UNCHANGED recorded
        ELSE /\ Put(w, "stored")
             /\ recorded' = [recorded EXCEPT ![w.ledger] =
                               [d \in DOMAIN kept \cup DOMAIN w.amounts |->
                                  IF d \in DOMAIN kept THEN kept[d] ELSE w.amounts[d]]]
     /\ UNCHANGED <<page, rows, reads, missed, moves>>

Off(w) == [page EXCEPT !.saving = (w.kind # "entry" /\ @), !.deleting = (w.kind # "delete" /\ @),
                       !.bulkSaving = (w.kind # "bulk" /\ @)]

(* The form of what was stored closes, and the refresh starts.             *)
Written(w) ==
  /\ w.step = "stored" /\ Put(w, "refreshing")
  /\ Shown([page EXCEPT !.entry = IF w.kind = "entry" THEN {} ELSE @,
             !.bulkSaving = (w.kind # "bulk" /\ @)], reads, rows)
  /\ UNCHANGED <<recorded, reads, missed, moves>>

(* A day was taken: the entry's form says so, Bulk add lists its days anew. *)
Conflict(w) ==
  /\ w.step = "conflict" /\ writes' = writes \ {w}
  /\ reads' = IF w.kind = "bulk" THEN Reload("missing", page.selected, reads) ELSE reads
  /\ Shown([Off(w) EXCEPT !.conflict = TRUE], reads', rows)
  /\ UNCHANGED <<recorded, missed, moves>>

(* Refused, or the answer was lost: an entry's form stays open.            *)
WriteFailed(w) ==
  /\ w.step \in {"sent", "stored", "refused"} /\ writes' = writes \ {w} /\ missed' = (missed \/ w.step # "sent")
  /\ Shown(Off(w), reads, rows) /\ UNCHANGED <<recorded, reads, moves>>

Refresh(w) ==
  /\ w.step = "refreshing"
  /\ writes' = (writes \ {w}) \cup {[w EXCEPT !.step = "read", !.answer = {Detail(w.shown)}]}
  /\ UNCHANGED <<recorded, page, rows, reads, missed, moves>>

DaysReloaded(w) == Reload("missing", page.selected, reads)

Refreshed(w) ==
  /\ w.step = "read" /\ writes' = writes \ {w} /\ reads' = DaysReloaded(w)
  /\ Shown([Off(w) EXCEPT !.detail = w.answer], reads', rows)
  /\ UNCHANGED <<recorded, missed, moves>>

RefreshFailed(w) ==
  /\ w.step \in {"refreshing", "read"} /\ writes' = writes \ {w} /\ missed' = TRUE
  /\ Shown(Off(w), reads, rows) /\ UNCHANGED <<recorded, reads, moves>>

(* Another administrator records a deposit.                                *)
Elsewhere ==
  /\ moves < MaxMoves /\ moves' = moves + 1 /\ missed' = TRUE
  /\ \E l \in Ledger : \E d \in Missing(l).days : \E a \in Amount :
       recorded' = [recorded EXCEPT ![l] = [e \in DOMAIN @ \cup {d} |-> IF e = d THEN a ELSE @[e]]]
  /\ UNCHANGED <<page, rows, reads, writes>>

Next ==
  \/ \E l \in Ledger : SelectLedger(l)
  \/ \E of \in {"detail", "missing"} : Retry(of)
  \/ \E r \in reads : Answer(r) \/ Answered(r) \/ ReadFailed(r)
  \/ OpenSection \/ OpenNewEntry \/ OpenEditDeposit \/ CloseEntry \/ SaveBulk \/ Elsewhere
  \/ \E e \in page.entry : ChangeEntry(e) \/ SaveEntry(e)
  \/ \E d \in Day : ChangeRow(d) \/ ConfirmDelete(d)
  \/ \E w \in writes : Store(w) \/ Written(w) \/ Conflict(w) \/ WriteFailed(w)
                       \/ Refresh(w) \/ Refreshed(w) \/ RefreshFailed(w)
Spec == Init /\ [][Next]_vars

-----------------------------------------------------------------------------

TypeOK ==
  /\ page.selected \in Ledger /\ DOMAIN rows \subseteq Day
  /\ Cardinality(page.detail) <= 1 /\ Cardinality(page.missing) <= 1 /\ Cardinality(page.entry) <= 1

(* With nothing on its way and nothing missed, the deposits and the days   *)
(* without one that the page offers are those of the selected ledger as    *)
(* it is stored, so no day that has a deposit is offered again.            *)
JournalIsCurrent ==
  /\ reads = {} /\ writes = {} /\ ~missed
  => /\ Workspace(page, reads) => page.detail = {Detail(page.selected)}
     /\ ~page.missingError /\ Workspace(page, reads) => page.missing = {Missing(page.selected)}

(* The amount an administrator typed into a row of Bulk add outlives every *)
(* new list of days, whatever reload, save or conflict brought it.         *)
TypedRowsAreKept ==
  [][\A d \in DOMAIN rows \cap DOMAIN rows' :
       rows[d].dirty /\ page'.missing # page.missing => rows'[d] = rows[d]]_vars
==============================================================================
