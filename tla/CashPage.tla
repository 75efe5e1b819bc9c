------------------------------ MODULE CashPage -------------------------------
(***************************************************************************)
(* CashAndExpensesPage.tsx on one tablet: an entry is recorded, or one of  *)
(* the ledger is amended, after a review; others record, amend, close and  *)
(* open, and answers are lost.  CashMovements has the steps of             *)
(* TradingDayService, here one a request.  Values the server refuses are    *)
(* left out: the page checks the same ones first.                          *)
(***************************************************************************)
EXTENDS Integers, Sequences, FiniteSets

CONSTANTS
  Value, \* what an entry says: [kind, text, category]
  MaxIds \* bound on the ids of entries: 1 .. MaxIds

VARIABLES
  stored, \* by id, the entry stored, at most one: [value, amends]
  isOpen, \* is a business day open?
  ids,    \* number of ids made up
  page    \* what the page keeps

vars == <<stored, isOpen, ids, page>>

Id == 1 .. MaxIds
IsStored(i) == stored[i] # {}
Superseded == {i \in Id : \E j \in Id : \E e \in stored[j] : e.amends = i}

Init ==
  /\ stored = [i \in Id |-> {}] /\ isOpen = TRUE /\ ids = 0
  /\ page = [status |-> "loading", dayOpen |-> FALSE, movements |-> <<>>, form |-> {}, retryIdentity |-> {},
             target |-> {}, draft |-> {}, review |-> {}, sending |-> {}]

-----------------------------------------------------------------------------
(* Loading: at first, again after an error, and after an amendment.  What  *)
(* is typed, and the identity of an entry that failed, are kept.           *)

Recorded == {i \in Id : IsStored(i)}
Listed == CHOOSE s \in [1 .. Cardinality(Recorded) -> Recorded] : \A j, k \in DOMAIN s : s[j] = s[k] => j = k
Row(i) == [id |-> i, superseded |-> i \in Superseded]

Loaded ==
  /\ page.status = "loading"
  /\ page' = [page EXCEPT !.status = "ready", !.dayOpen = isOpen,
                !.movements = IF isOpen THEN [k \in DOMAIN Listed |-> Row(Listed[k])] ELSE <<>>]
  /\ UNCHANGED <<stored, isOpen, ids>>

LoadFailed ==
  /\ page.status = "loading" /\ page' = [page EXCEPT !.status = "failed"] /\ UNCHANGED <<stored, isOpen, ids>>
Retry ==
  /\ page.status = "failed" /\ page' = [page EXCEPT !.status = "loading"] /\ UNCHANGED <<stored, isOpen, ids>>

-----------------------------------------------------------------------------
(* Recording an entry.                                                     *)

Idle == page.status = "ready" /\ page.dayOpen /\ page.sending = {} /\ UNCHANGED <<stored, isOpen>>

(* The form is filled in anew; another kind gives up the identity.         *)
Fill(v) ==
  /\ Idle /\ page.target = {} /\ page.form # {v}
  /\ page' = [page EXCEPT !.form = {v},
                !.retryIdentity = IF \E f \in page.form : f.kind # v.kind THEN {} ELSE page.retryIdentity]
  /\ UNCHANGED ids

(* Mutant: an identity is kept whatever the form says by now.              *)
AnySignature(v) == {x.id : x \in page.retryIdentity}

(* The id of an attempt with these same values, if there was one.          *)
RetriedId(v) == {x.id : x \in {y \in page.retryIdentity : y.signature = v}}

Send(op, i, v, amends) == {[op |-> op, id |-> i, value |-> v, amends |-> amends, reply |-> "none"]}

(* handleSubmit                                                            *)
Submit ==
  /\ Idle /\ page.target = {}
  /\ \E v \in page.form :
       \/ /\ RetriedId(v) = {} /\ ids + 1 \in Id /\ ids' = ids + 1
          /\ page' = [page EXCEPT !.retryIdentity = {[signature |-> v, id |-> ids + 1]},
                                  !.sending = Send("record", ids + 1, v, 0)]
       \/ \E i \in RetriedId(v) :
            page' = [page EXCEPT !.sending = Send("record", i, v, 0)] /\ UNCHANGED ids

-----------------------------------------------------------------------------
(* Amending an entry that is not known to be superseded.                   *)

StartAmendment ==
  /\ Idle /\ UNCHANGED ids
  /\ \E r \in {page.movements[k] : k \in DOMAIN page.movements} : \E e \in stored[r.id] :
       /\ ~r.superseded /\ page.target # {r.id}
       /\ page' = [page EXCEPT !.target = {r.id}, !.draft = {e.value}, !.review = {}]

ChangeDraft(v) ==
  Idle /\ page.target # {} /\ page.review = {} /\ page' = [page EXCEPT !.draft = {v}] /\ UNCHANGED ids

ReviewId == ids + 1

ReviewAmendment ==
  /\ Idle /\ page.review = {}
  /\ \E v \in page.draft :
       /\ ReviewId \in Id /\ ids' = ReviewId
       /\ page' = [page EXCEPT !.review = {[id |-> ReviewId, value |-> v]}]

Edit == Idle /\ page.review # {} /\ page' = [page EXCEPT !.review = {}] /\ UNCHANGED ids

NoAmendment == [page EXCEPT !.target = {}, !.draft = {}, !.review = {}]
Cancel == Idle /\ page.target # {} /\ page' = NoAmendment /\ UNCHANGED ids

ConfirmAmendment ==
  /\ Idle /\ UNCHANGED ids
  /\ \E t \in page.target, r \in page.review : page' = [page EXCEPT !.sending = Send("amend", r.id, r.value, t)]

-----------------------------------------------------------------------------
(* TradingDayService: an id that is stored is replayed, on any day.        *)

IsReplay(r) == IsStored(r.id)

Outcome(r) ==
  IF IsReplay(r) THEN "ok"
  ELSE IF ~isOpen THEN "closed"
  ELSE IF r.amends \in Superseded THEN "superseded"
  ELSE "ok"

Serve == \E r \in page.sending :
  /\ r.reply = "none"
  /\ stored' = IF Outcome(r) = "ok" /\ ~IsStored(r.id)
               THEN [stored EXCEPT ![r.id] = {[value |-> r.value, amends |-> r.amends]}] ELSE stored
  /\ page' = [page EXCEPT !.sending = {[r EXCEPT !.reply = Outcome(r)]}]
  /\ UNCHANGED <<isOpen, ids>>

Elsewhere ==
  /\ UNCHANGED page
  /\ \/ isOpen' = ~isOpen /\ UNCHANGED <<stored, ids>>
     \/ /\ isOpen /\ ids + 1 \in Id /\ ids' = ids + 1 /\ UNCHANGED isOpen
        /\ \E v \in Value, a \in {0} \cup (Recorded \ Superseded) :
             stored' = [stored EXCEPT ![ids + 1] = {[value |-> v, amends |-> a]}]

-----------------------------------------------------------------------------

MovementsWith(i) ==
  <<[id |-> i, superseded |-> FALSE]>> \o SelectSeq(page.movements, LAMBDA r : r.id # i)

(* An entry that was recorded empties the form; after an amendment, and    *)
(* whenever the day has closed, the page is loaded again.                  *)
Answered == \E r \in page.sending :
  /\ r.reply # "none" /\ UNCHANGED <<stored, isOpen, ids>>
  /\ page' =
       IF r.op = "amend" THEN [NoAmendment EXCEPT !.sending = {}, !.status = "loading"]
       ELSE IF r.reply = "ok"
       THEN [page EXCEPT !.sending = {}, !.form = {}, !.retryIdentity = {}, !.movements = MovementsWith(r.id)]
       ELSE [page EXCEPT !.sending = {}, !.status = "loading"]

(* The request or its answer is lost: the form or the review stays.        *)
Lost == page.sending # {} /\ page' = [page EXCEPT !.sending = {}] /\ UNCHANGED <<stored, isOpen, ids>>

Next ==
  \/ Loaded \/ LoadFailed \/ Retry
  \/ \E v \in Value : Fill(v) \/ ChangeDraft(v)
  \/ Submit \/ StartAmendment \/ ReviewAmendment \/ Edit \/ Cancel \/ ConfirmAmendment
  \/ Serve \/ Answered \/ Lost \/ Elsewhere
Spec == Init /\ [][Next]_vars

-----------------------------------------------------------------------------

(* A review is of a draft, and a draft of a target.                        *)
TypeOK ==
  /\ ids \in 0 .. MaxIds /\ Cardinality(page.sending) <= 1
  /\ page.review # {} => page.draft # {}
  /\ page.draft # {} <=> page.target # {}

(* The entry stored under the identity the form would be sent again with   *)
(* says what the form says: the server would replay it, and the page would *)
(* say that the entry was recorded.                                        *)
EntryIsTheForm ==
  \A x \in page.retryIdentity, v \in page.form : RetriedId(v) = {x.id} => \A e \in stored[x.id] : e.value = v

(* The correction stored under the id of the review on show is the one     *)
(* that is reviewed, of the entry it is reviewed for.                      *)
ReviewIsStored ==
  \A r \in page.review : \A e \in stored[r.id] : e.value = r.value /\ {e.amends} = page.target

(* "No entry was saved." and "No correction was recorded by this request." *)
(* are only said of what is not stored, also when it is sent again after a *)
(* lost answer and the day has closed or the entry was amended meanwhile.  *)
NothingSavedIsTrue == \A r \in page.sending : r.reply \in {"closed", "superseded"} => ~IsStored(r.id)

CashPageInv == EntryIsTheForm /\ ReviewIsStored /\ NothingSavedIsTrue

(* The ledger shows an entry once, also when it was listed by a load and   *)
(* then answered.                                                          *)
LedgerShowsOnce == \A j, k \in DOMAIN page.movements : page.movements[j].id = page.movements[k].id => j = k
==============================================================================
