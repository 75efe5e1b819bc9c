----------------------------- MODULE MCTablets ------------------------------
(***************************************************************************)
(* The pages of the web client on small instances, each with the part of   *)
(* the server it talks to: those of Pages, whose constants Counter.cfg     *)
(* gives their values, and three more.  One page is open, the one part     *)
(* names, and the others stay as they were loaded: what holds of a page    *)
(* here is what holds of that page alone.                                  *)
(***************************************************************************)
EXTENDS Pages, TLC

VARIABLES
  part,
  reportRoute, ranged, daily, reportCounts, reportMoves,
  weights, ordered, drags, orderSent, orderAnswers, orderCreating, orderNotice, orderError,
  variants, draft, ids, removingKey, reorders, removal, submission, form, editorMoves

reportPages == <<reportRoute, ranged, daily, reportCounts, reportMoves>>
categoriesPage == <<weights, ordered, drags, orderSent, orderAnswers, orderCreating, orderNotice, orderError>>
editorPage == <<variants, draft, ids, removingKey, reorders, removal, submission, form, editorMoves>>

counterPages == <<takeOrder, countSheet, dayPages, cashLedger>>
backPages == <<historyPages, staffHistory, reportPages>>
shopPages == <<schedulePage, session, journalPage, itemEditor>>
catalogPages == <<categoriesPage, productsPage, editorPage>>
peoplePages == <<compensationForm, adjustmentsView, staffPage, employmentDialog>>
screens == <<part, counterPages, backPages, shopPages, catalogPages, peoplePages>>

-----------------------------------------------------------------------------
(* What Counter.cfg cannot write down: the milk of the last closing count, *)
(* the orders there are by status, twelve of them three pages of five and  *)
(* four void, the second tab's share of the requests, a salary and shares  *)
(* by member and day, a ledger with suggestions and one without, two texts *)
(* of one kind of entry and one of the other, and one government number.   *)

Closing == "milk" :> "2"
Counted == "" :> 12 @@ "Void" :> 4
TabReads == <<2, 0>>
Salary == <<{500}, {}>>
Shop == <<100, 200>>
Personal == <<<<11, 12>>, <<21, 22>>>>
Known == "rent" :> {10} @@ "fund" :> {}
Entry(kind, text) == [kind |-> kind, text |-> text]
Written == {Entry("in", "a"), Entry("expense", "a"), Entry("in", "b")}
Given == "anna" :> {"v"} @@ "ben" :> {}

-----------------------------------------------------------------------------

(* Two business days, a row of each on a page; the counter counts today.   *)
ReportPages == INSTANCE ReportPages WITH
  Date <- {1, 2}, Traded <- {1, 2}, Counted <- {2}, PageSize <- 1, MaxCounts <- 2, MaxLoads <- 2, MaxMoves <- 3,
  route <- reportRoute, counts <- reportCounts, moves <- reportMoves

(* Two categories in order and a third to create, one drag at a time.      *)
CategoriesPage == INSTANCE CategoriesPage WITH
  Category <- {"a", "b", "c"}, First <- <<"a", "b">>, MaxReorders <- 3, MaxInFlight <- 1,
  list <- ordered, sent <- orderSent, answers <- orderAnswers, creating <- orderCreating,
  notice <- orderNotice, pageError <- orderError

(* A product of two sizes; a third may be added.                           *)
EditorPage == INSTANCE ProductEditor WITH
  Key <- {"s1", "s2", "n1"}, First <- <<"s1", "s2">>, MaxMoves <- 4, MaxAtOnce <- 1, moves <- editorMoves

-----------------------------------------------------------------------------

Init ==
  /\ part \in {"takeOrder", "countSheet", "dayPages", "cashLedger", "historyPages", "staffHistory", "reportPages",
               "schedulePage", "categoriesPage", "productsPage", "editorPage", "session", "journalPage",
               "compensationForm", "adjustmentsView", "staffPage", "employmentDialog", "itemEditor"}
  /\ Take!Init /\ Sheet!Init /\ Days!Init /\ CashBook!Init
  /\ History!Init /\ StaffLedger!Init
  /\ ReportPages!Init /\ (part # "reportPages" => reportRoute = "reports")
  /\ Session!Init /\ Journal!Init
  /\ Schedule!Init /\ CategoriesPage!Init /\ EditorPage!Init
  /\ Products!Init /\ (part # "productsPage" => filter = {"a"})
  /\ Pay!Init /\ (part # "compensationForm" => dayRecords = {})
  /\ Adjustments!Init /\ (part # "adjustmentsView" => adjustments = <<1>> /\ adjustmentFilter = {1})
  /\ Roster!Init /\ (part # "staffPage" => roster = "anna" :> [active |-> TRUE, account |-> TRUE])
  /\ Employment!Init
  /\ Editor!Init

CounterPagesNext ==
  \/ part = "takeOrder" /\ Take!Next /\ UNCHANGED <<countSheet, dayPages, cashLedger>>
  \/ part = "countSheet" /\ Sheet!Next /\ UNCHANGED <<takeOrder, dayPages, cashLedger>>
  \/ part = "dayPages" /\ Days!Next /\ UNCHANGED <<takeOrder, countSheet, cashLedger>>
  \/ part = "cashLedger" /\ CashBook!Next /\ UNCHANGED <<takeOrder, countSheet, dayPages>>

BackPagesNext ==
  \/ part = "historyPages" /\ History!Next /\ UNCHANGED <<staffHistory, reportPages>>
  \/ part = "staffHistory" /\ StaffLedger!Next /\ UNCHANGED <<historyPages, reportPages>>
  \/ part = "reportPages" /\ ReportPages!Next /\ UNCHANGED <<historyPages, staffHistory>>

ShopPagesNext ==
  \/ part = "schedulePage" /\ Schedule!Next /\ UNCHANGED <<session, journalPage, itemEditor>>
  \/ part = "session" /\ Session!Next /\ UNCHANGED <<schedulePage, journalPage, itemEditor>>
  \/ part = "journalPage" /\ Journal!Next /\ UNCHANGED <<schedulePage, session, itemEditor>>
  \/ part = "itemEditor" /\ Editor!Next /\ UNCHANGED <<schedulePage, session, journalPage>>

CatalogPagesNext ==
  \/ part = "categoriesPage" /\ CategoriesPage!Next /\ UNCHANGED <<productsPage, editorPage>>
  \/ part = "productsPage" /\ Products!Next /\ UNCHANGED <<categoriesPage, editorPage>>
  \/ part = "editorPage" /\ EditorPage!Next /\ UNCHANGED <<categoriesPage, productsPage>>

PeoplePagesNext ==
  \/ part = "compensationForm" /\ Pay!Next /\ UNCHANGED <<adjustmentsView, staffPage, employmentDialog>>
  \/ part = "adjustmentsView" /\ Adjustments!Next /\ UNCHANGED <<compensationForm, staffPage, employmentDialog>>
  \/ part = "staffPage" /\ Roster!Next /\ UNCHANGED <<compensationForm, adjustmentsView, employmentDialog>>
  \/ part = "employmentDialog" /\ Employment!Next /\ UNCHANGED <<compensationForm, adjustmentsView, staffPage>>

Next ==
  /\ UNCHANGED part
  /\ \/ CounterPagesNext /\ UNCHANGED <<backPages, shopPages, catalogPages, peoplePages>>
     \/ BackPagesNext /\ UNCHANGED <<counterPages, shopPages, catalogPages, peoplePages>>
     \/ ShopPagesNext /\ UNCHANGED <<counterPages, backPages, catalogPages, peoplePages>>
     \/ CatalogPagesNext /\ UNCHANGED <<counterPages, backPages, shopPages, peoplePages>>
     \/ PeoplePagesNext /\ UNCHANGED <<counterPages, backPages, shopPages, catalogPages>>
Spec == Init /\ [][Next]_screens

-----------------------------------------------------------------------------
(* The properties are stated, with the code they are about, in the modules *)
(* of the pages; those of Pages are proved in Pages_proof.                 *)

(* What a page shows, once nothing is on its way, is what is stored.       *)
PagesShowWhatIsStored ==
  /\ part = "cashLedger" => CashBook!LedgerShowsOnce
  /\ part = "reportPages" => ReportPages!ReportPagesInv
  /\ part = "categoriesPage" => CategoriesPage!OrderShownIsStored
  /\ part = "productsPage" => Products!SwitchesShowWhatIsStored
  /\ part = "editorPage" => EditorPage!EditorInv
  /\ part = "journalPage" => Journal!JournalIsCurrent
=============================================================================
