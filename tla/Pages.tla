-------------------------------- MODULE Pages --------------------------------
(***************************************************************************)
(* The pages of the web client where something is entered, or chosen to be *)
(* looked at, side by side, each with the part of the server it talks to:  *)
(* taking an order, counting stock, the business day, its cash entries,    *)
(* the week's schedule, the products' switches, a day's pay and what is    *)
(* added to it, the journal, the orders that were taken, the roster, a     *)
(* member's employment, a stock item, and signing in.  No page knows of    *)
(* another's state, so what holds of one holds of it here.                 *)
(***************************************************************************)
EXTENDS Integers, Sequences

CONSTANTS
  Tablet, MaxId, MaxTaps, MaxItems,                             \* TakeOrder
  Item, Clearable, Typed, LastClosing, MaxCounts, MaxEdits,     \* CountSheet
  Date, Cash, MaxIds,                                           \* DayPages
  Week, Staff, MaxWeekEdits,                                    \* SchedulePage
  Product, Filter, MaxProductMoves,                             \* ProductsPage
  Member, PayDay, Today, Base, ShopShare, PersonalShare, PayTyped, MaxPayMoves, \* CompensationForm
  Ledger, FirstLedger, ClosedDay, Amount, Suggestion, MaxJournalMoves,          \* JournalPage
  Order, Status, Size, Matches, MaxHistoryMoves,                \* HistoryPages
  MaxLedgerMoves,                                               \* StaffHistory
  EntryValue,                                                   \* CashPage
  Adjustment, PayScope, ScopeFilter, MaxAdjustmentMoves,        \* AdjustmentsView
  Person, StateFilter, MaxRosterMoves,                          \* StaffPage
  Text, Numbers, MaxDialogMoves,                                \* EmploymentDialog
  StockItem, FirstItem, Quantity, Level, MaxItemMoves,          \* ItemEditor
  Tab, User, StaffUser, MaxSessions, MaxReads, Address,         \* Session
  MaxAtOnce \* bound on the requests that a page of the products, or of the journal, waits for

VARIABLES
  orders, orderIds, orderPage, taps, unsure,
  active, sheets, moves, sheetScreen, sheetPage, sheetEdits,
  days, expected, closings, attemptIds, nav, dayPage,
  weekStored, weekStart, week, weekLoading, weekSaving, weekError, weekNotice, weekDirty, weekLoads,
  weekSent, weekEdits, weekKept,
  available, filter, products, listLoading, updatingId, listLoads, listChanges, listMoves,
  dayRecords, recordsShown, payForm, payDirty, paySource, payGross, paySplit, payConflict, paySaving,
  payAsks, paySent, payMoves,
  recorded, journalShown, bulkRows, journalReads, journalWrites, journalMissed, journalMoves,
  hisRoute, hisUrl, hisRendered, chosen, list, hisLoads, hisFailed, shown, voidDialog, said,
  hisVoids, voids, hisTried, hisMissed, hisMoves,
  ledgerOrders, openDay, ledgerUrl, ledgerRendered, ledgerDays, daysLoad, asked, ledgerKey, attempt, ledger,
  ledgerLoads, ledgerFailed, target, voidIds, busy, writes, ledgerTried, ledgerMissed, ledgerMoves,
  sessions, cookie, mail, tabs,
  entries, isOpen, entryIds, cashPage,
  adjustments, adjustmentFilter, adjustmentsShown, adjustmentsLoading, adjustmentLoads,
  adjustmentDraft, adjustmentRequest, adjustmentsDenied, adjustmentsMissed, adjustmentMoves,
  roster, rosterFilter, rosterShown, rosterLoading, rosterLoads, rosterDialog, rosterUpdating,
  rosterRequests, rosterMissed, rosterMoves,
  employmentStored, employmentDialogs, employmentLoads, employmentSaves, employmentSaid, employmentMissed,
  numbersAsked, employmentMoves,
  stockItems, itemPage, itemLoads, itemSave, itemsMade, itemFailed, itemSaid, itemMoves

takeOrder == <<orders, orderIds, orderPage, taps, unsure>>
countSheet == <<active, sheets, moves, sheetScreen, sheetPage, sheetEdits>>
dayPages == <<days, expected, closings, attemptIds, nav, dayPage>>
schedulePage == <<weekStored, weekStart, week, weekLoading, weekSaving, weekError, weekNotice, weekDirty,
                  weekLoads, weekSent, weekEdits, weekKept>>
productsPage == <<available, filter, products, listLoading, updatingId, listLoads, listChanges, listMoves>>
compensationForm == <<dayRecords, recordsShown, payForm, payDirty, paySource, payGross,
                      paySplit, payConflict, paySaving, payAsks, paySent, payMoves>>
journalPage == <<recorded, journalShown, bulkRows, journalReads, journalWrites, journalMissed, journalMoves>>
historyPages ==
  <<hisRoute, hisUrl, hisRendered, chosen, list, hisLoads, hisFailed, shown, voidDialog, said,
    hisVoids, voids, hisTried, hisMissed, hisMoves>>
staffHistory ==
  <<ledgerOrders, openDay, ledgerUrl, ledgerRendered, ledgerDays, daysLoad, asked, ledgerKey, attempt, ledger,
    ledgerLoads, ledgerFailed, target, voidIds, busy, writes, ledgerTried, ledgerMissed, ledgerMoves>>
session == <<sessions, cookie, mail, tabs>>
cashLedger == <<entries, isOpen, entryIds, cashPage>>
adjustmentsView == <<adjustments, adjustmentFilter, adjustmentsShown, adjustmentsLoading, adjustmentLoads,
                     adjustmentDraft, adjustmentRequest, adjustmentsDenied, adjustmentsMissed, adjustmentMoves>>
staffPage == <<roster, rosterFilter, rosterShown, rosterLoading, rosterLoads,
               rosterDialog, rosterUpdating, rosterRequests, rosterMissed, rosterMoves>>
employmentDialog == <<employmentStored, employmentDialogs, employmentLoads, employmentSaves,
                      employmentSaid, employmentMissed, numbersAsked, employmentMoves>>
itemEditor == <<stockItems, itemPage, itemLoads, itemSave, itemsMade, itemFailed, itemSaid, itemMoves>>

-----------------------------------------------------------------------------

Take == INSTANCE TakeOrder WITH stored <- orders, used <- orderIds, page <- orderPage

Sheet == INSTANCE CountSheet WITH
  counts <- sheets, screen <- sheetScreen, page <- sheetPage, edits <- sheetEdits

Days == INSTANCE DayPages WITH ids <- attemptIds, page <- dayPage

Schedule == INSTANCE SchedulePage WITH
  MaxEdits <- MaxWeekEdits,
  server <- weekStored, loading <- weekLoading, saving <- weekSaving, error <- weekError,
  notice <- weekNotice, dirty <- weekDirty, loads <- weekLoads, sent <- weekSent, edits <- weekEdits,
  kept <- weekKept

Products == INSTANCE ProductsPage WITH
  MaxMoves <- MaxProductMoves,
  loading <- listLoading, loads <- listLoads, changes <- listChanges, moves <- listMoves

Pay == INSTANCE CompensationForm WITH
  Staff <- Member, Date <- PayDay, Typed <- PayTyped, MaxMoves <- MaxPayMoves,
  stored <- dayRecords, entries <- recordsShown, form <- payForm, dirty <- payDirty, source <- paySource,
  gross <- payGross, split <- paySplit, conflict <- payConflict, saving <- paySaving,
  asks <- payAsks, sent <- paySent, moves <- payMoves

Journal == INSTANCE JournalPage WITH
  First <- FirstLedger, Day <- ClosedDay, MaxMoves <- MaxJournalMoves,
  page <- journalShown, rows <- bulkRows, reads <- journalReads, writes <- journalWrites,
  missed <- journalMissed, moves <- journalMoves

History == INSTANCE HistoryPages WITH
  MaxMoves <- MaxHistoryMoves,
  route <- hisRoute, url <- hisUrl, rendered <- hisRendered, loads <- hisLoads, failed <- hisFailed,
  dialog <- voidDialog, requests <- hisVoids, tried <- hisTried, missed <- hisMissed, moves <- hisMoves

StaffLedger == INSTANCE StaffHistory WITH
  Day <- Date, MaxMoves <- MaxLedgerMoves,
  orders <- ledgerOrders, open <- openDay, url <- ledgerUrl, rendered <- ledgerRendered, days <- ledgerDays,
  key <- ledgerKey, loads <- ledgerLoads, failed <- ledgerFailed, ids <- voidIds, requests <- writes,
  tried <- ledgerTried, missed <- ledgerMissed, moves <- ledgerMoves

Session == INSTANCE Session WITH Staff <- StaffUser

CashBook == INSTANCE CashPage WITH Value <- EntryValue, stored <- entries, ids <- entryIds, page <- cashPage

Adjustments == INSTANCE AdjustmentsView WITH
  Id <- Adjustment, Scope <- PayScope, Filter <- ScopeFilter, MaxMoves <- MaxAdjustmentMoves,
  stored <- adjustments, filter <- adjustmentFilter, shown <- adjustmentsShown, loading <- adjustmentsLoading,
  loads <- adjustmentLoads, draft <- adjustmentDraft, request <- adjustmentRequest,
  denied <- adjustmentsDenied, missed <- adjustmentsMissed, moves <- adjustmentMoves

Roster == INSTANCE StaffPage WITH
  Member <- Person, Filter <- StateFilter, MaxMoves <- MaxRosterMoves,
  stored <- roster, filter <- rosterFilter, shown <- rosterShown, loading <- rosterLoading,
  loads <- rosterLoads, dialog <- rosterDialog, updating <- rosterUpdating,
  requests <- rosterRequests, missed <- rosterMissed, moves <- rosterMoves

Employment == INSTANCE EmploymentDialog WITH
  Member <- Person, Value <- Text, MaxMoves <- MaxDialogMoves,
  stored <- employmentStored, dialog <- employmentDialogs, loads <- employmentLoads,
  saves <- employmentSaves, said <- employmentSaid, missed <- employmentMissed,
  asked <- numbersAsked, moves <- employmentMoves

Editor == INSTANCE ItemEditor WITH
  Id <- StockItem, First <- FirstItem, Typed <- Quantity, MaxMoves <- MaxItemMoves,
  items <- stockItems, page <- itemPage, loads <- itemLoads, save <- itemSave, made <- itemsMade,
  failed <- itemFailed, said <- itemSaid, moves <- itemMoves

-----------------------------------------------------------------------------
(* What the proofs assume, and every run evaluates: tablets, weeks and     *)
(* business days are numbered from one, cash is a number of cents, and the *)
(* route of an order is not that of the list.                              *)

ASSUME TabletAssumption == Take!TabletsAreNumbered
ASSUME WeekAssumption == 1 \in Week /\ Week \subseteq Nat \ {0}
ASSUME CashAssumption == Cash \subseteq Nat
ASSUME DateAssumption == Date \subseteq Nat /\ \E n \in Date : Date = 1 .. n
ASSUME OrderAssumption == "list" \notin Order

-----------------------------------------------------------------------------

PagesSpec ==
  /\ Take!Spec /\ Sheet!Spec /\ Days!Spec /\ Schedule!Spec
  /\ Products!Spec /\ Pay!Spec /\ Journal!Spec
  /\ History!Spec /\ StaffLedger!Spec /\ Session!Spec
  /\ CashBook!Spec /\ Adjustments!Spec /\ Roster!Spec /\ Employment!Spec /\ Editor!Spec

-----------------------------------------------------------------------------
(* The properties are stated, with the code they are about, in the modules *)
(* of the pages.                                                           *)

TakeOrderInv == Take!TakeOrderInv

(* The forms an administrator or a count fills in.                         *)
FormsInv == Sheet!CountSheetInv /\ Schedule!SchedulePageInv /\ Pay!CompensationFormInv

(* The business day, its cash entries, and the orders of the days that     *)
(* went before.                                                            *)
LedgerPagesInv ==
  /\ Days!DayPagesInv /\ CashBook!CashPageInv
  /\ History!HistoryPagesInv /\ StaffLedger!StaffHistoryInv

(* The lists and forms of staff and stock items.                           *)
AdminPagesInv ==
  /\ Adjustments!ListMatchesFilters /\ Roster!RosterIsCurrent
  /\ Employment!EmploymentDialogInv /\ Editor!ItemEditorInv

(* What a form holds outlives fills, errors and lost answers.              *)
FormsAreKept ==
  /\ Sheet!TouchedFieldsAreKept /\ Days!AttemptsOutliveErrors
  /\ Journal!TypedRowsAreKept /\ Pay!TypedAmountsAreKept

(* What is sent is for what is chosen, and what is answered for who asked. *)
LoadsAreForWhatIsChosen ==
  /\ Schedule!LoadsAreForTheTab /\ Products!LoadsAreForTheFilter
  /\ Session!SessionsAreCurrent
=============================================================================
