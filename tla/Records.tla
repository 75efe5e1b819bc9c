------------------------------- MODULE Records -------------------------------
(***************************************************************************)
(* The tables of the shop side by side: the amounts of an order, stock     *)
(* counts, stock items, accounts, the journal, the schedule, the catalog,  *)
(* employment records, payslips, and signing in.  Every service has tables *)
(* of its own, writes no other's, and runs while the others do; a step of  *)
(* the whole is a step of one of them.                                     *)
(***************************************************************************)
EXTENDS Integers, Sequences

CONSTANTS
  Request, \* HTTP requests
  MaxCents, LineId, Variant, Entries, MaxQty, Cash, Extra,               \* OrderLines
  Count, Day, Quantity, MaxMoved, CountCalls,                            \* StockCounts
  ItemRequest, Item, StockCategory, StockName, ParQuantity, ItemCalls,   \* InventoryItems
  User, Member, Username, Hash, AccountCalls, FirstRoster,               \* StaffAccounts
  Deposit, Date, LedgerName, Kind, JournalCalls, Takings, Rate, Amount, Threshold, \* JournalLedgers
  Week, WeekDay, Staff, Hours, Note, WeekCalls,                          \* Scheduling
  Size, Category, Name, Spelling, FirstSizes, CatalogCalls,              \* Catalog
  Field, FieldLabel, FieldChoice, EmploymentCalls,                       \* StaffEmployment
  WorkDate, Adjustment, Description, Pay, CommissionRate,                \* Payslips
  StaffUser, Unknown, Device, Secret, Rotation, Toggled, AccessCalls, FirstAccess, \* StaffAccess
  MaxFailures, Cooldown, MaxBuckets

VARIABLES
  menu, order, line,
  status, count, moved, closing, dayLock, countPc, countArg, countSeen,
  item, par, counted, mapped, category, itemArg,
  user, member, open, userPc, userArg, userSeen,
  start, deposit, rate, closed, today, night, names, journalPc, journalArg, journalSeen,
  weeks, shifts, notes, active, current, lock, weekPc, weekArg, found, gone,
  sizes, sold, categories, catalogPc, catalogArg,
  profile, history, definition, value, fieldPc, fieldArg, fieldSeen,
  entry, adjustment, commission,
  account, person, selected, buckets, accessPc, accessArg, accessSeen, answer

lines == <<menu, order, line>>
counts == <<status, count, moved, closing, dayLock, countPc, countArg, countSeen>>
items == <<item, par, counted, mapped, category, itemArg>>
accounts == <<user, member, open, userPc, userArg, userSeen>>
journal == <<start, deposit, rate, closed, today, night, names, journalPc, journalArg, journalSeen>>
schedule == <<weeks, shifts, notes, active, current, lock, weekPc, weekArg, found, gone>>
catalog == <<sizes, sold, categories, catalogPc, catalogArg>>
employment == <<profile, history, definition, value, fieldPc, fieldArg, fieldSeen>>
payslips == <<entry, adjustment, commission>>
access == <<account, person, selected, buckets, accessPc, accessArg, accessSeen, answer>>
records == <<lines, counts, items, accounts, journal, schedule, catalog, employment, payslips, access>>

-----------------------------------------------------------------------------

Lines == INSTANCE OrderLines WITH catalog <- menu
Counts == INSTANCE StockCounts WITH Calls <- CountCalls, pc <- countPc, arg <- countArg, seen <- countSeen
Items == INSTANCE InventoryItems WITH
  Request <- ItemRequest, Category <- StockCategory, Name <- StockName, Threshold <- ParQuantity,
  Calls <- ItemCalls, arg <- itemArg
Accounts == INSTANCE StaffAccounts WITH
  Name <- Username, Calls <- AccountCalls, pc <- userPc, arg <- userArg, seen <- userSeen
Journal == INSTANCE JournalLedgers WITH
  Name <- LedgerName, Gross <- Takings, Calls <- JournalCalls, pc <- journalPc, arg <- journalArg, seen <- journalSeen
Schedule == INSTANCE Scheduling WITH
  Day <- WeekDay, Calls <- WeekCalls, pc <- weekPc, arg <- weekArg
Catalog == INSTANCE Catalog WITH Calls <- CatalogCalls, pc <- catalogPc, arg <- catalogArg
Employment == INSTANCE StaffEmployment WITH
  Label <- FieldLabel, Choice <- FieldChoice, Calls <- EmploymentCalls, pc <- fieldPc, arg <- fieldArg, seen <- fieldSeen
Payroll == INSTANCE Payslips WITH Date <- WorkDate, Gross <- Takings, Rate <- CommissionRate, rate <- commission
Access == INSTANCE StaffAccess WITH
  User <- StaffUser, member <- person, Calls <- AccessCalls, pc <- accessPc, arg <- accessArg, seen <- accessSeen

-----------------------------------------------------------------------------
(* What the proofs assume, and every run evaluates.                        *)

ASSUME LineAssumption ==
  /\ MaxCents \in Nat /\ MaxQty \in Nat /\ \A v \in Variant : Entries[v] \subseteq Lines!Priced
  /\ Cash \subseteq Nat /\ Extra \subseteq Nat
ASSUME CountAssumption == Count \subseteq Nat \ {0}
ASSUME AccountAssumption ==
  Accounts!CallsAreTyped /\ \A r \in FirstRoster : Accounts!StartsSound(r.users, r.members)
ASSUME CatalogAssumption == Catalog!FormsAreTyped
ASSUME ItemAssumption == Items!CallsAreTyped
ASSUME JournalAssumption == Journal!CallsAreTyped /\ Journal!AmountsAreTyped
ASSUME ScheduleAssumption == Schedule!CallsAreTyped
ASSUME EmploymentAssumption == Employment!CallsAreTyped
ASSUME PayrollAssumption == WorkDate \subseteq Int
ASSUME AccessAssumption ==
  Access!CallsAreTyped /\ \A f \in FirstAccess : Access!StartsTyped(f.accounts, f.members)

-----------------------------------------------------------------------------

AccessInit == \E f \in FirstAccess : Access!InitWith(f.accounts, f.members)
AccountsInit == \E r \in FirstRoster : Accounts!InitWith(r.users, r.members)

RecordsInit ==
  /\ Lines!Init /\ Counts!Init /\ Items!Init /\ AccountsInit
  /\ Journal!Init /\ Schedule!Init /\ Catalog!Init /\ Employment!Init /\ Payroll!Init
  /\ AccessInit

LinesStep ==
  Lines!Next /\ UNCHANGED <<counts, items, accounts, journal, schedule, catalog, employment, payslips, access>>
CountsStep ==
  Counts!Next /\ UNCHANGED <<lines, items, accounts, journal, schedule, catalog, employment, payslips, access>>
ItemsStep ==
  Items!Next /\ UNCHANGED <<lines, counts, accounts, journal, schedule, catalog, employment, payslips, access>>
AccountsStep ==
  Accounts!Next /\ UNCHANGED <<lines, counts, items, journal, schedule, catalog, employment, payslips, access>>
JournalStep ==
  Journal!Next /\ UNCHANGED <<lines, counts, items, accounts, schedule, catalog, employment, payslips, access>>
ScheduleStep ==
  Schedule!Next /\ UNCHANGED <<lines, counts, items, accounts, journal, catalog, employment, payslips, access>>
CatalogStep ==
  Catalog!Next /\ UNCHANGED <<lines, counts, items, accounts, journal, schedule, employment, payslips, access>>
EmploymentStep ==
  Employment!Next /\ UNCHANGED <<lines, counts, items, accounts, journal, schedule, catalog, payslips, access>>
PayrollStep ==
  Payroll!Next /\ UNCHANGED <<lines, counts, items, accounts, journal, schedule, catalog, employment, access>>
AccessStep ==
  Access!Next /\ UNCHANGED <<lines, counts, items, accounts, journal, schedule, catalog, employment, payslips>>

RecordsNext ==
  \/ LinesStep \/ CountsStep \/ ItemsStep \/ AccountsStep
  \/ JournalStep \/ ScheduleStep \/ CatalogStep \/ EmploymentStep \/ PayrollStep
  \/ AccessStep
RecordsSpec == RecordsInit /\ [][RecordsNext]_records

-----------------------------------------------------------------------------
(* The properties are stated, with the code they are about, in the modules *)
(* of the parts.                                                           *)

LinesInv == Lines!LinesInv
SnapshotsAreKept == Lines!SnapshotsAreKept
CountsInv == Counts!CountsInv
ItemsInv == Items!ItemsInv
AccountsInv == Accounts!AccountsInv
JournalInv == Journal!JournalInv
MissingUntilRecorded == Journal!MissingUntilRecorded
ScheduleInv == Schedule!ScheduleInv
CatalogInv == Catalog!CatalogInv
EmploymentInv == Employment!EmploymentInv
PayslipInv == Payroll!PayslipInv
AccessInv == Access!AccessInv
SignInNamesItsMember == Access!SignInNamesItsMember

(* A request leaves alone what it was not asked to change.                 *)
OthersAreKept ==
  /\ Accounts!LinksAreKept /\ Accounts!RotationsAreKept
  /\ Catalog!OthersAreLeft /\ Journal!PastSuggestionsStand
=============================================================================
