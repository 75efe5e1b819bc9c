SPECIFICATION Spec
CHECK_DEADLOCK FALSE
CONSTANTS
  Tablet = {1, 2}
  MaxId = 4
  MaxTaps = 4
  MaxItems = 1
  Item = {"milk", "cups"}
  Clearable = {"milk"}
  Typed = {"1"}
  LastClosing <- Closing
  MaxCounts = 2
  MaxEdits = 3
  Date = {1, 2}
  Cash = {0, 1}
  MaxIds = 3
  Week = {1, 2}
  Staff = {"anna", "ben"}
  MaxWeekEdits = 2
  Product = {"a", "b"}
  Filter = {{"a", "b"}, {"a"}}
  MaxProductMoves = 4
  Member = {1, 2}
  PayDay = {1, 2}
  Today = 2
  Base <- Salary
  ShopShare <- Shop
  PersonalShare <- Personal
  PayTyped = {7}
  MaxPayMoves = 4
  Ledger = {"rent", "fund"}
  FirstLedger = "rent"
  ClosedDay = {1, 2}
  Amount = {7}
  Suggestion <- Known
  MaxJournalMoves = 3
  Order = {"a", "b"}
  Status = {"", "Void"}
  Size = {5, 10}
  Matches <- Counted
  MaxHistoryMoves = 4
  MaxLedgerMoves = 4
  EntryValue <- Written
  Adjustment = {1, 2}
  PayScope = {1, 2}
  ScopeFilter = {{1, 2}, {1}}
  MaxAdjustmentMoves = 3
  Person = {"anna", "ben"}
  StateFilter = {{TRUE, FALSE}, {TRUE}}
  MaxRosterMoves = 3
  Text = {"v"}
  Numbers <- Given
  MaxDialogMoves = 4
  StockItem = {1, 2}
  FirstItem = 1
  Quantity = {5}
  Level = {1}
  MaxItemMoves = 5
  Tab = {1, 2}
  User = {"owner", "anna"}
  StaffUser = {"anna"}
  MaxSessions = 2
  MaxReads <- TabReads
  Address = {"pos", "signIn"}
  MaxAtOnce = 1
INVARIANTS TakeOrderInv  LedgerPagesInv AdminPagesInv 
PROPERTIES FormsAreKept LoadsAreForWhatIsChosen
