SPECIFICATION Spec
CHECK_DEADLOCK FALSE
CONSTANTS
  Request = {1, 2, 3, 4}
  MaxCents = 12010
  LineId = {1, 2}
  Variant = {"coffee", "side"}
  Entries <- Menu
  MaxQty = 2
  Cash = {0, 4}
  Extra = {0, 5}
  Count = {1, 2, 3, 4}
  Day = {1, 2}
  Quantity = {1}
  MaxMoved = 1
  CountCalls <- Shift
  ItemRequest = {1, 2}
  Item = {"milk"}
  StockCategory = {"dairy", "cups"}
  StockName = {"Milk", "Cups"}
  ParQuantity = {1, 2}
  ItemCalls <- Edits
  User = {"u0", "u1", "u2"}
  Member = {"m1", "m2"}
  Username = {"a", "b", "c"}
  Hash = {"h1", "h2"}
  AccountCalls <- Hirings
  FirstRoster <- Roster
  Deposit = {"d1", "d2"}
  Date = {1, 2}
  LedgerName = {"fund"}
  Kind = "RENT"
  JournalCalls <- Bookings
  Takings <- Grosses
  Rate = {0, 3}
  Amount = {2}
  Threshold = {9}
  Week = {1, 2}
  WeekDay = {1, 2}
  Staff = {"anna", "ben"}
  Hours <- Duties
  Note = {"party"}
  WeekCalls <- Plans
  Size = {"s1", "s2", "s3", "s4"}
  Category = {"c1", "c2"}
  Name = {"large", "small", "medium", "tea"}
  Spelling = {"Large", "Small", "Medium", "medium", "SMALL", "Tea", "TEA"}
  FirstSizes <- TwoSizes
  CatalogCalls <- Forms
  Field = {"f1", "f2"}
  FieldLabel = {"size", "badge"}
  FieldChoice = {"small"}
  EmploymentCalls <- Filings
  WorkDate = {1, 2, 3}
  Adjustment = {"a1", "a2"}
  Description = {"load", "bonus"}
  Pay = {1}
  CommissionRate = {1}
  StaffUser = {"u1", "u2"}
  Unknown = {"x1"}
  Device = {"d1"}
  Secret = {"s1", "s2"}
  Rotation <- Resets
  Toggled = {"m1"}
  AccessCalls <- Visits
  FirstAccess <- Staffing
  MaxFailures = 2
  Cooldown = 1
  MaxBuckets = 1
INVARIANTS LinesInv CountsInv ItemsInv AccountsInv JournalInv PayslipInv ScheduleInv CatalogInv EmploymentInv AccessInv
PROPERTIES SnapshotsAreKept  MissingUntilRecorded SignInNamesItsMember
