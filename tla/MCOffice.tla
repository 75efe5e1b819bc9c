------------------------------ MODULE MCOffice ------------------------------
(***************************************************************************)
(* The tables of the shop, on small instances.  They share no row.  part   *)
(* says which of them this behaviour is about: it moves and the others     *)
(* stay where they start, so a property of one holds here when it holds of *)
(* that one alone.                                                         *)
(***************************************************************************)
EXTENDS Records, TLC

VARIABLE part

all == <<part, records>>

-----------------------------------------------------------------------------
(* Two sizes: a coffee whose price, eligibility and availability the owner *)
(* changes, and a side whose price leaves a fifth of three cents.          *)

Price(p, e, s) == [price |-> p, eligible |-> e, sellable |-> s]
Menu == [coffee |-> {Price(4003, TRUE, TRUE), Price(2999, TRUE, TRUE), Price(4003, FALSE, FALSE)},
         side |-> {Price(4, FALSE, TRUE)}]

(* Two requests count and correct, the third moves stock or corrects too,  *)
(* and the last one closes the day.                                        *)
Plain(op) == [op |-> op, phase |-> "open", corrects |-> 0]
Tally(p, c) == [op |-> "count", phase |-> p, corrects |-> c]
Shift ==
  <<{Tally("open", 0), Tally("close", 0)},
    {Tally("open", 1), Tally("close", 0), Tally("close", 1)},
    {Tally("open", 1), Tally("open", 2), Plain("deliver"), Plain("waste"), Plain("close")},
    {Tally("close", 1), Plain("close")}>>

(* One item, two categories; two requests of any kind.                     *)
Band(p, l, u) == [par |-> {p}, low |-> l, urgent |-> u]
Edits ==
  {[op |-> "create", category |-> c, method |-> "QUANTITY", reconciled |-> TRUE] : c \in {"dairy", "cups"}}
  \cup {[op |-> "update", item |-> "milk", patch |-> [method |-> m, reconciled |-> b]] :
          m \in {{}, {"LEVEL"}, {"QUANTITY"}}, b \in {{}, {TRUE}, {FALSE}}}
  \cup {[op |-> "remove", item |-> "milk"]}
  \cup {[op |-> "par", item |-> "milk", par |-> p] :
          p \in {[method |-> "LEVEL", level |-> 3]}
                \cup {[method |-> "QUANTITY", bands |-> b] :
                        b \in {Band(2, {1}, {}), Band(1, {1}, {1}), Band(1, {2}, {1}), Band(2, {}, {1})}}}
  \cup {[op |-> "count", item |-> "milk", shape |-> "QUANTITY"]}
  \cup {[op |-> "name", category |-> c, name |-> n] : c \in {"dairy", "cups"}, n \in {"Milk", "Cups"}}
  \cup {[op |-> "removeCategory", category |-> "dairy"]}

(* Three requests on two members; the administrator's name is upper case.  *)
Create(m, n) == [op |-> "create", member |-> m, name |-> n, password |-> {"h1"}, pin |-> {}]
Rotate(m, p, i) == [op |-> "rotate", member |-> m, name |-> "a", password |-> p, pin |-> i]
Hirings ==
  <<{Create("m1", "b"), Create("m1", "a"), Rotate("m1", {"h2"}, {})},
    {Create("m1", "b"), Create("m1", "c"), Create("m2", "b"), Rotate("m1", {}, {"h2"})},
    {[op |-> "activate", member |-> "m1", name |-> "a", password |-> {}, pin |-> {}],
     Create("m2", "b"), Rotate("m1", {"h2"}, {"h1"})},
    {}>>
Admin == [name |-> "a", lower |-> FALSE, password |-> "h1", pin |-> {}, role |-> "ADMIN"]
Clerk == [name |-> "b", lower |-> TRUE, password |-> "h1", pin |-> {}, role |-> "STAFF"]
NoUser == [role |-> "none"]
Unlinked == [active |-> TRUE, user |-> {}]
Roster ==
  {[users |-> "u0" :> Admin @@ "u1" :> NoUser @@ "u2" :> NoUser,
    members |-> "m1" :> Unlinked @@ "m2" :> Unlinked],
   [users |-> "u0" :> Admin @@ "u1" :> Clerk @@ "u2" :> NoUser,
    members |-> "m1" :> [active |-> TRUE, user |-> {"u1"}] @@ "m2" :> Unlinked]}

(* Three clients on a ledger of two days and two deposits.                 *)
Deposited(t, a) == [date |-> t, amount |-> a]
Bulk(rows) == [op |-> "deposit", rows |-> rows]
Percent(p) == [percent |-> {p}, amount |-> {}, threshold |-> {}]
Bookings ==
  <<{Bulk({Deposited(1, 0), Deposited(2, 1)}), Bulk({Deposited(1, 1)}), [op |-> "rate", rate |-> Percent(1)]},
    {Bulk({Deposited(2, 0)}), [op |-> "edit", id |-> "d1", rows |-> {Deposited(1, 0)}],
     [op |-> "rate", rate |-> Percent(3)], [op |-> "name", name |-> "fund", case |-> "upper"]},
    {[op |-> "edit", id |-> "d1", rows |-> {Deposited(2, 0)}], [op |-> "remove", id |-> "d1"],
     [op |-> "start", date |-> 2], Bulk({Deposited(1, 0), Deposited(1, 1)}),
     [op |-> "rate", rate |-> [percent |-> {}, amount |-> {2}, threshold |-> {9}]]},
    {}>>
Grosses == {-3, 8, 20, 28}

(* Three administrators save two weeks, one with a member twice in a day.  *)
Early == <<420, 900>>
Late == <<720, 1440>>
Turned == <<900, 900>>
On(d, m, h) == [day |-> d, staff |-> m, hours |-> h]
Plan(w, s, n) == [week |-> w, shifts |-> s, notes |-> n]
Plans ==
  <<{Plan(1, {On(1, "anna", Early)}, {}), Plan(2, {On(1, "anna", Late), On(1, "anna", Early)}, {})},
    {Plan(1, {On(1, "ben", Late)}, {[day |-> 1, note |-> "party"]}), Plan(2, {On(1, "ben", Turned)}, {})},
    {Plan(2, {On(1, "anna", Late), On(2, "ben", Early)}, {}), Plan(1, {On(2, "anna", Late)}, {})},
    {}>>
Duties == {Early, Late, Turned}

(* Forms of one product, removals of its sizes, two categories of a name.  *)
In(id, n, sp) == [id |-> id, name |-> n, spelling |-> sp]
Update(ss) == [op |-> "updateProduct", sizes |-> ss]
Delete(s) == [op |-> "removeSize", size |-> s]
Save(c, sp) == [op |-> "category", id |-> c, name |-> "tea", spelling |-> sp]
Both == <<In({"s1"}, "large", "Large"), In({"s2"}, "small", "Small")>>
Forms ==
  <<{Update(Append(Both, In({}, "medium", "Medium"))), Delete("s1"), Save("c1", "Tea")},
    {Update(Append(Both, In({}, "medium", "medium"))), Delete("s2"), Save("c2", "TEA"),
     Update(<<In({}, "medium", "Medium")>>)},
    {[op |-> "reorderSizes", order |-> <<"s2", "s1">>], Save("c2", "Tea"),
     Update(<<In({"s1"}, "small", "SMALL"), In({}, "small", "Small")>>), Delete("s3")},
    {}>>
TwoSizes ==
  [i \in {"s1", "s2", "s3", "s4"} |->
     CASE i = "s1" -> [name |-> "large", spelling |-> "Large", weight |-> 10]
       [] i = "s2" -> [name |-> "small", spelling |-> "Small", weight |-> 20]
       [] OTHER -> [name |-> "", spelling |-> "", weight |-> 0]]

(* Two administrators update a record; two others define fields and fill   *)
(* them in.                                                                *)
Record(t, e, r) == [op |-> "update", type |-> t, end |-> e, reason |-> r]
Define(l, t) == [op |-> "define", label |-> l, type |-> t, choices |-> {"small"}]
Redefine(f, l, t, archived) ==
  [op |-> "redefine", field |-> f, label |-> l, type |-> t, choices |-> {"small"}, archived |-> archived]
Fill(f, t) == [op |-> "value", field |-> f, text |-> t]
Filings ==
  <<{Record({{"TRAINEE"}}, {}, {}), Define("size", "CHOICE")},
    {Record({{"REGULAR"}}, {{"may"}}, {{"RESIGNED"}}), Record({}, {{"june"}}, {}), Define("size", "TEXT"),
     Redefine("f1", "size", "CHOICE", TRUE)},
    {Record({{"TRAINEE"}}, {}, {}), Record({{}}, {{}}, {{}}), Redefine("f1", "size", "TEXT", FALSE),
     Fill("f1", {"small"}), Define("badge", "CHOICE")},
    {Record({}, {}, {{}}), Record({{"REGULAR"}}, {}, {}), Redefine("f2", "size", "CHOICE", FALSE),
     [op |-> "reorder", order |-> <<"f2", "f1">>], Fill("f1", {}), Fill("f2", {"large"})}>>

(* Three requests on one device; u1 is linked to m1, u2 has no link yet,   *)
(* and x1 is no account.                                                   *)
SignIn(op, who, s) == [op |-> op, who |-> who, secret |-> s, device |-> "d1", by |-> "none"]
Choose(m, s) == [op |-> "select", who |-> m, secret |-> s, device |-> "d1", by |-> "u1"]
Visits ==
  <<{SignIn("pin", "u1", "s1"), SignIn("password", "x1", "s1")},
    {SignIn("password", "u2", "s2"), Choose("m1", "s1"),
     [op |-> "clear", who |-> "none", secret |-> "s1", device |-> "d1", by |-> "u1"]}, {}, {}>>
Logins ==
  "u1" :> [password |-> "s2", pin |-> {"s1"}] @@ "u2" :> [password |-> "s2", pin |-> {}]
People == "m1" :> [active |-> TRUE, user |-> {"u1"}] @@ "m2" :> Unlinked
Resets == {<<"u1", "s2">>}
Staffing == {[accounts |-> Logins, members |-> People]}

-----------------------------------------------------------------------------

Init ==
  /\ part \in {"lines", "counts", "items", "accounts", "journal", "payslips", "schedule", "catalog", "employment",
             "access"}
  /\ RecordsInit
  /\ part # "lines" => menu["coffee"] = Price(2999, TRUE, TRUE)
  /\ part # "items" => category["dairy"] = "Milk"
  /\ part # "accounts" => user["u1"] = NoUser

RecordsMove ==
  \/ part = "lines" /\ LinesStep
  \/ part = "counts" /\ CountsStep
  \/ part = "items" /\ ItemsStep
  \/ part = "accounts" /\ AccountsStep
  \/ part = "journal" /\ JournalStep
  \/ part = "schedule" /\ ScheduleStep
  \/ part = "catalog" /\ CatalogStep
  \/ part = "employment" /\ EmploymentStep
  \/ part = "payslips" /\ PayrollStep
  \/ part = "access" /\ AccessStep

Next == RecordsMove /\ UNCHANGED part
Spec == Init /\ [][Next]_all
=============================================================================
