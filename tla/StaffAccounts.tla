---------------------------- MODULE StaffAccounts ----------------------------
(***************************************************************************)
(* Accounts of roster members (apps/api/src/users, apps/api/src/staff):    *)
(* createStaffAccount inserts a user and links it to its member in one     *)
(* transaction at READ COMMITTED, updateStaffCredentials changes the       *)
(* linked user, and StaffService.update changes the roster.  A row that an *)
(* open transaction has written is seen by no other and locked until it    *)
(* ends: whoever would write the same row, or insert the same username,    *)
(* waits.                                                                  *)
(*                                                                         *)
(* A username is a name and a casing; accounts made here are lower case.   *)
(***************************************************************************)
EXTENDS Naturals, FiniteSets, FiniteSetTheorems, TLAPS

CONSTANTS
  Request, \* HTTP requests
  User,    \* ids of users
  Member,  \* staff_members
  Name,    \* usernames up to case
  Hash,    \* hashes of passwords and PINs
  Calls    \* the calls each request may be

Op == {"create", "rotate", "activate"}
(* A rotation gives a password, a PIN or both.                             *)
Call == [op : Op, member : Member, name : Name,
         password : {{}} \cup {{h} : h \in Hash}, pin : {{}} \cup {{h} : h \in Hash}]

VARIABLES
  user,   \* users, committed
  member, \* staff_members, committed
  open,   \* what each transaction has written: its user, and the link
  pc, arg, seen

vars == <<user, member, open, pc, arg, seen>>

NoUser == [role |-> "none"]
(* A transaction's own user, the member it links it to, and the user whose *)
(* row it has updated.                                                     *)
Nothing == [user |-> {}, link |-> {}, row |-> [role |-> "none"]]
NoArg == [op |-> "activate", member |-> CHOOSE m \in Member : TRUE,
          name |-> CHOOSE n \in Name : TRUE, password |-> {}, pin |-> {}]

Users == {u \in User : user[u] # NoUser}
LinkLockedBy(m) == {q \in Request : m \in open[q].link}
Free(u) == user[u] = NoUser /\ \A q \in Request : u \notin open[q].user

-----------------------------------------------------------------------------

(* user maps to rows of name, lower, password, pin and role or to NoUser,  *)
(* member to rows of active and user.                                      *)
InitWith(users, members) ==
  /\ user = users /\ member = members
  /\ open = [q \in Request |-> Nothing]
  /\ pc = [q \in Request |-> "idle"] /\ arg = [q \in Request |-> NoArg]
  /\ seen = [q \in Request |-> {}]

(* The transaction ends: COMMIT of what it wrote was made by the caller.   *)
Finish(q) ==
  /\ pc' = [pc EXCEPT ![q] = "done"] /\ open' = [open EXCEPT ![q] = Nothing]
  /\ arg' = [arg EXCEPT ![q] = NoArg] /\ seen' = [seen EXCEPT ![q] = {}]
Go(q, label) == pc' = [pc EXCEPT ![q] = label] /\ UNCHANGED arg

Begin(q, c) ==
  /\ pc[q] = "idle"
  /\ arg' = [arg EXCEPT ![q] = c] /\ pc' = [pc EXCEPT ![q] = "find"]
  /\ UNCHANGED <<user, member, open, seen>>

(* createStaffAccount reads the member, then the usernames.                *)
MayLink(m) == member[m].active /\ member[m].user = {}
(* findFirst with mode insensitive                                         *)
NameIsTaken(n) == \E u \in Users : user[u].name = n

CreateFind(q) ==
  /\ pc[q] = "find" /\ arg[q].op = "create"
  /\ \/ /\ ~MayLink(arg[q].member) /\ Finish(q)
     \/ /\ MayLink(arg[q].member)
        /\ Go(q, "insert") /\ UNCHANGED <<open, seen>>
  /\ UNCHANGED <<user, member>>

(* users_username_key: an uncommitted INSERT of the same username is       *)
(* waited for.                                                             *)
WaitsFor(q) ==
  {p \in Request \ {q} : open[p].user # {} /\ open[p].row.name = arg[q].name /\ open[p].row.lower}

NameCheck(n) == NameIsTaken(n)

CreateCheckName(q) ==
  /\ pc[q] = "insert" /\ seen[q] = {}
  /\ \/ /\ NameCheck(arg[q].name) /\ Finish(q)
     \/ /\ ~NameCheck(arg[q].name)
        /\ seen' = [seen EXCEPT ![q] = {arg[q].member}] /\ UNCHANGED <<open, pc, arg>>
  /\ UNCHANGED <<user, member>>

CreateInsert(q) ==
  /\ pc[q] = "insert" /\ seen[q] # {}
  /\ WaitsFor(q) = {}
  /\ \/ /\ \E u \in Users : user[u].name = arg[q].name /\ user[u].lower
        /\ Finish(q)
     \/ /\ ~\E u \in Users : user[u].name = arg[q].name /\ user[u].lower
        /\ \E u \in User :
             /\ Free(u)
             /\ open' = [open EXCEPT ![q].user = {u}, ![q].row =
                  [name |-> arg[q].name, lower |-> TRUE, password |-> CHOOSE h \in arg[q].password : TRUE,
                   pin |-> arg[q].pin, role |-> "STAFF"]]
        /\ Go(q, "link") /\ UNCHANGED seen
  /\ UNCHANGED <<user, member>>

(* Mutant: the UPDATE names the member only.                               *)
LinksAnyone(m) == TRUE

(* updateMany where isActive and userId null: the row as it is when its    *)
(* lock is had.                                                            *)
Links(m) == MayLink(m)

(* Mutant: the number of rows is not looked at.                            *)
LinkOrGoOn(q) ==
  LET m == arg[q].member IN
  /\ open' = [open EXCEPT ![q].link = IF Links(m) THEN {m} ELSE {}]
  /\ Go(q, "commit") /\ UNCHANGED seen

LinkOrRollBack(q) ==
  LET m == arg[q].member IN
  \/ ~Links(m) /\ Finish(q)
  \/ Links(m) /\ open' = [open EXCEPT ![q].link = {m}] /\ Go(q, "commit") /\ UNCHANGED seen

CreateLink(q) ==
  /\ pc[q] = "link" /\ LinkLockedBy(arg[q].member) = {}
  /\ LinkOrRollBack(q)
  /\ UNCHANGED <<user, member>>

CreateCommit(q) ==
  /\ pc[q] = "commit"
  /\ user' = [u \in User |-> IF u \in open[q].user THEN open[q].row ELSE user[u]]
  /\ member' = [m \in Member |-> IF m \in open[q].link THEN [member[m] EXCEPT !.user = open[q].user]
                                 ELSE member[m]]
  /\ Finish(q)

-----------------------------------------------------------------------------
(* updateStaffCredentials                                                  *)

RotateFind(q) ==
  /\ pc[q] = "find" /\ arg[q].op = "rotate"
  /\ \/ /\ member[arg[q].member].user = {} /\ Finish(q)
     \/ /\ member[arg[q].member].user # {}
        /\ seen' = [seen EXCEPT ![q] = {user[u] : u \in member[arg[q].member].user}]
        /\ Go(q, "update") /\ UNCHANGED open
  /\ UNCHANGED <<user, member>>

Given(new, old) == IF new = {} THEN old ELSE new

(* Mutant: what is not given is written as it was read.                    *)
RotatedAsRead(q, r) ==
  LET was == CHOOSE s \in seen[q] : TRUE IN
  [r EXCEPT !.password = CHOOSE h \in Given(arg[q].password, {was.password}) : TRUE,
            !.pin = Given(arg[q].pin, was.pin)]

(* user.update writes the columns that are given.                          *)
Rotated(q, r) ==
  [r EXCEPT !.password = CHOOSE h \in Given(arg[q].password, {@}) : TRUE,
            !.pin = Given(arg[q].pin, @)]

RotateUpdate(q) ==
  /\ pc[q] = "update"
  /\ user' = [u \in User |-> IF u \in member[arg[q].member].user THEN Rotated(q, user[u]) ELSE user[u]]
  /\ Finish(q) /\ UNCHANGED member

(* StaffService.update: one UPDATE, after the member was found.            *)
Activate(q) ==
  /\ pc[q] = "find" /\ arg[q].op = "activate"
  /\ LinkLockedBy(arg[q].member) = {}
  /\ member' = [member EXCEPT ![arg[q].member].active = ~@]
  /\ Finish(q) /\ UNCHANGED user

-----------------------------------------------------------------------------

(* The ways in which createStaffAccount, updateStaffCredentials and update *)
(* go on.                                                                  *)
Step(q) ==
  \/ CreateFind(q) \/ CreateCheckName(q) \/ CreateInsert(q) \/ CreateLink(q) \/ CreateCommit(q)
  \/ RotateFind(q) \/ RotateUpdate(q) \/ Activate(q)

Next == \E q \in Request : Step(q) \/ \E c \in Calls[q] : Begin(q, c)

-----------------------------------------------------------------------------

(* No account without its member, and none of two members: an attempt that *)
(* finds its member linked or inactive leaves no user behind.              *)
AccountsAreLinked ==
  \A u \in Users : user[u].role = "STAFF" => Cardinality({m \in Member : u \in member[m].user}) = 1

(* A member that has an account keeps it: two attempts for one member do   *)
(* not link it to the one and then to the other.                           *)
LinksAreKept ==
  [][\A m \in Member : member[m].user # {} => member'[m].user = member[m].user]_vars

(* No two usernames differ in case only: findByUsername finds at most one. *)
NamesAreDistinct ==
  \A u, v \in Users : user[u].name = user[v].name => u = v

(* Accounts and the roster agree, whichever requests ran at once.          *)
AccountsInv == AccountsAreLinked /\ NamesAreDistinct

(* A rotation that is under way never undoes another one: of an account,   *)
(* only what a request gives is changed.                                   *)
RotationsAreKept ==
  [][\A u \in Users, q \in Request :
       RotateUpdate(q) =>
         /\ arg[q].password = {} => user'[u].password = user[u].password
         /\ arg[q].pin = {} => user'[u].pin = user[u].pin]_vars


-----------------------------------------------------------------------------
(* What is proved: the invariants of the run, for any requests, users,     *)
(* members and names.                                                      *)

UserRow == [name : Name, lower : BOOLEAN, password : Hash, pin : SUBSET Hash, role : {"STAFF", "ADMIN"}]
MemberRow == [active : BOOLEAN, user : SUBSET User]
OpenRow == [user : SUBSET User, link : SUBSET Member, row : UserRow \cup {NoUser}]
IsFunctionOn(f, S) == f = [x \in S |-> f[x]]

(* Every account is held by the one member it was made for, and what a     *)
(* member holds is an account.                                             *)
IsHeldBy(u, m) == \A n \in Member : u \in member[n].user <=> n = m
Held ==
  /\ \A u \in Users : user[u].role = "STAFF" => \E m \in Member : IsHeldBy(u, m)
  /\ \A m \in Member : member[m].user \subseteq Users

SpecWith(users, members) == InitWith(users, members) /\ [][Next]_vars

(* The calls are calls, and an account is made with a password.            *)
CallsAreTyped == \A q \in Request : \A c \in Calls[q] :
  c \in Call /\ (c.op = "create" => c.password # {})

(* The database the requests meet: rows, links that agree, distinct names. *)
StartsSound(users, members) ==
  /\ users \in [User -> UserRow \cup {NoUser}] /\ members \in [Member -> MemberRow]
  /\ \A u \in User : users[u] # NoUser /\ users[u].role = "STAFF" =>
       \E m \in Member : \A n \in Member : u \in members[n].user <=> n = m
  /\ \A m \in Member : \A u \in members[m].user : users[u] # NoUser
  /\ \A u, v \in User : users[u] # NoUser /\ users[v] # NoUser /\ users[u].name = users[v].name => u = v

Inserted(q) == pc[q] \in {"link", "commit"}

ShapeInv ==
  /\ user \in [User -> UserRow \cup {NoUser}] /\ member \in [Member -> MemberRow]
  /\ open \in [Request -> OpenRow]
  /\ IsFunctionOn(pc, Request) /\ IsFunctionOn(arg, Request) /\ IsFunctionOn(seen, Request)
  /\ \A q \in Request :
       /\ pc[q] \notin {"idle", "done"} => arg[q] \in Calls[q]
       /\ pc[q] \in {"insert", "link", "commit"} => arg[q].op = "create"
       /\ pc[q] \in {"idle", "find"} => seen[q] = {}
       /\ ~Inserted(q) => open[q] = Nothing

(* A name that was checked is taken in lower case only: those are the      *)
(* names that others insert.                                               *)
CheckedInv == \A q \in Request : pc[q] = "insert" /\ seen[q] # {} =>
  \A u \in Users : user[u].name = arg[q].name => user[u].lower

(* The user of an open transaction is new, and so is its name.             *)
OwnUser(q) ==
  /\ \E u \in User : open[q].user = {u} /\ user[u] = NoUser
  /\ open[q].row \in UserRow /\ open[q].row.name = arg[q].name
  /\ open[q].row.lower /\ open[q].row.role = "STAFF"
  /\ ~NameIsTaken(arg[q].name)
OwnInv ==
  /\ \A q \in Request : Inserted(q) => OwnUser(q)
  /\ \A p, q \in Request : Inserted(p) /\ Inserted(q) /\ p # q =>
       open[p].user # open[q].user /\ arg[p].name # arg[q].name

(* The member an open transaction links may be linked, and stays so.       *)
LinkInv ==
  /\ \A q \in Request : pc[q] = "commit" =>
       open[q].link = {arg[q].member} /\ MayLink(arg[q].member)
  /\ \A q \in Request : pc[q] # "commit" => open[q].link = {}
  /\ \A p, q \in Request : pc[p] = "commit" /\ pc[q] = "commit" /\ p # q =>
       arg[p].member # arg[q].member

AccountInv == ShapeInv /\ CheckedInv /\ OwnInv /\ LinkInv /\ Held /\ NamesAreDistinct

(* A row of users is not the absence of one.                               *)
LEMMA RowIsAUser ==
  ASSUME NEW r \in UserRow
  PROVE  r # NoUser
<1>1. r.role # "none" /\ NoUser.role = "none"
  BY DEF UserRow, NoUser
<1> QED BY <1>1

(* An account is held by one member.                                       *)
LEMMA HeldByOne ==
  ASSUME Held
  PROVE  AccountsAreLinked
<1> SUFFICES ASSUME NEW u \in Users, user[u].role = "STAFF"
    PROVE  Cardinality({m \in Member : u \in member[m].user}) = 1
  BY DEF AccountsAreLinked
<1>1. PICK m \in Member : IsHeldBy(u, m)
  BY DEF Held
<1>2. {n \in Member : u \in member[n].user} = {m}
  BY <1>1 DEF IsHeldBy
<1> QED BY <1>2, FS_Singleton

(* What the rows of users and members say of the open transactions goes on *)
(* when neither they nor those change.                                     *)
LEMMA RowsStay ==
  ASSUME AccountInv, UNCHANGED <<user, member>>
  PROVE  Held' /\ NamesAreDistinct'
BY DEF AccountInv, Held, IsHeldBy, NamesAreDistinct, Users

(* A request that ends without a write of its own leaves the rest alone.   *)
LEMMA EndKeeps ==
  ASSUME AccountInv, NEW q \in Request, Finish(q), UNCHANGED <<user, member>>
  PROVE  AccountInv'
<1>1. /\ \A p \in Request \ {q} : pc'[p] = pc[p] /\ arg'[p] = arg[p] /\ seen'[p] = seen[p] /\ open'[p] = open[p]
      /\ pc'[q] = "done" /\ open'[q] = Nothing
      /\ IsFunctionOn(pc', Request) /\ IsFunctionOn(arg', Request) /\ IsFunctionOn(seen', Request)
      /\ open' \in [Request -> OpenRow]
  <2>1. Nothing \in OpenRow
    BY DEF Nothing, OpenRow, NoUser
  <2> QED BY <2>1 DEF AccountInv, ShapeInv, IsFunctionOn, Finish
<1>2. ShapeInv'
  BY <1>1 DEF AccountInv, ShapeInv, Inserted
<1>3. CheckedInv'
  BY <1>1 DEF AccountInv, CheckedInv, Users
<1>4. OwnInv'
  BY <1>1 DEF AccountInv, OwnInv, OwnUser, Inserted, NameIsTaken, Users
<1>5. LinkInv'
  BY <1>1 DEF AccountInv, LinkInv, MayLink, Nothing
<1> QED BY <1>2, <1>3, <1>4, <1>5, RowsStay DEF AccountInv

(* What a request that moves on, and writes nothing, leaves as it is.      *)
LEMMA GoKeeps ==
  ASSUME AccountInv, NEW q \in Request, NEW label,
         Go(q, label), UNCHANGED <<user, member, open>>, IsFunctionOn(seen', Request),
         \A p \in Request \ {q} : seen'[p] = seen[p],
         ~Inserted(q), label \in {"insert", "update"}, pc[q] \in {"find", "insert"},
         label = "insert" => arg[q].op = "create",
         label = "insert" /\ seen'[q] # {} => ~NameIsTaken(arg[q].name)
  PROVE  AccountInv'
<1>1. /\ \A p \in Request \ {q} : pc'[p] = pc[p] /\ seen'[p] = seen[p]
      /\ pc'[q] = label /\ arg' = arg /\ open' = open /\ IsFunctionOn(pc', Request)
  BY DEF AccountInv, ShapeInv, IsFunctionOn, Go
<1>2. ShapeInv'
  BY <1>1 DEF AccountInv, ShapeInv, Inserted
<1>3. CheckedInv'
  BY <1>1 DEF AccountInv, CheckedInv, NameIsTaken, Users
<1>4. OwnInv'
  BY <1>1 DEF AccountInv, OwnInv, OwnUser, Inserted, NameIsTaken, Users
<1>5. LinkInv'
  BY <1>1 DEF AccountInv, LinkInv, MayLink, Inserted
<1> QED BY <1>2, <1>3, <1>4, <1>5, RowsStay DEF AccountInv

(* createStaffAccount's INSERT: the name is nobody's, because the check    *)
(* found none and whoever inserted it since has ended or is waited for.    *)
LEMMA InsertKeeps ==
  ASSUME CallsAreTyped, AccountInv, NEW q \in Request, CreateInsert(q)
  PROVE  AccountInv'
<1>1. CASE Finish(q)
  BY <1>1, EndKeeps DEF CreateInsert
<1>2. CASE ~Finish(q)
  <2>1. PICK u \in User :
          /\ Free(u)
          /\ open' = [open EXCEPT ![q].user = {u}, ![q].row =
               [name |-> arg[q].name, lower |-> TRUE, password |-> CHOOSE h \in arg[q].password : TRUE,
                pin |-> arg[q].pin, role |-> "STAFF"]]
    BY <1>2 DEF CreateInsert
  <2>2. /\ pc[q] = "insert" /\ seen[q] # {} /\ WaitsFor(q) = {} /\ Go(q, "link") /\ UNCHANGED <<seen, user, member>>
        /\ ~\E v \in Users : user[v].name = arg[q].name /\ user[v].lower
    BY <1>2 DEF CreateInsert
  <2>3. /\ arg[q] \in Call /\ arg[q].op = "create" /\ arg[q].password # {}
        /\ open[q] = Nothing
    BY <2>2 DEF CallsAreTyped, AccountInv, ShapeInv, Inserted
  <2> DEFINE row == [name |-> arg[q].name, lower |-> TRUE, password |-> CHOOSE h \in arg[q].password : TRUE,
                     pin |-> arg[q].pin, role |-> "STAFF"]
  <2>4. row \in UserRow
    BY <2>3 DEF UserRow, Call
  <2>5. /\ row.name = arg[q].name /\ row.lower /\ row.role = "STAFF"
    OBVIOUS
  <2> HIDE DEF row
  <2>6. ~NameIsTaken(arg[q].name)
    BY <2>2 DEF AccountInv, CheckedInv, NameIsTaken
  <2>7. open[q] \in OpenRow /\ open \in [Request -> OpenRow]
    BY DEF AccountInv, ShapeInv
  <2>8. /\ open' = [open EXCEPT ![q].user = {u}, ![q].row = row]
    BY <2>1 DEF row
  <2>9. /\ open'[q].user = {u} /\ open'[q].row = row /\ open'[q].link = open[q].link
        /\ \A p \in Request \ {q} : open'[p] = open[p]
        /\ open' \in [Request -> OpenRow]
    BY <2>4, <2>7, <2>8 DEF OpenRow
  <2>10. /\ \A p \in Request \ {q} : pc'[p] = pc[p]
         /\ pc'[q] = "link" /\ arg' = arg /\ seen' = seen /\ user' = user /\ member' = member
         /\ IsFunctionOn(pc', Request)
    BY <2>2 DEF AccountInv, ShapeInv, IsFunctionOn, Go
  <2>11. ShapeInv'
    BY <2>2, <2>3, <2>9, <2>10 DEF AccountInv, ShapeInv, Inserted
  <2>12. CheckedInv'
    BY <2>10 DEF AccountInv, CheckedInv, Users
  <2>13. OwnUser(q)'
    BY <2>1, <2>4, <2>5, <2>6, <2>9, <2>10 DEF OwnUser, NameIsTaken, Users, Free
  <2>14. \A p \in Request \ {q} : Inserted(p) =>
           open[p].user # {u} /\ arg[p].name # arg[q].name
    <3> SUFFICES ASSUME NEW p \in Request \ {q}, Inserted(p)
        PROVE  open[p].user # {u} /\ arg[p].name # arg[q].name
      OBVIOUS
    <3>1. OwnUser(p)
      BY DEF AccountInv, OwnInv
    <3> QED BY <2>1, <2>2, <3>1 DEF OwnUser, Free, WaitsFor
  <2>15. OwnInv'
    <3>1. ASSUME NEW p \in Request, Inserted(p)', p # q
          PROVE  Inserted(p) /\ OwnUser(p)'
      BY <2>9, <2>10, <3>1 DEF AccountInv, OwnInv, OwnUser, Inserted, NameIsTaken, Users
    <3>2. ASSUME NEW p \in Request, NEW r \in Request, Inserted(p)', Inserted(r)', p # r
          PROVE  open'[p].user # open'[r].user /\ arg'[p].name # arg'[r].name
      BY <2>9, <2>10, <2>14, <3>1, <3>2 DEF AccountInv, OwnInv
    <3> QED BY <2>13, <3>1, <3>2 DEF OwnInv
  <2>16. LinkInv'
    <3>1. \A p \in Request : open'[p].link = open[p].link
      BY <2>9
    <3>2. \A p \in Request : pc'[p] = "commit" <=> pc[p] = "commit"
      BY <2>2, <2>10
    <3> QED BY <2>10, <3>1, <3>2 DEF AccountInv, LinkInv, MayLink
  <2> QED BY <2>10, <2>11, <2>12, <2>15, <2>16, RowsStay DEF AccountInv
<1> QED BY <1>1, <1>2

(* The UPDATE that links: it has the member's lock, and no other does.     *)
LEMMA LinkKeeps ==
  ASSUME CallsAreTyped, AccountInv, NEW q \in Request, CreateLink(q)
  PROVE  AccountInv'
<1>1. CASE Finish(q)
  BY <1>1, EndKeeps DEF CreateLink
<1>2. CASE ~Finish(q)
  <2>0. PICK m : m = arg[q].member
    OBVIOUS
  <2>1. /\ pc[q] = "link" /\ LinkLockedBy(m) = {} /\ MayLink(m)
        /\ open' = [open EXCEPT ![q].link = {m}] /\ Go(q, "commit") /\ UNCHANGED <<seen, user, member>>
    BY <1>2, <2>0 DEF CreateLink, LinkOrRollBack, Links
  <2>2. /\ open[q] \in OpenRow /\ open \in [Request -> OpenRow] /\ m \in Member
    BY <2>0, <2>1 DEF AccountInv, ShapeInv, CallsAreTyped, Call
  <2>3. /\ open'[q].user = open[q].user /\ open'[q].row = open[q].row /\ open'[q].link = {m}
        /\ \A p \in Request \ {q} : open'[p] = open[p]
        /\ open' \in [Request -> OpenRow]
    BY <2>1, <2>2 DEF OpenRow
  <2>4. /\ \A p \in Request \ {q} : pc'[p] = pc[p]
        /\ pc'[q] = "commit" /\ arg' = arg /\ seen' = seen /\ user' = user /\ member' = member
        /\ IsFunctionOn(pc', Request)
    BY <2>1 DEF AccountInv, ShapeInv, IsFunctionOn, Go
  <2>5. ShapeInv'
    BY <2>1, <2>3, <2>4 DEF AccountInv, ShapeInv, Inserted
  <2>6. CheckedInv'
    BY <2>4 DEF AccountInv, CheckedInv, Users
  <2>7. OwnInv'
    <3>1. \A p \in Request : Inserted(p)' <=> Inserted(p)
      BY <2>1, <2>4 DEF Inserted
    <3>2. \A p \in Request : open'[p].user = open[p].user /\ open'[p].row = open[p].row
      BY <2>3
    <3> QED BY <2>4, <3>1, <3>2 DEF AccountInv, OwnInv, OwnUser, NameIsTaken, Users
  <2>8. LinkInv'
    <3>1. LinkInv
      BY DEF AccountInv
    <3>2. ASSUME NEW p \in Request, pc'[p] = "commit", p # q
          PROVE  pc[p] = "commit" /\ open'[p].link = {arg[p].member} /\ MayLink(arg[p].member)'
                 /\ arg[p].member # m
      BY <2>1, <2>3, <2>4, <3>1, <3>2 DEF LinkInv, MayLink, LinkLockedBy
    <3>3. open'[q].link = {arg'[q].member} /\ MayLink(arg[q].member)'
      BY <2>0, <2>1, <2>3, <2>4 DEF MayLink
    <3>4. \A p \in Request : pc'[p] # "commit" => open'[p].link = {}
      BY <2>3, <2>4, <3>1 DEF LinkInv
    <3> QED BY <2>0, <2>4, <3>1, <3>2, <3>3, <3>4 DEF LinkInv
  <2> QED BY <2>4, <2>5, <2>6, <2>7, <2>8, RowsStay DEF AccountInv
<1> QED BY <1>1, <1>2

(* The COMMIT: the account gets the member it was inserted for.            *)
LEMMA CommitKeeps ==
  ASSUME CallsAreTyped, AccountInv, NEW q \in Request, CreateCommit(q)
  PROVE  /\ AccountInv'
         /\ \A m \in Member : member[m].user # {} => member'[m].user = member[m].user
<1>0. PICK m, row : m = arg[q].member /\ row = open[q].row
  OBVIOUS
<1>1. /\ pc[q] = "commit" /\ OwnUser(q) /\ open[q].link = {m} /\ MayLink(m)
      /\ arg[q] \in Call
  BY <1>0 DEF CreateCommit, AccountInv, OwnInv, Inserted, LinkInv, ShapeInv, CallsAreTyped
<1>2. PICK u \in User : open[q].user = {u} /\ user[u] = NoUser
  BY <1>1 DEF OwnUser
<1>3. /\ row \in UserRow /\ row.lower /\ row.role = "STAFF" /\ row.name = arg[q].name /\ row # NoUser
      /\ m \in Member /\ member[m].user = {} /\ member[m].active /\ ~NameIsTaken(row.name)
  BY <1>0, <1>1, RowIsAUser DEF OwnUser, Call, MayLink
<1>4. /\ user' = [v \in User |-> IF v = u THEN row ELSE user[v]]
      /\ member' = [n \in Member |-> IF n = m THEN [member[n] EXCEPT !.user = {u}] ELSE member[n]]
  BY <1>0, <1>1, <1>2 DEF CreateCommit
<1>5. /\ user \in [User -> UserRow \cup {NoUser}] /\ member \in [Member -> MemberRow]
      /\ open \in [Request -> OpenRow]
  BY DEF AccountInv, ShapeInv
<1>6. /\ user' \in [User -> UserRow \cup {NoUser}]
      /\ user'[u] = row /\ \A v \in User \ {u} : user'[v] = user[v]
      /\ Users' = Users \cup {u} /\ u \notin Users
  BY <1>2, <1>3, <1>4, <1>5 DEF Users
<1>7. /\ member' \in [Member -> MemberRow]
      /\ member'[m].user = {u} /\ member'[m].active
      /\ \A n \in Member \ {m} : member'[n] = member[n]
  BY <1>3, <1>4, <1>5 DEF MemberRow
<1>8. /\ \A p \in Request \ {q} : pc'[p] = pc[p] /\ arg'[p] = arg[p] /\ seen'[p] = seen[p] /\ open'[p] = open[p]
      /\ pc'[q] = "done" /\ open'[q] = Nothing
      /\ IsFunctionOn(pc', Request) /\ IsFunctionOn(arg', Request) /\ IsFunctionOn(seen', Request)
      /\ open' \in [Request -> OpenRow]
  <2>1. Nothing \in OpenRow
    BY DEF Nothing, OpenRow, NoUser
  <2> QED BY <2>1 DEF AccountInv, ShapeInv, IsFunctionOn, CreateCommit, Finish
<1>9. ShapeInv'
  BY <1>6, <1>7, <1>8 DEF AccountInv, ShapeInv, Inserted
<1>10. CheckedInv'
  <2>1. \A v \in Users' : (v \in Users /\ user'[v] = user[v]) \/ user'[v].lower
    BY <1>3, <1>6 DEF Users
  <2>2. \A p \in Request : pc'[p] = "insert" => pc[p] = "insert" /\ arg'[p] = arg[p] /\ seen'[p] = seen[p]
    BY <1>8
  <2> QED BY <2>1, <2>2 DEF AccountInv, CheckedInv
<1>11. OwnInv'
  <2>1. ASSUME NEW p \in Request, Inserted(p)'
        PROVE  Inserted(p) /\ p # q /\ OwnUser(p)'
    <3>1. p # q /\ Inserted(p)
      BY <1>8, <2>1 DEF Inserted
    <3>2. OwnUser(p) /\ arg[p].name # arg[q].name /\ open[p].user # {u}
      BY <1>1, <1>2, <3>1 DEF AccountInv, OwnInv, Inserted
    <3>3. \A v \in Users : v \in User /\ user[v].name # arg[p].name
      BY <3>2 DEF OwnUser, NameIsTaken, Users
    <3>4. \A v \in Users' : user'[v].name # arg[p].name
      BY <1>3, <1>6, <3>2, <3>3
    <3>5. ~NameIsTaken(arg[p].name)'
      BY <1>8, <3>1, <3>4 DEF NameIsTaken
    <3> QED BY <1>6, <1>8, <3>1, <3>2, <3>5 DEF OwnUser
  <2>2. ASSUME NEW p \in Request, NEW r \in Request, Inserted(p)', Inserted(r)', p # r
        PROVE  open'[p].user # open'[r].user /\ arg'[p].name # arg'[r].name
    BY <1>8, <2>1, <2>2 DEF AccountInv, OwnInv
  <2> QED BY <2>1, <2>2 DEF OwnInv
<1>12. LinkInv'
  <2>1. LinkInv
    BY DEF AccountInv
  <2>2. ASSUME NEW p \in Request, pc'[p] = "commit"
        PROVE  p # q /\ pc[p] = "commit" /\ open'[p].link = {arg'[p].member} /\ MayLink(arg[p].member)'
    <3>1. p # q /\ pc[p] = "commit" /\ open[p].link = {arg[p].member} /\ MayLink(arg[p].member)
      BY <1>8, <2>1, <2>2 DEF LinkInv
    <3>2. arg[p].member # m /\ arg[p].member \in Member
      BY <1>0, <1>1, <2>1, <3>1 DEF LinkInv, AccountInv, ShapeInv, CallsAreTyped, Call
    <3> QED BY <1>7, <1>8, <3>1, <3>2 DEF MayLink
  <2>3. \A p \in Request : pc'[p] # "commit" => open'[p].link = {}
    BY <1>8, <2>1 DEF LinkInv, Nothing
  <2> QED BY <1>8, <2>1, <2>2, <2>3 DEF LinkInv
<1>13. Held'
  <2>1. \A n \in Member : member[n].user \subseteq Users
    BY DEF AccountInv, Held
  <2>2. \A n \in Member : member'[n].user \subseteq Users'
    BY <1>6, <1>7, <2>1
  <2>3. IsHeldBy(u, m)'
    BY <1>6, <1>7, <2>1 DEF IsHeldBy
  <2>4. ASSUME NEW v \in Users, user[v].role = "STAFF"
        PROVE  \E n \in Member : IsHeldBy(v, n)'
    <3>1. PICK n \in Member : IsHeldBy(v, n)
      BY <2>4 DEF AccountInv, Held
    <3>2. v # u /\ n # m
      BY <1>3, <1>6, <3>1 DEF IsHeldBy
    <3>3. \A k \in Member : v \in member'[k].user <=> v \in member[k].user
      BY <1>3, <1>7, <3>2
    <3> QED BY <3>1, <3>3 DEF IsHeldBy
  <2>5. ASSUME NEW v \in Users', user'[v].role = "STAFF"
        PROVE  \E n \in Member : IsHeldBy(v, n)'
    <3>1. CASE v = u
      BY <1>3, <2>3, <3>1
    <3>2. CASE v # u
      <4>1. v \in Users /\ v \in User /\ user'[v] = user[v]
        BY <1>6, <2>5, <3>2 DEF Users
      <4> QED BY <2>4, <2>5, <4>1
    <3> QED BY <3>1, <3>2
  <2> QED BY <2>2, <2>5 DEF Held
<1>14. NamesAreDistinct'
  BY <1>3, <1>6 DEF AccountInv, NamesAreDistinct, NameIsTaken, Users
<1>15. \A n \in Member : member[n].user # {} => member'[n].user = member[n].user
  BY <1>3, <1>7
<1> QED BY <1>9, <1>10, <1>11, <1>12, <1>13, <1>14, <1>15 DEF AccountInv

(* user.update: an account keeps its name, its case and its role, and what *)
(* the request does not give.                                              *)
LEMMA RotatedRow ==
  ASSUME CallsAreTyped, AccountInv, NEW q \in Request, arg[q] \in Call, NEW r \in UserRow
  PROVE  /\ Rotated(q, r) \in UserRow
         /\ Rotated(q, r).name = r.name /\ Rotated(q, r).lower = r.lower /\ Rotated(q, r).role = r.role
         /\ arg[q].password = {} => Rotated(q, r).password = r.password
         /\ arg[q].pin = {} => Rotated(q, r).pin = r.pin
<1> DEFINE p == CHOOSE h \in Given(arg[q].password, {r.password}) : TRUE
           i == Given(arg[q].pin, r.pin)
<1>1. r.password \in Hash /\ r.pin \in SUBSET Hash
  BY DEF UserRow
<1>2. arg[q].password \in {{}} \cup {{h} : h \in Hash} /\ arg[q].pin \in {{}} \cup {{h} : h \in Hash}
  BY DEF Call
<1>3. Given(arg[q].password, {r.password}) # {}
  BY DEF Given
<1>4. p \in Given(arg[q].password, {r.password})
  BY <1>3
<1>5. p \in Hash /\ i \in SUBSET Hash
  BY <1>1, <1>2, <1>4 DEF Given
<1>6. (arg[q].password = {} => p = r.password) /\ (arg[q].pin = {} => i = r.pin)
  BY <1>4 DEF Given
<1>7. Rotated(q, r) = [r EXCEPT !.password = p, !.pin = i]
  BY DEF Rotated, UserRow
<1> HIDE DEF p, i
<1> QED BY <1>5, <1>6, <1>7 DEF UserRow

(* updateStaffCredentials' UPDATE                                          *)
LEMMA RotateKeeps ==
  ASSUME CallsAreTyped, AccountInv, NEW q \in Request, RotateUpdate(q)
  PROVE  /\ AccountInv'
         /\ \A u \in Users : (arg[q].password = {} => user'[u].password = user[u].password)
                             /\ (arg[q].pin = {} => user'[u].pin = user[u].pin)
<1>1. /\ pc[q] = "update" /\ arg[q] \in Call /\ arg[q].member \in Member
  BY DEF RotateUpdate, AccountInv, ShapeInv, CallsAreTyped, Call
<1>2. PICK held : held = member[arg[q].member].user
  OBVIOUS
<1>3. /\ user' = [u \in User |-> IF u \in held THEN Rotated(q, user[u]) ELSE user[u]]
      /\ Finish(q) /\ member' = member
  BY <1>2 DEF RotateUpdate
<1>4. /\ held \subseteq Users /\ Users \subseteq User /\ user \in [User -> UserRow \cup {NoUser}]
  BY <1>1, <1>2 DEF AccountInv, Held, ShapeInv, Users
<1>5. ASSUME NEW u \in Users
      PROVE  /\ user'[u] \in UserRow
             /\ user'[u].name = user[u].name /\ user'[u].lower = user[u].lower /\ user'[u].role = user[u].role
             /\ arg[q].password = {} => user'[u].password = user[u].password
             /\ arg[q].pin = {} => user'[u].pin = user[u].pin
  <2>1. user[u] \in UserRow
    BY <1>4 DEF Users
  <2>2. user'[u] = IF u \in held THEN Rotated(q, user[u]) ELSE user[u]
    BY <1>3, <1>4
  <2> QED BY <1>1, <2>1, <2>2, RotatedRow
<1>6. \A u \in User \ Users : user'[u] = user[u] /\ user'[u] = NoUser
  BY <1>3, <1>4 DEF Users
<1>7. Users' = Users /\ user' \in [User -> UserRow \cup {NoUser}]
  <2>1. \A u \in Users : user'[u] # NoUser
    BY <1>5, RowIsAUser
  <2>2. Users' = Users
    BY <1>4, <1>6, <2>1 DEF Users
  <2>3. \A u \in User : user'[u] \in UserRow \cup {NoUser}
    BY <1>5, <1>6
  <2> QED BY <1>3, <2>2, <2>3
<1>8. /\ \A p \in Request \ {q} : pc'[p] = pc[p] /\ arg'[p] = arg[p] /\ seen'[p] = seen[p] /\ open'[p] = open[p]
      /\ pc'[q] = "done" /\ open'[q] = Nothing
      /\ IsFunctionOn(pc', Request) /\ IsFunctionOn(arg', Request) /\ IsFunctionOn(seen', Request)
      /\ open' \in [Request -> OpenRow]
  <2>1. Nothing \in OpenRow
    BY DEF Nothing, OpenRow, NoUser
  <2> QED BY <1>3, <2>1 DEF AccountInv, ShapeInv, IsFunctionOn, Finish
<1>9. ShapeInv'
  BY <1>3, <1>7, <1>8 DEF AccountInv, ShapeInv, Inserted
<1>10. CheckedInv'
  BY <1>5, <1>7, <1>8 DEF AccountInv, CheckedInv
<1>11. OwnInv'
  <2>1. ASSUME NEW p \in Request, Inserted(p)'
        PROVE  Inserted(p) /\ p # q /\ OwnUser(p)'
    <3>1. p # q /\ Inserted(p) /\ OwnUser(p)
      BY <1>8, <2>1 DEF Inserted, AccountInv, OwnInv
    <3>2. PICK u \in User : open[p].user = {u} /\ user[u] = NoUser
      BY <3>1 DEF OwnUser
    <3>3. user'[u] = NoUser
      BY <1>6, <3>2 DEF Users
    <3>4. ~NameIsTaken(arg[p].name)'
      BY <1>5, <1>7, <1>8, <3>1 DEF OwnUser, NameIsTaken
    <3> QED BY <1>8, <3>1, <3>2, <3>3, <3>4 DEF OwnUser
  <2> QED BY <1>8, <2>1 DEF OwnInv, AccountInv
<1>12. LinkInv'
  <2>1. \A p \in Request : pc'[p] = "commit" => p # q /\ pc[p] = "commit" /\ open'[p] = open[p] /\ arg'[p] = arg[p]
    BY <1>8
  <2>2. \A p \in Request : pc'[p] # "commit" => open'[p].link = {}
    BY <1>8 DEF AccountInv, LinkInv, Nothing
  <2> QED BY <1>3, <2>1, <2>2 DEF AccountInv, LinkInv, MayLink
<1>13. Held'
  BY <1>3, <1>5, <1>7 DEF AccountInv, Held, IsHeldBy
<1>14. NamesAreDistinct'
  BY <1>5, <1>7 DEF AccountInv, NamesAreDistinct
<1> QED BY <1>5, <1>9, <1>10, <1>11, <1>12, <1>13, <1>14 DEF AccountInv

(* StaffService.update: it has the member's lock, so that no open          *)
(* transaction links the member.                                           *)
LEMMA ActivateKeeps ==
  ASSUME CallsAreTyped, AccountInv, NEW q \in Request, Activate(q)
  PROVE  /\ AccountInv'
         /\ \A m \in Member : member'[m].user = member[m].user
<1>1. PICK m : m = arg[q].member
  OBVIOUS
<1>2. /\ pc[q] = "find" /\ arg[q] \in Call /\ m \in Member /\ LinkLockedBy(m) = {}
      /\ Finish(q) /\ user' = user
      /\ member' = [member EXCEPT ![m].active = ~member[m].active]
      /\ member \in [Member -> MemberRow]
  BY <1>1 DEF Activate, AccountInv, ShapeInv, CallsAreTyped, Call
<1>3. /\ member' \in [Member -> MemberRow]
      /\ \A n \in Member : member'[n].user = member[n].user
      /\ \A n \in Member \ {m} : member'[n] = member[n]
  BY <1>2 DEF MemberRow
<1>4. /\ \A p \in Request \ {q} : pc'[p] = pc[p] /\ arg'[p] = arg[p] /\ seen'[p] = seen[p] /\ open'[p] = open[p]
      /\ pc'[q] = "done" /\ open'[q] = Nothing
      /\ IsFunctionOn(pc', Request) /\ IsFunctionOn(arg', Request) /\ IsFunctionOn(seen', Request)
      /\ open' \in [Request -> OpenRow]
  <2>1. Nothing \in OpenRow
    BY DEF Nothing, OpenRow, NoUser
  <2> QED BY <1>2, <2>1 DEF AccountInv, ShapeInv, IsFunctionOn, Finish
<1>5. ShapeInv'
  BY <1>2, <1>3, <1>4 DEF AccountInv, ShapeInv, Inserted
<1>6. CheckedInv'
  BY <1>2, <1>4 DEF AccountInv, CheckedInv, Users
<1>7. OwnInv'
  BY <1>2, <1>4 DEF AccountInv, OwnInv, OwnUser, Inserted, NameIsTaken, Users
<1>8. LinkInv'
  <2>1. LinkInv
    BY DEF AccountInv
  <2>2. ASSUME NEW p \in Request, pc'[p] = "commit"
        PROVE  p # q /\ pc[p] = "commit" /\ open'[p].link = {arg'[p].member} /\ MayLink(arg[p].member)'
    <3>1. p # q /\ pc[p] = "commit" /\ open[p].link = {arg[p].member} /\ MayLink(arg[p].member)
      BY <1>4, <2>1, <2>2 DEF LinkInv
    <3>2. arg[p].member # m /\ arg[p].member \in Member
      BY <1>2, <3>1 DEF LinkLockedBy, AccountInv, ShapeInv, CallsAreTyped, Call
    <3> QED BY <1>3, <1>4, <3>1, <3>2 DEF MayLink
  <2>3. \A p \in Request : pc'[p] # "commit" => open'[p].link = {}
    BY <1>4, <2>1 DEF LinkInv, Nothing
  <2> QED BY <1>4, <2>1, <2>2, <2>3 DEF LinkInv
<1>9. Held' /\ NamesAreDistinct'
  BY <1>2, <1>3 DEF AccountInv, Held, IsHeldBy, NamesAreDistinct, Users
<1> QED BY <1>3, <1>5, <1>6, <1>7, <1>8, <1>9 DEF AccountInv

(* Every step of a request keeps the invariant and the links.              *)
LEMMA RequestKeeps ==
  ASSUME CallsAreTyped, AccountInv, NEW q \in Request, Step(q) \/ \E c \in Calls[q] : Begin(q, c)
  PROVE  /\ AccountInv'
         /\ \A m \in Member : member[m].user # {} => member'[m].user = member[m].user
<1> DEFINE LinksStay == \A m \in Member : member[m].user # {} => member'[m].user = member[m].user
<1>0. UNCHANGED member => LinksStay
  OBVIOUS
<1>1. IsFunctionOn(pc, Request) /\ IsFunctionOn(arg, Request) /\ IsFunctionOn(seen, Request)
  BY DEF AccountInv, ShapeInv
<1> HIDE DEF LinksStay
<1>2. ASSUME NEW c \in Calls[q], Begin(q, c)
      PROVE  AccountInv' /\ UNCHANGED member
  <2>1. /\ \A p \in Request \ {q} : pc'[p] = pc[p] /\ arg'[p] = arg[p]
        /\ pc'[q] = "find" /\ arg'[q] = c /\ seen' = seen /\ open' = open /\ user' = user /\ member' = member
        /\ IsFunctionOn(pc', Request) /\ IsFunctionOn(arg', Request)
        /\ pc[q] = "idle"
    BY <1>1, <1>2 DEF IsFunctionOn, Begin
  <2>2. ShapeInv'
    BY <2>1 DEF AccountInv, ShapeInv, Inserted
  <2>3. CheckedInv' /\ OwnInv'
    BY <2>1 DEF AccountInv, CheckedInv, OwnInv, OwnUser, Inserted, NameIsTaken, Users
  <2>4. LinkInv'
    BY <2>1 DEF AccountInv, LinkInv, MayLink
  <2> QED BY <2>1, <2>2, <2>3, <2>4, RowsStay DEF AccountInv
<1>3. CASE CreateFind(q)
  <2>1. CASE Go(q, "insert") /\ UNCHANGED seen /\ UNCHANGED open
    <3>1. pc[q] = "find" /\ arg[q].op = "create" /\ ~Inserted(q) /\ UNCHANGED <<user, member, open>>
      BY <1>3, <2>1 DEF CreateFind, Inserted
    <3>2. seen'[q] = {} \/ ~NameIsTaken(arg[q].name)
      BY <1>1, <2>1, <3>1 DEF AccountInv, ShapeInv
    <3> QED BY <1>1, <2>1, <3>1, <3>2, GoKeeps
  <2> QED BY <1>3, <2>1, EndKeeps DEF CreateFind
<1>4. CASE CreateCheckName(q)
  <2>1. pc[q] = "insert" /\ arg[q].op = "create" /\ ~Inserted(q) /\ UNCHANGED <<user, member>>
    BY <1>4 DEF CreateCheckName, Inserted, AccountInv, ShapeInv
  <2>2. CASE ~NameCheck(arg[q].name) /\ UNCHANGED <<open, pc, arg>>
             /\ seen' = [seen EXCEPT ![q] = {arg[q].member}]
    <3>1. Go(q, "insert") /\ IsFunctionOn(seen', Request) /\ \A p \in Request \ {q} : seen'[p] = seen[p]
      BY <1>1, <2>1, <2>2 DEF Go, IsFunctionOn
    <3> QED BY <2>1, <2>2, <3>1, GoKeeps DEF NameCheck
  <2> QED BY <1>4, <2>1, <2>2, EndKeeps DEF CreateCheckName
<1>5. CASE RotateFind(q)
  <2>1. pc[q] = "find" /\ arg[q].op = "rotate" /\ ~Inserted(q) /\ UNCHANGED <<user, member>>
    BY <1>5 DEF RotateFind, Inserted
  <2>2. CASE Go(q, "update") /\ UNCHANGED open
             /\ seen' = [seen EXCEPT ![q] = {user[u] : u \in member[arg[q].member].user}]
    <3>1. IsFunctionOn(seen', Request) /\ \A p \in Request \ {q} : seen'[p] = seen[p]
      BY <1>1, <2>2 DEF IsFunctionOn
    <3> QED BY <2>1, <2>2, <3>1, GoKeeps
  <2> QED BY <1>5, <2>1, <2>2, EndKeeps DEF RotateFind
<1>6. CASE CreateInsert(q)
  BY <1>6, InsertKeeps DEF CreateInsert
<1>7. CASE CreateLink(q)
  BY <1>7, LinkKeeps DEF CreateLink
<1>8. CASE CreateCommit(q)
  BY <1>8, CommitKeeps DEF LinksStay
<1>9. CASE RotateUpdate(q)
  BY <1>9, RotateKeeps DEF RotateUpdate
<1>10. CASE Activate(q)
  BY <1>10, ActivateKeeps DEF LinksStay
<1>11. UNCHANGED member \/ CreateCommit(q) \/ Activate(q)
  BY <1>2 DEF Step, CreateFind, CreateCheckName, CreateInsert, CreateLink, RotateFind, RotateUpdate
<1>12. AccountInv'
  BY <1>2, <1>3, <1>4, <1>5, <1>6, <1>7, <1>8, <1>9, <1>10 DEF Step
<1>13. LinksStay
  BY <1>0, <1>8, <1>10, <1>11, CommitKeeps, ActivateKeeps DEF LinksStay
<1> QED BY <1>12, <1>13 DEF LinksStay

(* Every step keeps the invariant, the links, and what rotations do not    *)
(* give.                                                                   *)
LEMMA AccountStep ==
  ASSUME CallsAreTyped, AccountInv, [Next]_vars
  PROVE  /\ AccountInv'
         /\ \A m \in Member : member[m].user # {} => member'[m].user = member[m].user
         /\ \A u \in Users, q \in Request : RotateUpdate(q) =>
              /\ arg[q].password = {} => user'[u].password = user[u].password
              /\ arg[q].pin = {} => user'[u].pin = user[u].pin
<1>1. \A u \in Users, q \in Request : RotateUpdate(q) =>
        /\ arg[q].password = {} => user'[u].password = user[u].password
        /\ arg[q].pin = {} => user'[u].pin = user[u].pin
  BY RotateKeeps
<1>2. CASE UNCHANGED vars
  <2>1. ShapeInv' /\ CheckedInv' /\ LinkInv'
    BY <1>2 DEF vars, AccountInv, ShapeInv, CheckedInv, LinkInv, IsFunctionOn, Inserted, MayLink, Users
  <2>2. OwnInv'
    BY <1>2 DEF vars, AccountInv, OwnInv, Inserted, OwnUser, NameIsTaken, Users
  <2> QED BY <1>1, <1>2, <2>1, <2>2, RowsStay DEF AccountInv, vars
<1>3. CASE Next
  BY <1>1, <1>3, RequestKeeps DEF Next
<1> QED BY <1>2, <1>3

(* The roster the requests meet has the invariant.                         *)
LEMMA AccountsStart ==
  ASSUME NEW users, NEW members, StartsSound(users, members), InitWith(users, members)
  PROVE  AccountInv
<1>1. ShapeInv
  BY DEF InitWith, StartsSound, ShapeInv, Nothing, OpenRow, NoUser, IsFunctionOn, Inserted
<1>2. CheckedInv /\ OwnInv /\ LinkInv
  BY DEF InitWith, CheckedInv, OwnInv, LinkInv, Inserted, Nothing
<1>3. user = users /\ member = members
  BY DEF InitWith
<1>4. Held
  <2>1. \A u \in User : user[u] # NoUser /\ user[u].role = "STAFF" => \E m \in Member : IsHeldBy(u, m)
    BY <1>3 DEF StartsSound, IsHeldBy
  <2>2. \A m \in Member : member[m].user \subseteq User
    BY <1>3 DEF StartsSound, MemberRow
  <2>3. \A m \in Member : \A u \in member[m].user : user[u] # NoUser
    BY <1>3 DEF StartsSound
  <2> QED BY <2>1, <2>2, <2>3 DEF Held, Users
<1>5. NamesAreDistinct
  BY <1>3 DEF StartsSound, NamesAreDistinct, Users
<1> QED BY <1>1, <1>2, <1>4, <1>5 DEF AccountInv

(* However creations, rotations and activations run at once, from any      *)
(* roster whose links agree: every account is held by the one member it    *)
(* was made for, and no two usernames differ in case only.                 *)
THEOREM AccountsStayLinked ==
  ASSUME NEW users, NEW members, CallsAreTyped, StartsSound(users, members)
  PROVE  SpecWith(users, members) => []AccountsInv
<1>1. InitWith(users, members) => AccountInv
  BY AccountsStart
<1>2. AccountInv /\ [Next]_vars => AccountInv'
  BY AccountStep
<1>3. AccountInv => AccountsInv
  BY HeldByOne DEF AccountInv, AccountsInv
<1> QED BY <1>1, <1>2, <1>3, PTL DEF SpecWith

(* A member that has an account keeps it, and a rotation changes nothing   *)
(* of an account that its request does not give, whoever rotates beside it *)
(* and whatever was read before.                                           *)
THEOREM LinksAndRotationsStay ==
  ASSUME NEW users, NEW members, CallsAreTyped, StartsSound(users, members)
  PROVE  SpecWith(users, members) => LinksAreKept /\ RotationsAreKept
<1>1. InitWith(users, members) => AccountInv
  BY AccountsStart
<1>2. AccountInv /\ [Next]_vars => AccountInv'
  BY AccountStep
<1>3. AccountInv /\ [Next]_vars =>
        [\A m \in Member : member[m].user # {} => member'[m].user = member[m].user]_vars
  BY AccountStep
<1>4. AccountInv /\ [Next]_vars =>
        [\A u \in Users, q \in Request :
           RotateUpdate(q) =>
             /\ arg[q].password = {} => user'[u].password = user[u].password
             /\ arg[q].pin = {} => user'[u].pin = user[u].pin]_vars
  BY AccountStep
<1> QED BY <1>1, <1>2, <1>3, <1>4, PTL DEF SpecWith, LinksAreKept, RotationsAreKept
=============================================================================
