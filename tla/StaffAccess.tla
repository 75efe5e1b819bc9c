----------------------------- MODULE StaffAccess -----------------------------
(***************************************************************************)
(* Staff sign-in and the active cashier of the devices                     *)
(* (apps/api/src/auth, apps/api/src/sales): requests that read accounts    *)
(* and the roster, pass the throttle, verify a secret and append to the    *)
(* device's cashier selections.  Between two awaits of a request the other *)
(* requests run, and administrators change accounts and the roster.        *)
(*                                                                         *)
(* A hash matches the secret it was made of and no other; a null hash is   *)
(* the set {}, and the dummy hash that stands in for it matches nothing.   *)
(*                                                                         *)
(* The throttle (AuthAttemptThrottleService) keeps the failed attempts of  *)
(* each device and account in a Map, whose order is the order in which its *)
(* keys were entered.  The Map is a function to no bucket or one, and a    *)
(* bucket names the keys that were there before it.  A time is what is     *)
(* left of it, 0 a time that has come; blocked is 0 for null.              *)
(***************************************************************************)
EXTENDS Naturals, FiniteSets

CONSTANTS
  Request, \* HTTP requests
  User,    \* accounts with the role STAFF
  Unknown, \* identifiers no account has
  Member,  \* staff_members
  Device,  \* device ids
  Secret,  \* passwords and PINs
  Rotation, \* the accounts administrators change, each with its new secret
  Toggled,  \* the members they deactivate and activate
  Calls,   \* the calls each request may be
  MaxFailures, \* AUTH_THROTTLE_MAX_FAILURES
  Cooldown,    \* AUTH_THROTTLE_COOLDOWN_SECONDS
  MaxBuckets   \* AUTH_THROTTLE_MAX_BUCKETS

Op == {"password", "pin", "select", "clear"}
None == "none"
(* who is the account, the member or the identifier, by is the account of  *)
(* the session that a selection needs.                                     *)
Call == [op : Op, who : User \cup Unknown \cup Member \cup {None}, secret : Secret,
         device : Device, by : User \cup {None}]

(* What keyForUser and keyForUnknown return.                               *)
Key == Device \X (User \cup Unknown \cup Member)
Bucket == [failures : Nat, blocked : 0 .. Cooldown, expires : 0 .. Cooldown, before : SUBSET Key]

Entered(m) == {k \in Key : m[k] # {}}
Delete(m, k) == [m EXCEPT ![k] = {}]
(* evictExpiredBuckets                                                     *)
Live(m) == [k \in Key |-> {b \in m[k] : b.expires > 0}]

(* retryAfterSeconds, which leaves Live(m) behind: null is no block.       *)
IsBlocked(m, k) == \E b \in Live(m)[k] : b.blocked > 0

(* makeRoomForBucket drops the keys that were entered first.               *)
Earlier(m, k) == {o \in Entered(m) : \E b \in m[k] : o \in b.before}
(* Mutant: room for none.                                                  *)
StaysInFull(m, k) == Cardinality(Entered(m)) <= MaxBuckets + Cardinality(Earlier(m, k))
StaysIn(m, k) == Cardinality(Entered(m)) < MaxBuckets + Cardinality(Earlier(m, k))
WithRoom(m) ==
  IF Cardinality(Entered(m)) < MaxBuckets THEN m
  ELSE [k \in Key |-> IF StaysIn(m, k) THEN m[k] ELSE {}]

Counted(n, keys) ==
  [failures |-> n, expires |-> Cooldown, blocked |-> IF n >= MaxFailures THEN Cooldown ELSE 0,
   before |-> keys]
(* Map.set: a key that is there keeps its place, another becomes the last. *)
PutLast(m, k) ==
  [o \in Key |-> IF o = k THEN {Counted(1, Entered(m))}
                ELSE {[b EXCEPT !.before = @ \ {k}] : b \in m[o]}]
Set(m, k) ==
  IF m[k] = {} THEN PutLast(WithRoom(m), k)
  ELSE [m EXCEPT ![k] = {Counted(b.failures + 1, b.before) : b \in @}]

(* Mutant: a failure that arrives during the block counts as well.         *)
FailedAnyway(m, k) == Set(Live(m), k)

(* recordFailure                                                           *)
Failed(m, k) == IF IsBlocked(m, k) THEN Live(m) ELSE Set(Live(m), k)

(* A second passes.                                                        *)
Less(t) == IF t = 0 THEN 0 ELSE t - 1
Aged(b) ==
  [failures |-> b.failures, before |-> b.before, blocked |-> Less(b.blocked), expires |-> Less(b.expires)]
Ticked(m) == [k \in Key |-> {Aged(b) : b \in m[k]}]

-----------------------------------------------------------------------------

VARIABLES
  account,  \* users: their hashes
  member,   \* staff_members
  selected, \* each device's cashier_selections: the last one
  buckets,  \* the throttle's
  pc, arg,  \* where each request is, and what it asks for
  seen,     \* the account and member rows it read
  answer    \* what each request was answered

vars == <<account, member, selected, buckets, pc, arg, seen, answer>>

Account == [password : Secret, pin : {{}} \cup {{s} : s \in Secret}]
Row == [active : BOOLEAN, user : {{}} \cup {{u} : u \in User}]
Selection == [member : Member \cup {None}, by : User]
Seen == [user : SUBSET User, account : SUBSET Account, member : Member \cup {None}]
Label == {"idle", "find", "key", "verify", "default", "append", "done"}
Answer == {None, "session", "cashier", "cleared", "unauthorized", "throttled", "bad"}
NoArg == [op |-> "clear", who |-> None, secret |-> CHOOSE s \in Secret : TRUE,
          device |-> CHOOSE d \in Device : TRUE, by |-> None]
Nothing == [user |-> {}, account |-> {}, member |-> None]

ActiveOf(S) == {m \in S : member[m].active}
LinkedTo(u) == {m \in Member : u \in member[m].user}
(* keyForUser, keyForUnknown: attempts by password and by PIN share the    *)
(* account's bucket.                                                       *)
KeyOf(q) ==
  <<arg[q].device, IF seen[q].user = {} THEN arg[q].who ELSE CHOOSE u \in seen[q].user : TRUE>>

-----------------------------------------------------------------------------

(* The initial accounts and links are given by the instance.               *)
InitWith(accounts, members) ==
  /\ account = accounts /\ member = members
  /\ selected = [d \in Device |-> {}] /\ buckets = [k \in Key |-> {}]
  /\ pc = [q \in Request |-> "idle"] /\ arg = [q \in Request |-> NoArg]
  /\ seen = [q \in Request |-> Nothing] /\ answer = [q \in Request |-> None]

Finish(q, a) ==
  /\ pc' = [pc EXCEPT ![q] = "done"] /\ answer' = [answer EXCEPT ![q] = a]
  /\ arg' = [arg EXCEPT ![q] = NoArg] /\ seen' = [seen EXCEPT ![q] = Nothing]
Go(q, label) == pc' = [pc EXCEPT ![q] = label] /\ UNCHANGED <<arg, answer>>

(* The controllers take a call; "find" reads the account of a sign-in,     *)
(* selectCashier reads the member first, clearCashier reads nothing.       *)
Begin(q, c) ==
  /\ pc[q] = "idle"
  /\ arg' = [arg EXCEPT ![q] = c]
  /\ pc' = [pc EXCEPT ![q] = IF c.op = "clear" THEN "append" ELSE "find"]
  /\ UNCHANGED <<account, member, selected, buckets, seen, answer>>

(* throwIfThrottled and the rows the attempt is judged by, of one account. *)
Admit(q, users) ==
  LET k == <<arg[q].device, IF users = {} THEN arg[q].who ELSE CHOOSE u \in users : TRUE>> IN
  /\ buckets' = Live(buckets)
  /\ \/ /\ IsBlocked(buckets, k)
        /\ Finish(q, "throttled")
     \/ /\ ~IsBlocked(buckets, k)
        /\ seen' = [seen EXCEPT ![q] = [user |-> users, account |-> {account[u] : u \in users}, member |-> @.member]]
        /\ Go(q, "verify")

(* findByUsername, findById                                                *)
SignInFind(q) ==
  /\ pc[q] = "find" /\ arg[q].op \in {"password", "pin"}
  /\ Admit(q, {arg[q].who} \cap User)
  /\ UNCHANGED <<account, member, selected>>

(* requiresPin                                                             *)
RequiresPin(q, m) == \E u \in member[m].user : account[u].pin # {}

(* selectCashier reads the member; who has a PIN is authorized by it.      *)
SelectFind(q) ==
  /\ pc[q] = "find" /\ arg[q].op = "select"
  /\ LET m == arg[q].who IN
     \/ /\ m \notin ActiveOf(Member)
        /\ Finish(q, "bad")
     \/ /\ m \in ActiveOf(Member)
        /\ seen' = [seen EXCEPT ![q].member = m]
        /\ Go(q, IF RequiresPin(q, m) THEN "key" ELSE "append")
  /\ UNCHANGED <<account, member, selected, buckets>>

(* authorizeCashierPin: findByStaffMemberId                                *)
AuthorizeFind(q) ==
  /\ pc[q] = "key"
  /\ Admit(q, member[arg[q].who].user)
  /\ UNCHANGED <<account, member, selected>>

Matches(q) ==
  \E a \in seen[q].account :
    IF arg[q].op = "password" THEN arg[q].secret = a.password ELSE arg[q].secret \in a.pin

ResetBucket(q) == Delete(buckets, KeyOf(q))

(* argon2.verify has answered.                                             *)
Verified(q) ==
  /\ pc[q] = "verify"
  /\ \/ /\ ~Matches(q)
        /\ buckets' = Failed(buckets, KeyOf(q))
        /\ Finish(q, "unauthorized")
     \/ /\ Matches(q)
        /\ buckets' = ResetBucket(q)
        /\ Go(q, IF arg[q].op = "select" THEN "append" ELSE "default")
        /\ UNCHANGED seen
  /\ UNCHANGED <<account, member, selected>>

Linked(q) == ActiveOf(UNION {LinkedTo(u) : u \in seen[q].user})

(* appendDefaultCashier, after the token is signed; a failure in it is      *)
(* logged, and the session is answered.                                    *)
SignInDefault(q) ==
  /\ pc[q] = "default"
  /\ seen' = [seen EXCEPT ![q].member =
                IF Linked(q) = {} THEN None ELSE CHOOSE m \in Linked(q) : TRUE]
  /\ Go(q, "append")
  /\ UNCHANGED <<account, member, selected, buckets>>
SignInUndefaulted(q) ==
  /\ pc[q] \in {"default", "append"} /\ arg[q].op \in {"password", "pin"}
  /\ Finish(q, "session")
  /\ UNCHANGED <<account, member, selected, buckets>>

SelectedBy(q) == IF arg[q].op \in {"password", "pin"} THEN CHOOSE u \in seen[q].user : TRUE ELSE arg[q].by
AnswerOf(q) == CASE arg[q].op = "select" -> "cashier" [] arg[q].op = "clear" -> "cleared"
                 [] OTHER -> "session"

SelectionOf(q) == {[member |-> seen[q].member, by |-> SelectedBy(q)]}
(* Mutant: a sign-in without a linked member leaves the selection alone.   *)
AppendLinked(q) ==
  IF arg[q].op # "clear" /\ seen[q].member = None THEN selected
  ELSE [selected EXCEPT ![arg[q].device] = SelectionOf(q)]

(* appendSelection                                                         *)
Appended(q) == [selected EXCEPT ![arg[q].device] = SelectionOf(q)]

AppendSelection(q) ==
  /\ pc[q] = "append"
  /\ selected' = Appended(q)
  /\ Finish(q, AnswerOf(q))
  /\ UNCHANGED <<account, member, buckets>>

-----------------------------------------------------------------------------
(* What administrators do meanwhile, and time.                             *)

(* updateStaffCredentials                                                  *)
Rotate(u, s) ==
  /\ \/ account' = [account EXCEPT ![u].password = s]
     \/ account' = [account EXCEPT ![u].pin = {s}]
  /\ UNCHANGED <<member, selected, buckets, pc, arg, seen, answer>>

(* StaffService.update                                                     *)
SetActive(m) ==
  /\ member' = [member EXCEPT ![m].active = ~@]
  /\ UNCHANGED <<account, selected, buckets, pc, arg, seen, answer>>

(* createStaffAccount: of what it does, the link.                          *)
Link(m, u) ==
  /\ LinkedTo(u) = {} /\ member[m].user = {} /\ member[m].active
  /\ member' = [member EXCEPT ![m].user = {u}]
  /\ UNCHANGED <<account, selected, buckets, pc, arg, seen, answer>>

Tick ==
  /\ buckets' = Ticked(buckets) /\ buckets' # buckets
  /\ UNCHANGED <<account, member, selected, pc, arg, seen, answer>>

(* The next call of a client.                                              *)
Again(q) ==
  /\ pc[q] = "done"
  /\ pc' = [pc EXCEPT ![q] = "idle"] /\ answer' = [answer EXCEPT ![q] = None]
  /\ UNCHANGED <<account, member, selected, buckets, arg, seen>>

Step(q) ==
  \/ SignInFind(q) \/ SelectFind(q) \/ AuthorizeFind(q) \/ Verified(q)
  \/ SignInDefault(q) \/ SignInUndefaulted(q) \/ AppendSelection(q)

Next ==
  \/ \E q \in Request : (\E c \in Calls[q] : Begin(q, c)) \/ Step(q) \/ Again(q)
  \/ \E r \in Rotation : Rotate(r[1], r[2])
  \/ (\E m \in Toggled : SetActive(m)) \/ \E m \in Member, u \in User : Link(m, u)
  \/ Tick

(* activeCashier: the last selection's member, if active.                  *)
ActiveCashier(d) == ActiveOf({x.member : x \in selected[d]} \cap Member)

-----------------------------------------------------------------------------

(* Types.                                                                  *)
TypeOK ==
  /\ account \in [User -> Account] /\ member \in [Member -> Row]
  /\ selected \in [Device -> SUBSET Selection] /\ buckets \in [Key -> SUBSET Bucket]
  /\ pc \in [Request -> Label] /\ arg \in [Request -> Call] /\ answer \in [Request -> Answer]
  /\ seen \in [Request -> Seen]

(* The throttle's count never passes its limit: attempts that were         *)
(* admitted before the block, and fail during it, are not counted, and a   *)
(* bucket is blocked exactly when it is full.                              *)
CountsStopAtTheLimit ==
  \A k \in Key : \A b \in buckets[k] :
    /\ b.failures <= MaxFailures
    /\ b.expires > 0 => (b.blocked > 0 <=> b.failures = MaxFailures)

(* The throttle never remembers more keys than it has room for, however    *)
(* many devices and identifiers are tried, and makes room by forgetting    *)
(* those it learned first.                                                 *)
RoomIsKept == Cardinality(Entered(buckets)) <= MaxBuckets

AccessInv == TypeOK /\ CountsStopAtTheLimit /\ RoomIsKept

(* Who signs in never works under another's name: when the session is      *)
(* answered and its default was appended, the device's active cashier is   *)
(* the member of its account or no one.                                    *)
SignInNamesItsMember ==
  [][\A q \in Request, d \in Device :
       /\ pc[q] = "append" /\ AppendSelection(q) /\ arg[q].op \in {"password", "pin"}
       /\ d = arg[q].device
       => ActiveCashier(d)' \subseteq UNION {LinkedTo(u) : u \in seen[q].user}]_vars

-----------------------------------------------------------------------------
(* What the code gives the constants: positiveInteger refuses any other    *)
(* configuration, no member is called none, a sign-in has an identifier,   *)
(* a selection a member and, by the controllers' guard, a session.         *)
CallsAreTyped ==
  /\ MaxFailures \in Nat \ {0} /\ Cooldown \in Nat \ {0} /\ MaxBuckets \in Nat \ {0}
  /\ Secret # {} /\ Device # {} /\ None \notin Member
  /\ Rotation \subseteq User \X Secret /\ \A q \in Request : Calls[q] \subseteq Call
  /\ \A q \in Request : \A c \in Calls[q] :
       /\ c.op \in {"password", "pin"} => c.who \in User \cup Unknown
       /\ c.op = "select" => c.who \in Member
       /\ c.op \in {"select", "clear"} => c.by \in User
StartsTyped(accounts, members) == accounts \in [User -> Account] /\ members \in [Member -> Row]
SpecWith(accounts, members) == InitWith(accounts, members) /\ [][Next]_vars
==============================================================================
