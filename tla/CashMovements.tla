--------------------------- MODULE CashMovements ----------------------------
(***************************************************************************)
(* The requests that record and amend the cash movements of a business day *)
(* race each other and the close that counts them, at READ COMMITTED, one  *)
(* database statement (or one run of statements that nobody else can tell  *)
(* apart) per step (apps/api/src/trading-day/trading-day.service.ts).      *)
(*                                                                         *)
(* A movement bears the id its client generated, which is its primary key; *)
(* a retry is another request with the same id.  A row never changes, so   *)
(* its kind, amount and text are left out: a sum over rows is known by the *)
(* set of its rows.  Orders, which a close also counts, are the subject of *)
(* OrderCapture.                                                           *)
(***************************************************************************)
CONSTANTS
  Request,  \* HTTP requests
  Id,       \* client-generated ids of movements
  Day,      \* rows of trading_days
  FirstDay, \* the day that is open initially
  Calls,    \* the calls each request may be
  Free      \* owner of an unlocked row

(* What a client asks for: an operation, the id of the movement it         *)
(* creates, and the movement an amendment replaces.                        *)
Op == {"record", "amend", "close", "open"}
Call == [op : Op, id : Id, target : Id]

(* The ids are sets the model knows nothing about; Free is not a request.  *)
ASSUME RequestAssumption == Free \notin Request
ASSUME DayAssumption == FirstDay \in Day
ASSUME IdAssumption == Id # {}
ASSUME CallsAssumption == Calls \in [Request -> SUBSET Call]

VARIABLES
  day,      \* the status of each row of trading_days
  movement, \* cash_movements, by id
  counted,  \* the movements each day's closing has summed
  dayLock,  \* who holds SELECT ... FOR UPDATE on a trading_days row
  pc,       \* where each request is
  arg,      \* what each request asks for
  seen      \* what each request has read and still uses

db == <<day, movement, counted>>
vars == <<day, movement, counted, dayLock, pc, arg, seen>>

(* An entry that amends nothing names itself.                              *)
Row == [stored : {TRUE}, day : Day, amends : Id]
NoRow == [stored |-> FALSE]

Label == {"idle", "find", "lockDay", "insert", "sum", "commit", "done"}

AnyId == CHOOSE i \in Id : TRUE
NoArg == [op |-> "record", id |-> AnyId, target |-> AnyId]
NothingSeen == [day |-> FirstDay, rows |-> {}]

-----------------------------------------------------------------------------
(* What a statement reads.                                                 *)

IsOpen(d) == day[d] = "OPEN"
Stored(i) == movement[i].stored

(* amendedBy: the unique index makes it at most one.                       *)
Amends(j, i) == j # i /\ Stored(j) /\ movement[j].amends = i
Amended(i) == \E j \in Id : Amends(j, i)

(* The rows calculateCash reads: those of the day that nothing amends.     *)
Effective(d) == {i \in Id : Stored(i) /\ movement[i].day = d /\ ~Amended(i)}

-----------------------------------------------------------------------------
(* The life of a request.                                                  *)

At(r, l, op) == pc[r] = l /\ arg[r].op = op
Goto(r, l) == pc' = [pc EXCEPT ![r] = l]

(* The transaction ends: COMMIT or ROLLBACK releases its row locks.        *)
Finish(r) ==
  /\ Goto(r, "done")
  /\ dayLock' = [d \in Day |-> IF dayLock[d] = r THEN Free ELSE dayLock[d]]
  /\ arg' = [arg EXCEPT ![r] = NoArg]
  /\ seen' = [seen EXCEPT ![r] = NothingSeen]

(* The request ends and leaves the database as it is.                      *)
Answer(r) == Finish(r) /\ UNCHANGED db

(* A call arrives.                                                         *)
Start(r) ==
  /\ pc[r] = "idle"
  /\ \E call \in Calls[r] : arg' = [arg EXCEPT ![r] = call]
  /\ Goto(r, "find")
  /\ UNCHANGED <<db, dayLock, seen>>

(* Transaction timeout, deadlock victim, restart, or a rejection on data   *)
(* outside this module (an inactive recorder or closer).                   *)
Abort(r) ==
  /\ pc[r] \notin {"idle", "done"}
  /\ Answer(r)

(* Mutant: SELECT without FOR UPDATE.                                      *)
TakeNoLock(r, d) == dayLock[d] = Free /\ UNCHANGED dayLock

(* lockTradingDay waits for the row.                                       *)
TakeLock(r, d) == dayLock[d] = Free /\ dayLock' = [dayLock EXCEPT ![d] = r]

(* A request goes on with the day it found, to lock it.                    *)
ProceedTo(r, d) ==
  /\ seen' = [seen EXCEPT ![r].day = d]
  /\ Goto(r, "lockDay")
  /\ UNCHANGED <<db, dayLock, arg>>

-----------------------------------------------------------------------------
(* recordCashMovement                                                      *)

RecordFind(r) ==
  /\ At(r, "find", "record")
  /\ \/ /\ ~Stored(arg[r].id)
        /\ \E d \in Day : IsOpen(d) /\ ProceedTo(r, d)
     \/ /\ Stored(arg[r].id) \/ \A d \in Day : ~IsOpen(d)
        /\ Answer(r)

RecordLock(r) ==
  /\ At(r, "lockDay", "record")
  /\ \/ /\ TakeLock(r, seen[r].day)
        /\ ~Stored(arg[r].id)
        /\ IsOpen(seen[r].day)
        /\ Goto(r, "insert")
        /\ UNCHANGED <<db, arg, seen>>
     \/ /\ dayLock[seen[r].day] = Free
        /\ Stored(arg[r].id) \/ ~IsOpen(seen[r].day)
        /\ Answer(r)

(* The INSERT; a primary key in use answers with the row that has it.      *)
RecordInsert(r) ==
  LET i == arg[r].id IN
  /\ At(r, "insert", "record")
  /\ movement' = IF Stored(i) THEN movement
       ELSE [movement EXCEPT ![i] = [stored |-> TRUE, day |-> seen[r].day, amends |-> i]]
  /\ Finish(r)
  /\ UNCHANGED <<day, counted>>

-----------------------------------------------------------------------------
(* amendCashMovement: the day to lock is the day of the amended row.       *)

AmendFind(r) ==
  LET t == arg[r].target IN
  /\ At(r, "find", "amend")
  /\ \/ /\ ~Stored(arg[r].id) /\ Stored(t)
        /\ ProceedTo(r, movement[t].day)
     \/ /\ Stored(arg[r].id) \/ ~Stored(t)
        /\ Answer(r)

(* Mutants: a closed day may be amended; a row may be amended again.       *)
MayAmendClosed(r) ==
  /\ ~Stored(arg[r].id)
  /\ Stored(arg[r].target) /\ movement[arg[r].target].day = seen[r].day
  /\ ~Amended(arg[r].target)
MayAmendAgain(r) ==
  /\ ~Stored(arg[r].id)
  /\ Stored(arg[r].target) /\ movement[arg[r].target].day = seen[r].day
  /\ IsOpen(seen[r].day)

(* What is checked under the lock.                                         *)
MayAmend(r) ==
  /\ ~Stored(arg[r].id)
  /\ Stored(arg[r].target) /\ movement[arg[r].target].day = seen[r].day
  /\ IsOpen(seen[r].day)
  /\ ~Amended(arg[r].target)

AmendLock(r) ==
  /\ At(r, "lockDay", "amend")
  /\ \/ /\ TakeLock(r, seen[r].day)
        /\ MayAmend(r)
        /\ Goto(r, "insert")
        /\ UNCHANGED <<db, arg, seen>>
     \/ /\ dayLock[seen[r].day] = Free
        /\ ~MayAmend(r)
        /\ Answer(r)

(* The INSERT; the primary key or the unique index on the amended row      *)
(* answers with the row in the way.                                        *)
AmendInsert(r) ==
  LET i == arg[r].id IN
  /\ At(r, "insert", "amend")
  /\ movement' = IF Stored(i) \/ Amended(arg[r].target) THEN movement
       ELSE [movement EXCEPT ![i] =
              [stored |-> TRUE, day |-> seen[r].day, amends |-> arg[r].target]]
  /\ Finish(r)
  /\ UNCHANGED <<day, counted>>

-----------------------------------------------------------------------------
(* close and open, as far as they concern movements.                       *)

CloseFind(r) ==
  /\ At(r, "find", "close")
  /\ \/ \E d \in Day : IsOpen(d) /\ ProceedTo(r, d)
     \/ /\ \A d \in Day : ~IsOpen(d)
        /\ Answer(r)

CloseLock(r) ==
  /\ At(r, "lockDay", "close")
  /\ \/ /\ TakeLock(r, seen[r].day)
        /\ IsOpen(seen[r].day)
        /\ Goto(r, "sum")
        /\ UNCHANGED <<db, arg, seen>>
     \/ /\ dayLock[seen[r].day] = Free
        /\ ~IsOpen(seen[r].day)
        /\ Answer(r)

(* Mutant: superseded rows are counted again.                              *)
CloseSumAll(r) ==
  /\ At(r, "sum", "close")
  /\ seen' = [seen EXCEPT ![r].rows = {i \in Id : Stored(i) /\ movement[i].day = seen[r].day}]
  /\ Goto(r, "commit")
  /\ UNCHANGED <<db, dayLock, arg>>

(* calculateCash reads the movements.                                      *)
CloseSum(r) ==
  /\ At(r, "sum", "close")
  /\ seen' = [seen EXCEPT ![r].rows = Effective(seen[r].day)]
  /\ Goto(r, "commit")
  /\ UNCHANGED <<db, dayLock, arg>>

(* The guarded UPDATE of the day and the INSERT of its closing.            *)
CloseCommit(r) ==
  LET d == seen[r].day IN
  /\ At(r, "commit", "close")
  /\ IF IsOpen(d)
       THEN /\ day' = [day EXCEPT ![d] = "CLOSED"]
            /\ counted' = [counted EXCEPT ![d] = seen[r].rows]
       ELSE UNCHANGED <<day, counted>>
  /\ Finish(r)
  /\ UNCHANGED movement

(* The INSERT of a day, which the one-open-day index guards; its checks    *)
(* beforehand are in OrderCapture.                                         *)
OpenInsert(r) ==
  /\ At(r, "find", "open")
  /\ \/ /\ \A d \in Day : ~IsOpen(d)
        /\ \E d \in Day : day[d] = "NONE" /\ day' = [day EXCEPT ![d] = "OPEN"]
     \/ /\ \E d \in Day : IsOpen(d)
        /\ UNCHANGED day
  /\ Finish(r)
  /\ UNCHANGED <<movement, counted>>

-----------------------------------------------------------------------------
Init ==
  /\ day = [d \in Day |-> IF d = FirstDay THEN "OPEN" ELSE "NONE"]
  /\ movement = [i \in Id |-> NoRow]
  /\ counted = [d \in Day |-> {}]
  /\ dayLock = [d \in Day |-> Free]
  /\ pc = [r \in Request |-> "idle"]
  /\ arg = [r \in Request |-> NoArg]
  /\ seen = [r \in Request |-> NothingSeen]

(* One statement of the API on behalf of request r.                        *)
Advance(r) ==
  \/ RecordFind(r) \/ RecordLock(r) \/ RecordInsert(r)
  \/ AmendFind(r) \/ AmendLock(r) \/ AmendInsert(r)
  \/ CloseFind(r) \/ CloseLock(r) \/ CloseSum(r) \/ CloseCommit(r)
  \/ OpenInsert(r)

Next == \E r \in Request : Start(r) \/ Advance(r) \/ Abort(r)

Spec == Init /\ [][Next]_vars

-----------------------------------------------------------------------------
(* Properties.                                                             *)

(* Every variable keeps its type.                                          *)
TypeOK ==
  /\ day \in [Day -> {"NONE", "OPEN", "CLOSED"}]
  /\ movement \in [Id -> Row \cup {NoRow}]
  /\ counted \in [Day -> SUBSET Id]
  /\ dayLock \in [Day -> Request \cup {Free}]
  /\ pc \in [Request -> Label]
  /\ arg \in [Request -> Call]
  /\ seen \in [Request -> [day : Day, rows : SUBSET Id]]

OneOpenDay == \A d, e \in Day : IsOpen(d) /\ IsOpen(e) => d = e

(* A request past the lock works on a day that is open and that it holds.  *)
LockHeld ==
  \A r \in Request :
    pc[r] \in {"insert", "sum", "commit"} =>
      IsOpen(seen[r].day) /\ dayLock[seen[r].day] = r

(* Neither the primary key nor the unique index on the amended row ever    *)
(* decides: what a request checked under the day's lock still holds when   *)
(* it inserts, so of two amendments of one entry the second is told so     *)
(* before it writes (ADR 0015 section 5).                                  *)
IndexNeverDecides ==
  \A r \in Request : pc[r] = "insert" =>
    /\ ~Stored(arg[r].id)
    /\ arg[r].op = "amend" => arg[r].target \in Effective(seen[r].day)

(* The sum of a close is never stale.                                      *)
SumIsCurrent ==
  \A r \in Request : pc[r] = "commit" => seen[r].rows = Effective(seen[r].day)

(* A movement lies on a day that has been opened, and a correction on the  *)
(* day of the row it corrects (ADR 0015 section 1).                        *)
OnItsDay ==
  \A i \in Id : Stored(i) =>
    /\ day[movement[i].day] # "NONE"
    /\ Stored(movement[i].amends)
    /\ movement[movement[i].amends].day = movement[i].day

(* What a closing has counted are the movements in force on its day, then  *)
(* and ever after: no entry or correction reaches a closed day, whatever   *)
(* was in flight when it closed (ADR 0015 section 4).                      *)
ClosingStaysTrue ==
  \A d \in Day : day[d] = "CLOSED" => counted[d] = Effective(d)

(* The requests keep the promise of MovementLedger: each entry is in force *)
(* once, as it was last corrected, and is counted once.                    *)
Ledger ==
  INSTANCE MovementLedger WITH
    phase <- day,
    inForce <- [d \in Day |-> Effective(d)],
    used <- {i \in Id : Stored(i)},
    counted <- counted
ImplementsLedger == Ledger!Spec

(* The inductive invariant of CashMovements_proof.                         *)
MovementInv ==
  /\ TypeOK
  /\ OneOpenDay
  /\ LockHeld
  /\ IndexNeverDecides
  /\ SumIsCurrent
  /\ OnItsDay
  /\ ClosingStaysTrue
=============================================================================
