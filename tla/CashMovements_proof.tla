------------------------ MODULE CashMovements_proof -------------------------
(***************************************************************************)
(* Proofs about CashMovements for every set of requests, ids and days.     *)
(***************************************************************************)
EXTENDS CashMovements, TLAPS

-----------------------------------------------------------------------------
(* The parts of a request.                                                 *)

(* The id of an idle request is an id.                                     *)
LEMMA AnyIdType == AnyId \in Id
  BY IdAssumption DEF AnyId

(* A request that does not run asks for a call and has read a day.         *)
LEMMA IdleType == NoArg \in Call /\ NothingSeen \in [day : Day, rows : SUBSET Id]
  BY AnyIdType, DayAssumption DEF NoArg, Call, Op, NothingSeen

(* What a request asks for and has read, part by part.                     *)
LEMMA RequestType ==
  ASSUME TypeOK, NEW r \in Request
  PROVE  /\ pc[r] \in Label
         /\ arg[r] \in Call /\ arg[r].op \in Op /\ arg[r].id \in Id /\ arg[r].target \in Id
         /\ seen[r].day \in Day /\ seen[r].rows \in SUBSET Id
BY DEF TypeOK, Call

(* A stored row lies on a day and names an id.                             *)
LEMMA RowType ==
  ASSUME TypeOK, NEW i \in Id, Stored(i)
  PROVE  /\ movement[i] \in Row
         /\ movement[i].day \in Day /\ movement[i].amends \in Id
<1>1. movement[i] \in Row \/ movement[i] = NoRow
  BY DEF TypeOK
<1>2. NoRow.stored = FALSE
  BY DEF NoRow
<1>3. movement[i] \in Row
  BY <1>1, <1>2 DEF Stored
<1> QED BY <1>3 DEF Row

(* The rows in force are rows.                                             *)
LEMMA EffectiveType == \A d \in Day : Effective(d) \in SUBSET Id
  BY DEF Effective

(* The end of a request leaves well-typed control, releases its lock and   *)
(* no other, and disturbs no other request.                                *)
LEMMA FinishStep ==
  ASSUME TypeOK, NEW r \in Request, Finish(r)
  PROVE  /\ pc' \in [Request -> Label] /\ arg' \in [Request -> Call]
         /\ dayLock' \in [Day -> Request \cup {Free}]
         /\ seen' \in [Request -> [day : Day, rows : SUBSET Id]]
         /\ pc'[r] = "done"
         /\ \A q \in Request \ {r} : pc'[q] = pc[q] /\ arg'[q] = arg[q] /\ seen'[q] = seen[q]
         /\ \A d \in Day : dayLock[d] # r => dayLock'[d] = dayLock[d]
<1>1. pc' \in [Request -> Label] /\ pc'[r] = "done"
  BY DEF Finish, Goto, TypeOK, Label
<1>2. arg' \in [Request -> Call] /\ seen' \in [Request -> [day : Day, rows : SUBSET Id]]
  BY IdleType DEF Finish, TypeOK
<1>3. dayLock' \in [Day -> Request \cup {Free}]
  BY DEF Finish, TypeOK
<1>4. \A q \in Request \ {r} : pc'[q] = pc[q] /\ arg'[q] = arg[q] /\ seen'[q] = seen[q]
  BY DEF Finish, Goto, TypeOK
<1>5. \A d \in Day : dayLock[d] # r => dayLock'[d] = dayLock[d]
  BY DEF Finish
<1> QED BY <1>1, <1>2, <1>3, <1>4, <1>5

-----------------------------------------------------------------------------
(* The two ways a step can preserve the invariant.                         *)

(* A step of r that leaves the database alone and takes r to a label       *)
(* outside the critical section, with all else left to the others.         *)
LEMMA QuietStep ==
  ASSUME MovementInv, NEW r \in Request, UNCHANGED db,
         pc' \in [Request -> Label], arg' \in [Request -> Call],
         dayLock' \in [Day -> Request \cup {Free}],
         seen' \in [Request -> [day : Day, rows : SUBSET Id]],
         pc'[r] \notin {"insert", "sum", "commit"},
         \A q \in Request \ {r} : pc'[q] = pc[q] /\ arg'[q] = arg[q] /\ seen'[q] = seen[q],
         \A d \in Day : dayLock[d] # r => dayLock'[d] = dayLock[d]
  PROVE  MovementInv'
<1> USE DEF MovementInv
<1>1. TypeOK'
  BY DEF TypeOK, db
<1>2. OneOpenDay' /\ OnItsDay' /\ ClosingStaysTrue'
  BY DEF db, OneOpenDay, IsOpen, OnItsDay, Stored, ClosingStaysTrue, Effective, Amended, Amends
<1>3. \A d \in Day : Effective(d)' = Effective(d) /\ IsOpen(d)' = IsOpen(d)
  BY DEF db, Effective, Stored, Amended, Amends, IsOpen
<1>4. LockHeld'
  <2> SUFFICES ASSUME NEW q \in Request, pc'[q] \in {"insert", "sum", "commit"}
               PROVE  (IsOpen(seen[q].day) /\ dayLock[seen[q].day] = q)'
    BY DEF LockHeld
  <2>1. q # r /\ pc'[q] = pc[q] /\ seen'[q] = seen[q]
    OBVIOUS
  <2>2. IsOpen(seen[q].day) /\ dayLock[seen[q].day] = q /\ seen[q].day \in Day
    BY <2>1, RequestType DEF LockHeld
  <2> QED BY <2>1, <2>2, <1>3
<1>5. IndexNeverDecides'
  <2> SUFFICES ASSUME NEW q \in Request, pc'[q] = "insert"
               PROVE  (/\ ~Stored(arg[q].id)
                       /\ arg[q].op = "amend" => arg[q].target \in Effective(seen[q].day))'
    BY DEF IndexNeverDecides
  <2>1. q # r /\ pc'[q] = pc[q] /\ seen'[q] = seen[q] /\ arg'[q] = arg[q]
    OBVIOUS
  <2>2. /\ ~Stored(arg[q].id) /\ seen[q].day \in Day
        /\ arg[q].op = "amend" => arg[q].target \in Effective(seen[q].day)
    BY <2>1, RequestType DEF IndexNeverDecides
  <2> QED BY <2>1, <2>2, <1>3 DEF Stored, db
<1>6. SumIsCurrent'
  <2> SUFFICES ASSUME NEW q \in Request, pc'[q] = "commit"
               PROVE  (seen[q].rows = Effective(seen[q].day))'
    BY DEF SumIsCurrent
  <2>1. q # r /\ pc'[q] = pc[q] /\ seen'[q] = seen[q]
    OBVIOUS
  <2>2. seen[q].rows = Effective(seen[q].day) /\ seen[q].day \in Day
    BY <2>1, RequestType DEF SumIsCurrent
  <2> QED BY <2>1, <2>2, <1>3
<1> QED BY <1>1, <1>2, <1>4, <1>5, <1>6

(* A request that ends without a write disturbs nothing.                   *)
LEMMA AnswerStep ==
  ASSUME MovementInv, NEW r \in Request, Answer(r)
  PROVE  MovementInv'
<1>1. TypeOK /\ Finish(r) /\ UNCHANGED db
  BY DEF MovementInv, Answer
<1> QED BY <1>1, FinishStep, QuietStep

(* A call that arrives disturbs nothing.                                   *)
LEMMA StartStep ==
  ASSUME MovementInv, NEW r \in Request, Start(r)
  PROVE  MovementInv'
<1>1. TypeOK
  BY DEF MovementInv
<1>2. PICK call \in Calls[r] : arg' = [arg EXCEPT ![r] = call]
  BY DEF Start
<1>3. call \in Call
  BY CallsAssumption
<1>4. arg' \in [Request -> Call] /\ \A q \in Request \ {r} : arg'[q] = arg[q]
  BY <1>1, <1>2, <1>3 DEF TypeOK
<1>5. /\ pc' \in [Request -> Label] /\ pc'[r] = "find"
      /\ \A q \in Request \ {r} : pc'[q] = pc[q]
  BY <1>1 DEF Start, Goto, TypeOK, Label
<1>6. UNCHANGED <<db, dayLock, seen>>
  BY DEF Start
<1>7. /\ dayLock' \in [Day -> Request \cup {Free}]
      /\ seen' \in [Request -> [day : Day, rows : SUBSET Id]]
  BY <1>1, <1>6 DEF TypeOK
<1> QED BY <1>4, <1>5, <1>6, <1>7, QuietStep

(* A request that has found a day to lock disturbs nothing.                *)
LEMMA ProceedStep ==
  ASSUME MovementInv, NEW r \in Request, NEW d \in Day, ProceedTo(r, d)
  PROVE  MovementInv'
<1>1. TypeOK
  BY DEF MovementInv
<1>2. /\ pc' \in [Request -> Label] /\ pc'[r] = "lockDay"
      /\ \A q \in Request \ {r} : pc'[q] = pc[q]
  BY <1>1 DEF ProceedTo, Goto, TypeOK, Label
<1>3. /\ seen' \in [Request -> [day : Day, rows : SUBSET Id]]
      /\ \A q \in Request \ {r} : seen'[q] = seen[q]
  BY <1>1 DEF ProceedTo, TypeOK
<1>4. UNCHANGED <<db, dayLock, arg>>
  BY DEF ProceedTo
<1>5. dayLock' \in [Day -> Request \cup {Free}] /\ arg' \in [Request -> Call]
  BY <1>1, <1>4 DEF TypeOK
<1> QED BY <1>2, <1>3, <1>4, <1>5, QuietStep

(* At most one request is past the lock of a day, since one day is open.   *)
LEMMA OnlyOnePastLock ==
  ASSUME MovementInv, NEW r \in Request, NEW q \in Request,
         pc[r] \in {"insert", "sum", "commit"}, pc[q] \in {"insert", "sum", "commit"}
  PROVE  q = r
<1>1. /\ seen[r].day \in Day /\ IsOpen(seen[r].day) /\ dayLock[seen[r].day] = r
      /\ seen[q].day \in Day /\ IsOpen(seen[q].day) /\ dayLock[seen[q].day] = q
  BY RequestType DEF MovementInv, LockHeld
<1> QED BY <1>1 DEF MovementInv, OneOpenDay

(* The lock of the open day is granted to a request that has seen the day  *)
(* open under it: nobody else is past a lock.                              *)
LEMMA LockStep ==
  ASSUME MovementInv, NEW r \in Request, TakeLock(r, seen[r].day), IsOpen(seen[r].day),
         UNCHANGED <<db, arg, seen>>,
         NEW l \in {"insert", "sum"}, Goto(r, l),
         l = "insert" =>
           /\ ~Stored(arg[r].id)
           /\ arg[r].op = "amend" => arg[r].target \in Effective(seen[r].day)
  PROVE  MovementInv'
<1> DEFINE d == seen[r].day
<1>1. TypeOK /\ d \in Day
  BY RequestType DEF MovementInv
<1>2. pc' \in [Request -> Label] /\ pc'[r] = l /\ \A q \in Request \ {r} : pc'[q] = pc[q]
  BY <1>1 DEF Goto, TypeOK, Label
<1>3. /\ dayLock' \in [Day -> Request \cup {Free}] /\ dayLock'[d] = r
      /\ \A e \in Day \ {d} : dayLock'[e] = dayLock[e]
  BY <1>1 DEF TakeLock, TypeOK
<1>4. TypeOK'
  BY <1>1, <1>2, <1>3 DEF TypeOK, db
<1>5. \A q \in Request \ {r} : pc[q] \notin {"insert", "sum", "commit"}
  <2> SUFFICES ASSUME NEW q \in Request \ {r}, pc[q] \in {"insert", "sum", "commit"}
               PROVE  FALSE
    OBVIOUS
  <2>1. seen[q].day \in Day /\ IsOpen(seen[q].day) /\ dayLock[seen[q].day] = q
    BY <1>1, RequestType DEF MovementInv, LockHeld
  <2>2. seen[q].day = d
    BY <2>1, <1>1 DEF MovementInv, OneOpenDay
  <2> QED BY <2>1, <2>2, RequestAssumption DEF TakeLock
<1>6. OneOpenDay' /\ OnItsDay' /\ ClosingStaysTrue'
  BY DEF MovementInv, db, OneOpenDay, IsOpen, OnItsDay, Stored, ClosingStaysTrue,
         Effective, Amended, Amends
<1>7. LockHeld'
  BY <1>2, <1>3, <1>5 DEF LockHeld, IsOpen, db
<1>8. IndexNeverDecides'
  BY <1>2, <1>5 DEF IndexNeverDecides, Stored, Effective, Amended, Amends, db
<1>9. SumIsCurrent'
  BY <1>2, <1>5 DEF SumIsCurrent
<1> QED BY <1>4, <1>6, <1>7, <1>8, <1>9 DEF MovementInv

(* The end of a request that was past the lock: nobody else is, so what    *)
(* remains to be seen of its write is its effect on the rows.              *)
LEMMA LeaveStep ==
  ASSUME MovementInv, NEW r \in Request, pc[r] \in {"insert", "sum", "commit"}, Finish(r),
         day' \in [Day -> {"NONE", "OPEN", "CLOSED"}],
         movement' \in [Id -> Row \cup {NoRow}],
         counted' \in [Day -> SUBSET Id],
         OneOpenDay', OnItsDay', ClosingStaysTrue'
  PROVE  MovementInv'
<1>1. TypeOK
  BY DEF MovementInv
<1>2. TypeOK'
  BY <1>1, FinishStep DEF TypeOK
<1>3. \A q \in Request : pc'[q] \notin {"insert", "sum", "commit"}
  BY <1>1, FinishStep, OnlyOnePastLock
<1>4. LockHeld' /\ IndexNeverDecides' /\ SumIsCurrent'
  BY <1>3 DEF LockHeld, IndexNeverDecides, SumIsCurrent
<1> QED BY <1>2, <1>4 DEF MovementInv

-----------------------------------------------------------------------------
(* The writes.                                                             *)

(* A new row i on an open day d, which amends nothing (t = i) or an        *)
(* effective row t of that day, changes the rows in force of d only: it    *)
(* joins them and t leaves.                                                *)
LEMMA InsertEffect ==
  ASSUME MovementInv, NEW i \in Id, NEW t \in Id, NEW d \in Day, ~Stored(i), IsOpen(d),
         t = i \/ t \in Effective(d),
         movement' = [movement EXCEPT ![i] = [stored |-> TRUE, day |-> d, amends |-> t]],
         UNCHANGED <<day, counted>>
  PROVE  /\ movement' \in [Id -> Row \cup {NoRow}]
         /\ Effective(d)' = (Effective(d) \ {t}) \cup {i}
         /\ \A e \in Day \ {d} : Effective(e)' = Effective(e)
         /\ \A j \in Id : Stored(j)' <=> Stored(j) \/ j = i
         /\ OneOpenDay' /\ OnItsDay' /\ ClosingStaysTrue'
<1>1. TypeOK /\ OnItsDay
  BY DEF MovementInv
<1>2. [stored |-> TRUE, day |-> d, amends |-> t] \in Row
  BY DEF Row
<1>3. movement' \in [Id -> Row \cup {NoRow}]
  BY <1>1, <1>2 DEF TypeOK
<1>4. /\ movement'[i] = [stored |-> TRUE, day |-> d, amends |-> t]
      /\ \A j \in Id \ {i} : movement'[j] = movement[j]
  BY <1>1 DEF TypeOK
<1>5. \A j \in Id : Stored(j)' <=> Stored(j) \/ j = i
  BY <1>4 DEF Stored
<1>6. \A j \in Id : ~Amends(j, i)
  BY <1>1 DEF Amends, OnItsDay
<1>7. ~Amended(i)'
  BY <1>4, <1>6 DEF Amended, Amends, Stored
<1>8. \A k \in Id \ {i} : Amended(k)' <=> Amended(k) \/ k = t
  <2> TAKE k \in Id \ {i}
  <2>1. ~Amends(i, k)
    BY DEF Amends
  <2>2. \A j \in Id \ {i} : Amends(j, k)' <=> Amends(j, k)
    BY <1>4 DEF Amends, Stored
  <2>3. Amends(i, k)' <=> k = t
    BY <1>4 DEF Amends, Stored
  <2> QED BY <2>1, <2>2, <2>3 DEF Amended
<1>9. i \notin Effective(d) /\ \A e \in Day : i \notin Effective(e)
  BY DEF Effective
<1>10. Effective(d)' = (Effective(d) \ {t}) \cup {i}
  <2>1. i \in Effective(d)'
    BY <1>4, <1>5, <1>7 DEF Effective
  <2>2. \A k \in Id \ {i} : k \in Effective(d)' <=> k \in Effective(d) /\ k # t
    BY <1>4, <1>5, <1>8 DEF Effective
  <2>3. Effective(d) \subseteq Id /\ Effective(d)' \subseteq Id
    BY DEF Effective
  <2> QED BY <2>1, <2>2, <2>3
<1>11. \A e \in Day \ {d} : Effective(e)' = Effective(e)
  <2> TAKE e \in Day \ {d}
  <2>1. i \notin Effective(e)' /\ i \notin Effective(e)
    BY <1>4, <1>9 DEF Effective
  <2>2. t \notin Effective(e)
    BY <1>9 DEF Effective
  <2>3. \A k \in Id \ {i} : k \in Effective(e)' <=> k \in Effective(e)
    BY <1>4, <1>5, <1>8, <2>2 DEF Effective
  <2>4. Effective(e) \subseteq Id /\ Effective(e)' \subseteq Id
    BY DEF Effective
  <2> QED BY <2>1, <2>3, <2>4
<1>12. OneOpenDay'
  BY DEF MovementInv, OneOpenDay, IsOpen
<1>13. OnItsDay'
  <2> SUFFICES ASSUME NEW j \in Id, Stored(j)'
               PROVE  (/\ day[movement[j].day] # "NONE"
                       /\ Stored(movement[j].amends)
                       /\ movement[movement[j].amends].day = movement[j].day)'
    BY DEF OnItsDay
  <2>1. CASE j = i
    <3>1. t = i \/ (t # i /\ Stored(t) /\ movement[t].day = d)
      BY <1>9 DEF Effective
    <3> QED BY <2>1, <3>1, <1>4, <1>5 DEF IsOpen
  <2>2. CASE j # i
    <3>1. Stored(j) /\ movement'[j] = movement[j]
      BY <2>2, <1>4, <1>5
    <3>2. /\ movement[j].amends \in Id /\ day[movement[j].day] # "NONE"
          /\ Stored(movement[j].amends)
          /\ movement[movement[j].amends].day = movement[j].day
      BY <1>1, <3>1, RowType DEF OnItsDay
    <3>3. movement[j].amends # i
      BY <3>2
    <3> QED BY <3>1, <3>2, <3>3, <1>4, <1>5
  <2> QED BY <2>1, <2>2
<1>14. ClosingStaysTrue'
  <2> SUFFICES ASSUME NEW e \in Day, day[e] = "CLOSED" PROVE counted[e] = Effective(e)'
    BY DEF ClosingStaysTrue
  <2>1. e # d
    BY DEF IsOpen
  <2> QED BY <2>1, <1>11 DEF MovementInv, ClosingStaysTrue
<1> QED BY <1>3, <1>5, <1>10, <1>11, <1>12, <1>13, <1>14

(* recordCashMovement keeps the invariant.                                 *)
LEMMA RecordStep ==
  ASSUME MovementInv, NEW r \in Request,
         RecordFind(r) \/ RecordLock(r) \/ RecordInsert(r)
  PROVE  MovementInv'
<1>1. CASE RecordFind(r)
  BY <1>1, AnswerStep, ProceedStep DEF RecordFind
<1>2. CASE RecordLock(r)
  <2>1. CASE Answer(r)
    BY <2>1, AnswerStep
  <2>2. CASE ~Answer(r)
    <3>1. /\ TakeLock(r, seen[r].day) /\ ~Stored(arg[r].id) /\ IsOpen(seen[r].day)
          /\ Goto(r, "insert") /\ UNCHANGED <<db, arg, seen>> /\ arg[r].op = "record"
      BY <1>2, <2>2 DEF RecordLock, At
    <3> QED BY <3>1, LockStep
  <2> QED BY <2>1, <2>2
<1>3. CASE RecordInsert(r)
  <2> DEFINE i == arg[r].id
             d == seen[r].day
  <2>1. /\ pc[r] = "insert" /\ Finish(r) /\ UNCHANGED <<day, counted>>
        /\ i \in Id /\ d \in Day /\ TypeOK
    BY <1>3, RequestType DEF RecordInsert, At, MovementInv
  <2>2. ~Stored(i) /\ IsOpen(d)
    BY <2>1 DEF MovementInv, IndexNeverDecides, LockHeld
  <2>3. movement' = [movement EXCEPT ![i] = [stored |-> TRUE, day |-> d, amends |-> i]]
    BY <1>3, <2>2 DEF RecordInsert
  <2>4. /\ movement' \in [Id -> Row \cup {NoRow}]
        /\ OneOpenDay' /\ OnItsDay' /\ ClosingStaysTrue'
    BY <2>1, <2>2, <2>3, InsertEffect
  <2>5. day' \in [Day -> {"NONE", "OPEN", "CLOSED"}] /\ counted' \in [Day -> SUBSET Id]
    BY <2>1 DEF TypeOK
  <2> QED BY <2>1, <2>4, <2>5, LeaveStep
<1> QED BY <1>1, <1>2, <1>3

(* amendCashMovement keeps the invariant.                                  *)
LEMMA AmendStep ==
  ASSUME MovementInv, NEW r \in Request,
         AmendFind(r) \/ AmendLock(r) \/ AmendInsert(r)
  PROVE  MovementInv'
<1>1. CASE AmendFind(r)
  <2>1. CASE Answer(r)
    BY <2>1, AnswerStep
  <2>2. CASE ~Answer(r)
    <3>1. Stored(arg[r].target) /\ ProceedTo(r, movement[arg[r].target].day)
      BY <1>1, <2>2 DEF AmendFind
    <3>2. movement[arg[r].target].day \in Day
      BY <3>1, RequestType, RowType DEF MovementInv
    <3> QED BY <3>1, <3>2, ProceedStep
  <2> QED BY <2>1, <2>2
<1>2. CASE AmendLock(r)
  <2>1. CASE Answer(r)
    BY <2>1, AnswerStep
  <2>2. CASE ~Answer(r)
    <3>1. /\ TakeLock(r, seen[r].day) /\ MayAmend(r)
          /\ Goto(r, "insert") /\ UNCHANGED <<db, arg, seen>>
      BY <1>2, <2>2 DEF AmendLock
    <3>2. arg[r].target \in Effective(seen[r].day) /\ ~Stored(arg[r].id) /\ IsOpen(seen[r].day)
      BY <3>1, RequestType DEF MayAmend, Effective, MovementInv
    <3> QED BY <3>1, <3>2, LockStep
  <2> QED BY <2>1, <2>2
<1>3. CASE AmendInsert(r)
  <2> DEFINE i == arg[r].id
             t == arg[r].target
             d == seen[r].day
  <2>1. /\ pc[r] = "insert" /\ arg[r].op = "amend" /\ Finish(r) /\ UNCHANGED <<day, counted>>
        /\ i \in Id /\ t \in Id /\ d \in Day /\ TypeOK
    BY <1>3, RequestType DEF AmendInsert, At, MovementInv
  <2>2. ~Stored(i) /\ IsOpen(d) /\ t \in Effective(d)
    BY <2>1 DEF MovementInv, IndexNeverDecides, LockHeld
  <2>3. movement' = [movement EXCEPT ![i] = [stored |-> TRUE, day |-> d, amends |-> t]]
    BY <1>3, <2>2 DEF AmendInsert, Effective
  <2>4. /\ movement' \in [Id -> Row \cup {NoRow}]
        /\ OneOpenDay' /\ OnItsDay' /\ ClosingStaysTrue'
    BY <2>1, <2>2, <2>3, InsertEffect
  <2>5. day' \in [Day -> {"NONE", "OPEN", "CLOSED"}] /\ counted' \in [Day -> SUBSET Id]
    BY <2>1 DEF TypeOK
  <2> QED BY <2>1, <2>4, <2>5, LeaveStep
<1> QED BY <1>1, <1>2, <1>3

(* close keeps the invariant: what it has summed is still in force when it *)
(* commits.                                                                *)
LEMMA CloseStep ==
  ASSUME MovementInv, NEW r \in Request,
         CloseFind(r) \/ CloseLock(r) \/ CloseSum(r) \/ CloseCommit(r)
  PROVE  MovementInv'
<1>1. CASE CloseFind(r)
  BY <1>1, AnswerStep, ProceedStep DEF CloseFind
<1>2. CASE CloseLock(r)
  <2>1. CASE Answer(r)
    BY <2>1, AnswerStep
  <2>2. CASE ~Answer(r)
    <3>1. /\ TakeLock(r, seen[r].day) /\ IsOpen(seen[r].day)
          /\ Goto(r, "sum") /\ UNCHANGED <<db, arg, seen>>
      BY <1>2, <2>2 DEF CloseLock
    <3> QED BY <3>1, LockStep
  <2> QED BY <2>1, <2>2
<1>3. CASE CloseSum(r)
  <2>1. TypeOK /\ pc[r] = "sum" /\ seen[r].day \in Day /\ UNCHANGED <<db, dayLock, arg>>
    BY <1>3, RequestType DEF CloseSum, At, MovementInv
  <2>2. /\ pc' \in [Request -> Label] /\ pc'[r] = "commit"
        /\ \A q \in Request \ {r} : pc'[q] = pc[q]
    BY <1>3, <2>1 DEF CloseSum, Goto, TypeOK, Label
  <2>3. /\ seen' \in [Request -> [day : Day, rows : SUBSET Id]]
        /\ seen'[r].day = seen[r].day /\ seen'[r].rows = Effective(seen[r].day)
        /\ \A q \in Request \ {r} : seen'[q] = seen[q]
    BY <1>3, <2>1, EffectiveType DEF CloseSum, TypeOK
  <2>4. TypeOK'
    BY <2>1, <2>2, <2>3 DEF TypeOK, db
  <2>5. \A q \in Request \ {r} : pc[q] \notin {"insert", "sum", "commit"}
    BY <2>1, OnlyOnePastLock
  <2>6. OneOpenDay' /\ OnItsDay' /\ ClosingStaysTrue'
    BY <2>1 DEF MovementInv, db, OneOpenDay, IsOpen, OnItsDay, Stored, ClosingStaysTrue,
                Effective, Amended, Amends
  <2>7. IsOpen(seen[r].day) /\ dayLock[seen[r].day] = r
    BY <2>1 DEF MovementInv, LockHeld
  <2>8. LockHeld'
    BY <2>1, <2>2, <2>3, <2>5, <2>7 DEF LockHeld, IsOpen, db
  <2>9. IndexNeverDecides'
    BY <2>2, <2>5 DEF IndexNeverDecides
  <2>10. \A e \in Day : Effective(e)' = Effective(e)
    BY <2>1 DEF Effective, Stored, Amended, Amends, db
  <2>11. SumIsCurrent'
    BY <2>1, <2>2, <2>3, <2>5, <2>10 DEF SumIsCurrent
  <2> QED BY <2>4, <2>6, <2>8, <2>9, <2>11 DEF MovementInv
<1>4. CASE CloseCommit(r)
  <2> DEFINE d == seen[r].day
  <2>1. /\ TypeOK /\ pc[r] = "commit" /\ d \in Day /\ seen[r].rows \in SUBSET Id
        /\ Finish(r) /\ UNCHANGED movement
    BY <1>4, RequestType DEF CloseCommit, At, MovementInv
  <2>2. IsOpen(d) /\ seen[r].rows = Effective(d)
    BY <2>1 DEF MovementInv, LockHeld, SumIsCurrent
  <2>3. /\ day' = [day EXCEPT ![d] = "CLOSED"]
        /\ counted' = [counted EXCEPT ![d] = Effective(d)]
    BY <1>4, <2>2 DEF CloseCommit
  <2>4. day' \in [Day -> {"NONE", "OPEN", "CLOSED"}] /\ counted' \in [Day -> SUBSET Id]
    BY <2>1, <2>3, EffectiveType DEF TypeOK
  <2>5. movement' \in [Id -> Row \cup {NoRow}]
    BY <2>1 DEF TypeOK
  <2>6. \A e \in Day : Effective(e)' = Effective(e)
    BY <2>1 DEF Effective, Stored, Amended, Amends
  <2>7. OneOpenDay'
    BY <2>1, <2>3 DEF MovementInv, OneOpenDay, IsOpen, TypeOK
  <2>8. OnItsDay'
    <3>1. \A e \in Day : day[e] # "NONE" => day'[e] # "NONE"
      BY <2>1, <2>3 DEF TypeOK
    <3>2. \A i \in Id : Stored(i) => movement[i].day \in Day
      BY <2>1, RowType
    <3> QED BY <2>1, <3>1, <3>2 DEF MovementInv, OnItsDay, Stored
  <2>9. ClosingStaysTrue'
    BY <2>1, <2>3, <2>6 DEF MovementInv, ClosingStaysTrue, TypeOK
  <2> QED BY <2>1, <2>4, <2>5, <2>7, <2>8, <2>9, LeaveStep
<1> QED BY <1>1, <1>2, <1>3, <1>4

(* open keeps the invariant: nobody is past a lock when no day is open.    *)
LEMMA OpenStep ==
  ASSUME MovementInv, NEW r \in Request, OpenInsert(r)
  PROVE  MovementInv'
<1>1. TypeOK /\ Finish(r) /\ UNCHANGED <<movement, counted>>
  BY DEF OpenInsert, MovementInv
<1>2. CASE UNCHANGED day
  <2>1. Answer(r)
    BY <1>1, <1>2 DEF Answer, db
  <2> QED BY <2>1, AnswerStep
<1>3. CASE day' # day
  <2>1. PICK d \in Day : day[d] = "NONE" /\ day' = [day EXCEPT ![d] = "OPEN"]
    BY <1>3 DEF OpenInsert
  <2>2. \A e \in Day : ~IsOpen(e)
    BY <1>3 DEF OpenInsert
  <2>3. \A q \in Request : pc[q] \notin {"insert", "sum", "commit"}
    BY <2>2, <1>1, RequestType DEF MovementInv, LockHeld
  <2>4. \A q \in Request : pc'[q] \notin {"insert", "sum", "commit"}
    BY <1>1, <2>3, FinishStep
  <2>5. TypeOK'
    <3>1. day' \in [Day -> {"NONE", "OPEN", "CLOSED"}]
      BY <1>1, <2>1 DEF TypeOK
    <3> QED BY <1>1, <3>1, FinishStep DEF TypeOK
  <2>6. \A e \in Day : day'[e] = IF e = d THEN "OPEN" ELSE day[e]
    BY <1>1, <2>1 DEF TypeOK
  <2>7. OneOpenDay'
    BY <2>2, <2>6 DEF OneOpenDay, IsOpen
  <2>8. OnItsDay'
    <3>1. \A i \in Id : Stored(i) => movement[i].day \in Day
      BY <1>1, RowType
    <3> QED BY <1>1, <2>6, <3>1 DEF MovementInv, OnItsDay, Stored
  <2>9. \A e \in Day : Effective(e)' = Effective(e)
    BY <1>1 DEF Effective, Stored, Amended, Amends
  <2>10. ClosingStaysTrue'
    BY <1>1, <2>6, <2>9 DEF MovementInv, ClosingStaysTrue
  <2> QED BY <2>4, <2>5, <2>7, <2>8, <2>10
          DEF MovementInv, LockHeld, IndexNeverDecides, SumIsCurrent
<1> QED BY <1>2, <1>3

-----------------------------------------------------------------------------
(* The invariant.                                                          *)

(* The first state: one day is open, no request has arrived.               *)
LEMMA InitInv == Init => MovementInv
<1> SUFFICES ASSUME Init PROVE MovementInv
  OBVIOUS
<1>1. TypeOK
  BY IdleType DEF Init, TypeOK, Label
<1>2. OneOpenDay
  BY DEF Init, OneOpenDay, IsOpen
<1>3. LockHeld /\ IndexNeverDecides /\ SumIsCurrent
  BY DEF Init, LockHeld, IndexNeverDecides, SumIsCurrent
<1>4. \A i \in Id : ~Stored(i)
  BY DEF Init, Stored, NoRow
<1>5. OnItsDay /\ ClosingStaysTrue
  BY <1>4 DEF Init, OnItsDay, ClosingStaysTrue
<1> QED BY <1>1, <1>2, <1>3, <1>5 DEF MovementInv

(* Every step keeps the invariant.                                         *)
LEMMA NextInv == MovementInv /\ [Next]_vars => MovementInv'
<1> SUFFICES ASSUME MovementInv, [Next]_vars PROVE MovementInv'
  OBVIOUS
<1>1. CASE UNCHANGED vars
  BY <1>1 DEF vars, db, MovementInv, TypeOK, OneOpenDay, LockHeld, IndexNeverDecides,
              SumIsCurrent, OnItsDay, ClosingStaysTrue, IsOpen, Stored, Effective, Amended, Amends
<1>2. ASSUME NEW r \in Request, Start(r) PROVE MovementInv'
  BY <1>2, StartStep
<1>3. ASSUME NEW r \in Request, Abort(r) PROVE MovementInv'
  BY <1>3, AnswerStep DEF Abort
<1>4. ASSUME NEW r \in Request, Advance(r) PROVE MovementInv'
  BY <1>4, RecordStep, AmendStep, CloseStep, OpenStep DEF Advance
<1> QED BY <1>1, <1>2, <1>3, <1>4 DEF Next

(* A request past the day's lock works on the open day, holds it, and what *)
(* it checked or summed there stays so; rows and closings agree.           *)
THEOREM MovementInvariant == Spec => []MovementInv
BY InitInv, NextInv, PTL DEF Spec

(* The unique indexes of cash_movements never decide between two requests. *)
THEOREM NoIndexDecides == Spec => []IndexNeverDecides
<1>1. MovementInv => IndexNeverDecides
  BY DEF MovementInv
<1> QED BY <1>1, MovementInvariant, PTL

(* A closing has counted what is in force on its day for ever.             *)
THEOREM ClosingsStayTrue == Spec => []ClosingStaysTrue
<1>1. MovementInv => ClosingStaysTrue
  BY DEF MovementInv
<1> QED BY <1>1, MovementInvariant, PTL

-----------------------------------------------------------------------------
(* The requests implement the ledger.                                      *)

(* A step that writes nothing is a stutter of the ledger.                  *)
LEMMA QuietLedgerStep == UNCHANGED db => UNCHANGED Ledger!vars
<1> SUFFICES ASSUME UNCHANGED db PROVE UNCHANGED Ledger!vars
  OBVIOUS
<1>1. UNCHANGED <<day, movement, counted>>
  BY DEF db
<1>2. [d \in Day |-> Effective(d)]' = [d \in Day |-> Effective(d)]
  BY <1>1 DEF Effective, Stored, Amended, Amends
<1>3. {i \in Id : Stored(i)}' = {i \in Id : Stored(i)}
  BY <1>1 DEF Stored
<1> QED BY <1>1, <1>2, <1>3 DEF Ledger!vars

(* The first state is one of the ledger.                                   *)
LEMMA LedgerInit == Init => Ledger!Init
<1> SUFFICES ASSUME Init PROVE Ledger!Init
  OBVIOUS
<1>1. \A i \in Id : ~Stored(i)
  BY DEF Init, Stored, NoRow
<1>2. [d \in Day |-> Effective(d)] = [d \in Day |-> {}]
  BY <1>1 DEF Effective
<1>3. {i \in Id : Stored(i)} = {}
  BY <1>1
<1>4. \E d \in Day : day = [e \in Day |-> IF e = d THEN "OPEN" ELSE "NONE"]
  BY DayAssumption DEF Init
<1> QED BY <1>2, <1>3, <1>4 DEF Ledger!Init, Init

(* The INSERT of an entry records it, that of a correction replaces what   *)
(* it corrects.                                                            *)
LEMMA InsertLedgerStep ==
  ASSUME MovementInv, NEW r \in Request, RecordInsert(r) \/ AmendInsert(r)
  PROVE  Ledger!Next
<1> DEFINE force == [e \in Day |-> Effective(e)]
<1>1. /\ pc[r] = "insert" /\ UNCHANGED <<day, counted>>
      /\ arg[r].id \in Id /\ arg[r].target \in Id /\ seen[r].day \in Day
      /\ arg[r].op \in {"record", "amend"}
  BY RequestType DEF RecordInsert, AmendInsert, At, MovementInv
<1>2. PICK i \in Id, t \in Id, d \in Day :
        /\ i = arg[r].id /\ d = seen[r].day
        /\ t = IF arg[r].op = "record" THEN arg[r].id ELSE arg[r].target
  BY <1>1
<1>3. /\ ~Stored(i) /\ IsOpen(d)
      /\ t = i \/ t \in Effective(d)
      /\ movement' = [movement EXCEPT ![i] = [stored |-> TRUE, day |-> d, amends |-> t]]
  <2>1. /\ ~Stored(i) /\ IsOpen(d)
        /\ arg[r].op = "amend" => t \in Effective(d)
        /\ arg[r].op = "record" => t = i
    BY <1>1, <1>2 DEF MovementInv, IndexNeverDecides, LockHeld
  <2>2. movement' = [movement EXCEPT ![i] = [stored |-> TRUE, day |-> d, amends |-> t]]
    BY <1>2, <2>1 DEF RecordInsert, AmendInsert, Effective, At
  <2> QED BY <1>1, <2>1, <2>2
<1>4. /\ Effective(d)' = (Effective(d) \ {t}) \cup {i}
      /\ \A e \in Day \ {d} : Effective(e)' = Effective(e)
      /\ \A j \in Id : Stored(j)' <=> Stored(j) \/ j = i
  BY <1>1, <1>3, InsertEffect
<1>5. {j \in Id : Stored(j)}' = {j \in Id : Stored(j)} \cup {i}
  BY <1>1, <1>4
<1>6. force' = [force EXCEPT ![d] = (@ \ {t}) \cup {i}]
  BY <1>1, <1>4
<1>7. i \notin {j \in Id : Stored(j)} /\ day[d] = "OPEN"
  BY <1>3 DEF IsOpen
<1>8. CASE t = i
  <2>1. force' = [force EXCEPT ![d] = @ \cup {i}]
    BY <1>6, <1>8
  <2>2. Ledger!Record(d, i)
    BY <1>1, <1>5, <1>7, <2>1 DEF Ledger!Record
  <2> QED BY <1>1, <2>2 DEF Ledger!Next
<1>9. CASE t # i
  <2>1. t \in force[d]
    BY <1>3, <1>9
  <2>2. Ledger!Correct(d, t, i)
    BY <1>1, <1>5, <1>6, <1>7, <2>1 DEF Ledger!Correct
  <2> QED BY <1>1, <2>2 DEF Ledger!Next
<1> QED BY <1>8, <1>9

(* The commit of a close closes the day and counts what is in force.       *)
LEMMA CloseLedgerStep ==
  ASSUME MovementInv, NEW r \in Request, CloseCommit(r)
  PROVE  Ledger!Next
<1> DEFINE d == seen[r].day
           force == [e \in Day |-> Effective(e)]
<1>1. pc[r] = "commit" /\ d \in Day /\ UNCHANGED movement
  BY RequestType DEF CloseCommit, At, MovementInv
<1>2. IsOpen(d) /\ seen[r].rows = Effective(d)
  BY <1>1 DEF MovementInv, LockHeld, SumIsCurrent
<1>3. /\ day' = [day EXCEPT ![d] = "CLOSED"]
      /\ counted' = [counted EXCEPT ![d] = force[d]]
  BY <1>1, <1>2 DEF CloseCommit
<1>4. force' = force /\ {i \in Id : Stored(i)}' = {i \in Id : Stored(i)}
  BY <1>1 DEF Effective, Stored, Amended, Amends
<1>5. Ledger!Close(d)
  BY <1>2, <1>3, <1>4 DEF Ledger!Close, IsOpen
<1> QED BY <1>1, <1>5 DEF Ledger!Next

(* The INSERT of a day opens it.                                           *)
LEMMA OpenLedgerStep ==
  ASSUME NEW r \in Request, OpenInsert(r)
  PROVE  Ledger!Next \/ UNCHANGED db
<1>1. UNCHANGED <<movement, counted>>
  BY DEF OpenInsert
<1>2. CASE UNCHANGED day
  BY <1>1, <1>2 DEF db
<1>3. CASE day' # day
  <2>1. PICK d \in Day : day[d] = "NONE" /\ day' = [day EXCEPT ![d] = "OPEN"]
    BY <1>3 DEF OpenInsert
  <2>2. \A e \in Day : day[e] # "OPEN"
    BY <1>3 DEF OpenInsert, IsOpen
  <2>3. /\ [e \in Day |-> Effective(e)]' = [e \in Day |-> Effective(e)]
        /\ {i \in Id : Stored(i)}' = {i \in Id : Stored(i)}
    BY <1>1 DEF Effective, Stored, Amended, Amends
  <2>4. Ledger!Open(d)
    BY <1>1, <2>1, <2>2, <2>3 DEF Ledger!Open
  <2> QED BY <2>4 DEF Ledger!Next
<1> QED BY <1>2, <1>3

(* Every step is a step of the ledger or a stutter.                        *)
LEMMA LedgerNext == MovementInv /\ [Next]_vars => [Ledger!Next]_Ledger!vars
<1> SUFFICES ASSUME MovementInv, [Next]_vars PROVE Ledger!Next \/ UNCHANGED db
  BY QuietLedgerStep
<1>1. CASE UNCHANGED vars
  BY <1>1 DEF vars, db
<1>2. ASSUME NEW r \in Request, Start(r) \/ Abort(r) PROVE UNCHANGED db
  BY <1>2 DEF Start, Abort, Answer, db
<1>3. ASSUME NEW r \in Request, Advance(r) PROVE Ledger!Next \/ UNCHANGED db
  <2>1. CASE RecordInsert(r) \/ AmendInsert(r)
    BY <2>1, InsertLedgerStep
  <2>2. CASE CloseCommit(r)
    BY <2>2, CloseLedgerStep
  <2>3. CASE OpenInsert(r)
    BY <2>3, OpenLedgerStep
  <2>4. CASE \/ RecordFind(r) \/ RecordLock(r) \/ AmendFind(r) \/ AmendLock(r)
             \/ CloseFind(r) \/ CloseLock(r) \/ CloseSum(r)
    BY <2>4 DEF RecordFind, RecordLock, AmendFind, AmendLock, CloseFind, CloseLock, CloseSum,
                ProceedTo, Answer
  <2> QED BY <1>3, <2>1, <2>2, <2>3, <2>4 DEF Advance
<1> QED BY <1>1, <1>2, <1>3 DEF Next

(* The requests, whatever their number, ids and order, do to the movements *)
(* of a day what the ledger does.                                          *)
THEOREM RequestsImplementLedger == Spec => ImplementsLedger
BY LedgerInit, LedgerNext, MovementInvariant, PTL DEF Spec, ImplementsLedger, Ledger!Spec
=============================================================================
