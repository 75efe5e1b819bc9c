--------------------------- MODULE MCOrderCapture ---------------------------
(***************************************************************************)
(* Instances of OrderCapture for TLC.  A call table gives each request the *)
(* calls it may be; the model values r1, r2, ... are the requests, a is    *)
(* the id of the order at stake and b, c are ids of other records.         *)
(***************************************************************************)
EXTENDS OrderCapture

CONSTANTS r1, r2, r3, r4, r5, r6, a, b, c, t1, t2

Plain(ops, ids) ==
  {[op |-> op, cid |-> id, other |-> id, date |-> t1, role |-> "STAFF"] : op \in ops, id \in ids}
Voids(orders, ids, roles) ==
  {[op |-> "void", cid |-> o, other |-> id, date |-> t1, role |-> role] :
     o \in orders, id \in ids, role \in roles}
Opens(dates) ==
  {[op |-> "open", cid |-> a, other |-> a, date |-> date, role |-> "STAFF"] : date \in dates}

(* An order is edited by two clients while another completes it, after a   *)
(* retried create, or after a discard and a second create; then two void   *)
(* it, one of them perhaps with an id in use, while another order competes *)
(* for the next number.                                                    *)
EditCalls ==
  [r \in Request |->
     CASE r = r1 -> Plain({"create"}, {a})
       [] r = r2 -> Plain({"create", "addLine", "complete"}, {a})
       [] r = r3 -> Plain(Mutation, {a}) \cup Plain({"create"}, {b})
       [] r = r4 -> Plain({"addLine", "updateLine", "removeLine"}, {a}) \cup Voids({a}, {b}, {"STAFF"})
       [] OTHER -> Plain({"complete", "settleChange"}, {a}) \cup Voids({a}, {b, c}, {"STAFF"})]

(* The day rolls over while orders are created, completed and voided.      *)
RolloverCalls ==
  [r \in Request |->
     CASE r = r1 -> Plain({"create"}, {a})
       [] r = r2 -> Plain({"complete"}, {a}) \cup Opens({t2})
       [] r = r3 -> Voids({a}, {b}, {"ADMIN", "STAFF"})
       [] r = r4 -> Plain({"close"}, {a})
       [] OTHER -> Opens({t1, t2}) \cup Plain({"close"}, {a, b}) \cup Plain({"create"}, {c})]

(* A create and a void, a close and an edit, with a lock each to wait for. *)
AnswerCalls ==
  [r \in Request |->
     CASE r = r1 -> Plain({"create"}, {a})
       [] r = r2 -> Plain({"complete", "decrementLine"}, {a})
       [] r = r3 -> Voids({a}, {b}, {"STAFF"})
       [] OTHER -> Plain({"close", "settleChange"}, {a}) \cup Plain({"create"}, {c})]

(* The order a is discarded and created again while two calls on it wait.  *)
ReuseCalls ==
  [r \in Request |->
     CASE r \in {r1, r3} -> Plain({"create"}, {a})
       [] r = r2 -> Plain({"removeLine"}, {a})
       [] r = r4 -> Plain({"complete"}, {a})
       [] OTHER -> Plain({"addLine"}, {a})]
ReuseVoidCalls ==
  [r \in Request |->
     CASE r \in {r1, r3} -> Plain({"create"}, {a})
       [] r = r2 -> Plain({"removeLine"}, {a})
       [] r = r4 -> Plain({"complete"}, {a})
       [] r = r5 -> Voids({a}, {b}, {"STAFF"})
       [] OTHER -> Voids({a}, {c}, {"STAFF"})]

(* A completion races the close of the day.                                *)
CloseRaceCalls ==
  [r \in Request |->
     CASE r = r1 -> Plain({"create"}, {a})
       [] r = r2 -> Plain({"complete"}, {a})
       [] OTHER -> Plain({"close"}, {b})]

(* Two opens of the same date race with two closes.                        *)
SameDateCalls ==
  [r \in Request |->
     CASE r \in {r1, r3} -> Plain({"close"}, {a, b})
       [] OTHER -> Opens({t2})]

=============================================================================
