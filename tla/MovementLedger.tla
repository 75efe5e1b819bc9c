--------------------------- MODULE MovementLedger ---------------------------
(***************************************************************************)
(* What the cash movements of a business day promise (ADR 0015): while the *)
(* day is open an entry is recorded, or replaced as a whole by a           *)
(* correction; at the close the entries in force are counted, and nothing  *)
(* about a closed day ever changes.  There are no requests, locks or       *)
(* amendment links here.                                                   *)
(***************************************************************************)
CONSTANTS
  Id,  \* ids of entries and corrections
  Day  \* business days

VARIABLES
  phase,   \* each day is not yet open, open or closed
  inForce, \* the entries in force on each day
  used,    \* the ids in use
  counted  \* the entries that the closing of each day has counted

vars == <<phase, inForce, used, counted>>

Init ==
  /\ \E d \in Day : phase = [e \in Day |-> IF e = d THEN "OPEN" ELSE "NONE"]
  /\ inForce = [d \in Day |-> {}]
  /\ used = {}
  /\ counted = [d \in Day |-> {}]

Record(d, i) ==
  /\ phase[d] = "OPEN" /\ i \notin used
  /\ inForce' = [inForce EXCEPT ![d] = @ \cup {i}]
  /\ used' = used \cup {i}
  /\ UNCHANGED <<phase, counted>>

Correct(d, old, new) ==
  /\ phase[d] = "OPEN" /\ old \in inForce[d] /\ new \notin used
  /\ inForce' = [inForce EXCEPT ![d] = (@ \ {old}) \cup {new}]
  /\ used' = used \cup {new}
  /\ UNCHANGED <<phase, counted>>

Close(d) ==
  /\ phase[d] = "OPEN"
  /\ phase' = [phase EXCEPT ![d] = "CLOSED"]
  /\ counted' = [counted EXCEPT ![d] = inForce[d]]
  /\ UNCHANGED <<inForce, used>>

Open(d) ==
  /\ \A e \in Day : phase[e] # "OPEN"
  /\ phase[d] = "NONE"
  /\ phase' = [phase EXCEPT ![d] = "OPEN"]
  /\ UNCHANGED <<inForce, used, counted>>

Next ==
  \E d \in Day :
    \/ \E i \in Id : Record(d, i)
    \/ \E old, new \in Id : Correct(d, old, new)
    \/ Close(d)
    \/ Open(d)

Spec == Init /\ [][Next]_vars
=============================================================================
