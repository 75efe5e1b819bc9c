-------------------------- MODULE AdminPages_proof ---------------------------
(***************************************************************************)
(* Proofs about the lists and forms of staff and stock items in Pages, one *)
(* section for each page, laid out as in Pages_proof.                      *)
(***************************************************************************)
EXTENDS Pages, TLAPS, FiniteSetTheorems

-----------------------------------------------------------------------------
(* AdjustmentsView: allowances, bonuses and advances.                      *)

(* The load that counts is for the filter, and is what is waited for.      *)
AdjustmentLoads ==
  /\ \A k, l \in adjustmentLoads : k.current /\ l.current => k = l
  /\ \A l \in adjustmentLoads : DOMAIN l = {"filter", "current", "answer"} /\ l.current \in BOOLEAN
                      /\ (l.current => l.filter = adjustmentFilter)
  /\ adjustmentsLoading \in BOOLEAN /\ (adjustmentsLoading <=> \E l \in adjustmentLoads : l.current)

(* The one change that is on its way, and what it left in the store.       *)
ChangeIsStored ==
  /\ \A q, r \in adjustmentRequest : q = r
  /\ \A r \in adjustmentRequest :
       /\ DOMAIN r = {"op", "id", "scope", "done"}
       /\ r.done => IF r.op = "delete" THEN r.id \notin DOMAIN adjustments
                    ELSE r.id \in DOMAIN adjustments /\ adjustments[r.id] = r.scope

(* The rows that no change on its way is about.                            *)
OtherAdjustments(rows) == {a \in rows : \A r \in adjustmentRequest : r.done => a[1] # r.id}

(* Unless something was missed, a list that arrives is what is stored, and *)
(* the list that is kept is, but for the change that is on its way.        *)
ListKeepsUp ==
  ~adjustmentsMissed =>
    /\ adjustmentsLoading => adjustmentRequest = {}
    /\ \A l \in adjustmentLoads : l.current => \A rows \in l.answer : rows = Adjustments!Matching(adjustmentFilter)
    /\ ~adjustmentsLoading
         => OtherAdjustments(adjustmentsShown) = OtherAdjustments(Adjustments!Matching(adjustmentFilter))

AdjustmentsIInv == AdjustmentLoads /\ ChangeIsStored /\ ListKeepsUp

(* The list as it is first opened, while it loads.                         *)
LEMMA AdjustmentsStart == Adjustments!Init => AdjustmentsIInv
<1> SUFFICES ASSUME Adjustments!Init PROVE AdjustmentsIInv OBVIOUS
<1>1. adjustmentLoads = {Adjustments!Load(adjustmentFilter)} /\ adjustmentsLoading = TRUE /\ adjustmentRequest = {} BY
        DEF Adjustments!Init
<1> DEFINE k == Adjustments!Load(adjustmentFilter)
<1>2. DOMAIN k = {"filter", "current", "answer"} /\ k.current = TRUE /\ k.filter = adjustmentFilter /\ k.answer = {} BY
        DEF Adjustments!Load
<1> HIDE DEF k
<1>3. adjustmentLoads = {k} /\ adjustmentsLoading = TRUE /\ adjustmentRequest = {} BY <1>1 DEF k
<1>4. AdjustmentLoads BY <1>2, <1>3 DEF AdjustmentLoads
<1>5. ChangeIsStored BY <1>3 DEF ChangeIsStored
<1>6. ListKeepsUp BY <1>2, <1>3 DEF ListKeepsUp
<1> QED BY <1>4, <1>5, <1>6 DEF AdjustmentsIInv

(* The list is loaded, again or not.                                       *)
LEMMA AdjustmentsListed ==
  ASSUME AdjustmentsIInv,
         (\E f \in ScopeFilter : Adjustments!SetFilter(f)) \/ \E l \in adjustmentLoads : Adjustments!Listed(l) \/
           Adjustments!Loaded(l) \/ Adjustments!LoadFailed(l)
  PROVE  AdjustmentsIInv'
<1>1. UNCHANGED <<adjustments, adjustmentDraft, adjustmentRequest>> BY DEF Adjustments!SetFilter, Adjustments!Listed,
     Adjustments!Loaded, Adjustments!LoadFailed
<1>2. ChangeIsStored' BY <1>1 DEF AdjustmentsIInv, ChangeIsStored
<1>3. \A f : Adjustments!Matching(f)' = Adjustments!Matching(f) BY <1>1 DEF Adjustments!Matching
<1>4. \A rows : OtherAdjustments(rows)' = OtherAdjustments(rows) BY <1>1 DEF OtherAdjustments
<1>5. ASSUME NEW f \in ScopeFilter, Adjustments!SetFilter(f) PROVE AdjustmentsIInv'
  <2> DEFINE new == Adjustments!Load(f)
  <2>1. DOMAIN new = {"filter", "current", "answer"} /\ new.current = TRUE /\ new.filter = f /\ new.answer = {}
    BY DEF Adjustments!Load
  <2>2. /\ adjustmentFilter' = f /\ adjustmentsLoading' = TRUE /\ adjustmentsMissed' = (adjustmentRequest # {})
        /\ adjustmentLoads' = {[l EXCEPT !.current = FALSE] : l \in adjustmentLoads} \cup {new}
    BY <1>5 DEF Adjustments!SetFilter
  <2> HIDE DEF new
  <2>3. ASSUME NEW l \in adjustmentLoads, NEW k, k = [l EXCEPT !.current = FALSE]
        PROVE  DOMAIN k = {"filter", "current", "answer"} /\ k.current = FALSE
    BY <2>3 DEF AdjustmentsIInv, AdjustmentLoads
  <2>4. \A k \in adjustmentLoads' : k = new \/ (DOMAIN k = {"filter", "current", "answer"} /\ k.current = FALSE)
    BY <2>2, <2>3
  <2>5. AdjustmentLoads' BY <2>1, <2>2, <2>4 DEF AdjustmentLoads
  <2>6. ListKeepsUp' BY <1>1, <2>1, <2>2, <2>4 DEF ListKeepsUp
  <2> QED BY <1>2, <2>5, <2>6 DEF AdjustmentsIInv
<1>6. ASSUME NEW l \in adjustmentLoads, Adjustments!Listed(l) PROVE AdjustmentsIInv'
  <2> DEFINE k == [l EXCEPT !.answer = {Adjustments!Matching(l.filter)}]
  <2>1. adjustmentLoads' = (adjustmentLoads \ {l}) \cup {k} /\
          UNCHANGED <<adjustmentFilter, adjustmentsShown, adjustmentsLoading, adjustmentsMissed>> BY <1>6
          DEF Adjustments!Listed
  <2>2. /\ DOMAIN k = {"filter", "current", "answer"} /\ k.current = l.current /\ k.filter = l.filter
        /\ k.answer = {Adjustments!Matching(l.filter)} /\ l.current \in BOOLEAN
    BY DEF AdjustmentsIInv, AdjustmentLoads
  <2> HIDE DEF k
  <2>3. (\E m \in adjustmentLoads' : m.current) <=> \E m \in adjustmentLoads : m.current BY <2>1, <2>2
  <2>4. AdjustmentLoads' BY <2>1, <2>2, <2>3 DEF AdjustmentsIInv, AdjustmentLoads
  <2>5. ListKeepsUp' BY <1>1, <1>3, <1>4, <2>1, <2>2 DEF AdjustmentsIInv, AdjustmentLoads, ListKeepsUp
  <2> QED BY <1>2, <2>4, <2>5 DEF AdjustmentsIInv
<1>7. ASSUME NEW l \in adjustmentLoads, Adjustments!Loaded(l) \/ Adjustments!LoadFailed(l) PROVE AdjustmentsIInv'
  <2>1. adjustmentLoads' = adjustmentLoads \ {l} /\ adjustmentsLoading' = (adjustmentsLoading /\ ~l.current) /\
          adjustmentFilter' = adjustmentFilter
    BY <1>7 DEF Adjustments!Loaded, Adjustments!LoadFailed, Adjustments!IsCurrent
  <2>2. AdjustmentLoads' BY <2>1 DEF AdjustmentsIInv, AdjustmentLoads
  <2>3. ListKeepsUp'
    <3>1. CASE ~l.current
      <4>1. adjustmentsShown' = adjustmentsShown
        <5>1. CASE Adjustments!Loaded(l) BY <3>1, <5>1 DEF Adjustments!Loaded, Adjustments!IsCurrent
        <5>2. CASE Adjustments!LoadFailed(l) BY <3>1, <5>2 DEF Adjustments!LoadFailed
        <5> QED BY <1>7, <5>1, <5>2
      <4>5. ~adjustmentsMissed' => ~adjustmentsMissed
        <5>1. CASE Adjustments!Loaded(l) BY <5>1 DEF Adjustments!Loaded
        <5>2. CASE Adjustments!LoadFailed(l) BY <5>2 DEF Adjustments!LoadFailed
        <5> QED BY <1>7, <5>1, <5>2
      <4>2. adjustmentsLoading' <=> adjustmentsLoading BY <2>1, <3>1
      <4> QED BY <1>1, <1>3, <1>4, <2>1, <4>1, <4>2, <4>5 DEF AdjustmentsIInv, ListKeepsUp
    <3>2. CASE l.current /\ Adjustments!Loaded(l)
      <4>1. adjustmentsShown' \in l.answer /\ adjustmentsMissed' = adjustmentsMissed /\ ~adjustmentsLoading' BY <2>1,
           <3>2 DEF Adjustments!Loaded, Adjustments!IsCurrent
      <4>2. ~adjustmentsMissed => adjustmentsShown' = Adjustments!Matching(adjustmentFilter) BY <3>2, <4>1
           DEF AdjustmentsIInv, ListKeepsUp
      <4>3. \A k \in adjustmentLoads' : ~k.current BY <2>1, <3>2 DEF AdjustmentsIInv, AdjustmentLoads
      <4> QED BY <1>1, <1>3, <1>4, <2>1, <4>1, <4>2, <4>3 DEF ListKeepsUp
    <3>3. CASE l.current /\ Adjustments!LoadFailed(l) BY <3>3 DEF Adjustments!LoadFailed, ListKeepsUp
    <3> QED BY <1>7, <3>1, <3>2, <3>3 DEF Adjustments!Loaded, Adjustments!LoadFailed
  <2> QED BY <1>2, <2>2, <2>3 DEF AdjustmentsIInv
<1> QED BY <1>5, <1>6, <1>7

(* The form, and what is sent from it.                                     *)
LEMMA AdjustmentsDrafted ==
  ASSUME AdjustmentsIInv,
         \/ \E s \in PayScope : Adjustments!OpenAdd(s)
         \/ \E a \in adjustmentsShown : Adjustments!OpenEdit(a) \/ Adjustments!OpenDelete(a)
         \/ \E d \in adjustmentDraft : Adjustments!Send(d) \/ \E s \in PayScope : Adjustments!ChangeDraft(d, s)
         \/ Adjustments!Close
  PROVE  AdjustmentsIInv'
<1>1. UNCHANGED <<adjustments, adjustmentFilter, adjustmentsShown, adjustmentsLoading, adjustmentLoads>>
  BY DEF Adjustments!OpenAdd, Adjustments!OpenEdit, Adjustments!OpenDelete, Adjustments!Open, Adjustments!Send,
       Adjustments!ChangeDraft, Adjustments!Close
<1>2. AdjustmentLoads' BY <1>1 DEF AdjustmentsIInv, AdjustmentLoads
<1>3. \A f : Adjustments!Matching(f)' = Adjustments!Matching(f) BY <1>1 DEF Adjustments!Matching
<1>4. CASE adjustmentRequest' = adjustmentRequest /\ adjustmentsMissed' = adjustmentsMissed
  <2>1. ChangeIsStored' BY <1>1, <1>4 DEF AdjustmentsIInv, ChangeIsStored
  <2>2. \A rows : OtherAdjustments(rows)' = OtherAdjustments(rows) BY <1>4 DEF OtherAdjustments
  <2>3. ListKeepsUp' BY <1>1, <1>3, <1>4, <2>2 DEF AdjustmentsIInv, ListKeepsUp
  <2> QED BY <1>2, <2>1, <2>3 DEF AdjustmentsIInv
<1>5. ASSUME NEW d \in adjustmentDraft, Adjustments!Send(d) PROVE AdjustmentsIInv'
  <2>1. PICK i : /\ adjustmentRequest = {} /\ adjustmentsMissed' = (adjustmentsMissed \/ adjustmentsLoading)
                 /\ adjustmentRequest' = {[op |-> d.op, id |-> i, scope |-> d.scope, done |-> FALSE]}
    BY <1>5 DEF Adjustments!Send
  <2> DEFINE r == [op |-> d.op, id |-> i, scope |-> d.scope, done |-> FALSE]
  <2>2. DOMAIN r = {"op", "id", "scope", "done"} /\ r.done = FALSE OBVIOUS
  <2> HIDE DEF r
  <2>3. adjustmentRequest' = {r} BY <2>1 DEF r
  <2>4. ChangeIsStored' BY <2>2, <2>3 DEF ChangeIsStored
  <2>5. \A rows : OtherAdjustments(rows)' = rows /\ OtherAdjustments(rows) = rows BY <2>1, <2>2, <2>3
       DEF OtherAdjustments
  <2>6. ListKeepsUp'
    <3> SUFFICES ASSUME ~adjustmentsMissed' PROVE ListKeepsUp' BY DEF ListKeepsUp
    <3>1. ~adjustmentsMissed /\ ~adjustmentsLoading /\ ~adjustmentsLoading' BY <1>1, <2>1
    <3>2. adjustmentsShown = Adjustments!Matching(adjustmentFilter) BY <2>5, <3>1 DEF AdjustmentsIInv, ListKeepsUp
    <3>3. \A l \in adjustmentLoads' : ~l.current BY <1>1, <3>1 DEF AdjustmentsIInv, AdjustmentLoads
    <3>4. Adjustments!Matching(adjustmentFilter)' = Adjustments!Matching(adjustmentFilter) BY <1>1, <1>3
    <3>5. OtherAdjustments(adjustmentsShown)' = OtherAdjustments(Adjustments!Matching(adjustmentFilter))' BY <1>1,
         <2>5, <3>2, <3>4
    <3> QED BY <3>1, <3>3, <3>5 DEF ListKeepsUp
  <2> QED BY <1>2, <2>4, <2>6 DEF AdjustmentsIInv
<1> QED BY <1>4, <1>5 DEF Adjustments!OpenAdd, Adjustments!OpenEdit, Adjustments!OpenDelete, Adjustments!Open,
     Adjustments!ChangeDraft, Adjustments!Close

(* A change is stored, and answered or lost.                               *)
LEMMA AdjustmentsChanged ==
  ASSUME AdjustmentsIInv, NEW r \in adjustmentRequest,
           Adjustments!Store(r) \/ Adjustments!Answered(r) \/ \E forbidden \in BOOLEAN :
             Adjustments!Failed(r, forbidden)
  PROVE  AdjustmentsIInv'
<1>1. UNCHANGED <<adjustmentFilter, adjustmentsLoading, adjustmentLoads>> BY DEF Adjustments!Store,
     Adjustments!Answered, Adjustments!Failed
<1>2. AdjustmentLoads' BY <1>1 DEF AdjustmentsIInv, AdjustmentLoads
<1>3. adjustmentRequest = {r} BY DEF AdjustmentsIInv, ChangeIsStored
<1>4. DOMAIN r = {"op", "id", "scope", "done"} BY DEF AdjustmentsIInv, ChangeIsStored
<1>5. ~adjustmentsMissed => ~adjustmentsLoading /\ \A l \in adjustmentLoads : ~l.current
  BY <1>3 DEF AdjustmentsIInv, ListKeepsUp, AdjustmentLoads
<1>6. CASE Adjustments!Store(r)
  <2> DEFINE s == [r EXCEPT !.done = TRUE]
  <2>1. /\ ~r.done /\ adjustmentRequest' = {s} /\ UNCHANGED <<adjustmentsShown, adjustmentsMissed>>
        /\ adjustments' = [i \in IF r.op = "delete" THEN DOMAIN adjustments \ {r.id}
             ELSE DOMAIN adjustments \cup {r.id} |->
                             IF i = r.id THEN r.scope ELSE adjustments[i]]
    BY <1>6 DEF Adjustments!Store
  <2>2. DOMAIN s = {"op", "id", "scope", "done"} /\ s.op = r.op /\ s.id = r.id /\ s.scope = r.scope /\ s.done = TRUE
    BY <1>4
  <2> HIDE DEF s
  <2>3. ChangeIsStored' BY <2>1, <2>2 DEF ChangeIsStored
  <2>4. \A i : i # r.id => (i \in DOMAIN adjustments' <=> i \in DOMAIN adjustments) /\
          (i \in DOMAIN adjustments => adjustments'[i] = adjustments[i])
    BY <2>1
  <2>5. \A rows : OtherAdjustments(rows) = rows BY <1>3, <2>1 DEF OtherAdjustments
  <2>6. \A rows : OtherAdjustments(rows)' = {a \in rows : a[1] # r.id} BY <2>1, <2>2 DEF OtherAdjustments
  <2>7. {a \in Adjustments!Matching(adjustmentFilter)' : a[1] # r.id} = {a \in Adjustments!Matching(adjustmentFilter) :
          a[1] # r.id}
    BY <1>1, <2>4 DEF Adjustments!Matching
  <2>8. ListKeepsUp'
    <3> SUFFICES ASSUME ~adjustmentsMissed' PROVE ListKeepsUp' BY DEF ListKeepsUp
    <3>1. ~adjustmentsMissed /\ ~adjustmentsLoading' /\ (\A l \in adjustmentLoads' : ~l.current) BY <1>1, <1>5, <2>1
    <3>2. OtherAdjustments(adjustmentsShown) = OtherAdjustments(Adjustments!Matching(adjustmentFilter)) BY <1>1, <3>1
         DEF AdjustmentsIInv, ListKeepsUp
    <3>4. {a \in adjustmentsShown : a[1] # r.id} = {a \in Adjustments!Matching(adjustmentFilter) : a[1] # r.id}
            BY <2>5, <3>2
    <3>5. OtherAdjustments(adjustmentsShown)' = {a \in adjustmentsShown : a[1] # r.id} BY <2>1, <2>6
    <3>6. OtherAdjustments(Adjustments!Matching(adjustmentFilter))' = {a \in Adjustments!Matching(adjustmentFilter) :
            a[1] # r.id} BY <2>6, <2>7
    <3> QED BY <3>1, <3>4, <3>5, <3>6 DEF ListKeepsUp
  <2> QED BY <1>2, <2>3, <2>8 DEF AdjustmentsIInv
<1>7. CASE Adjustments!Answered(r)
  <2>1. /\ r.done /\ adjustmentRequest' = {} /\ UNCHANGED <<adjustments, adjustmentsMissed>>
        /\ adjustmentsShown' = {a \in adjustmentsShown : a[1] # r.id}
                      \cup (IF r.op # "delete" /\ r.scope \in adjustmentFilter THEN {<<r.id, r.scope>>} ELSE {})
    BY <1>7 DEF Adjustments!Answered, Adjustments!IsInScope
  <2>2. ChangeIsStored' BY <2>1 DEF ChangeIsStored
  <2>3. Adjustments!Matching(adjustmentFilter)' = Adjustments!Matching(adjustmentFilter) BY <1>1, <2>1
       DEF Adjustments!Matching
  <2>4. \A rows : OtherAdjustments(rows)' = rows BY <2>1 DEF OtherAdjustments
  <2>5. \A rows : OtherAdjustments(rows) = {a \in rows : a[1] # r.id} BY <1>3, <2>1 DEF OtherAdjustments
  <2>6. IF r.op = "delete" THEN r.id \notin DOMAIN adjustments
          ELSE r.id \in DOMAIN adjustments /\ adjustments[r.id] = r.scope
    BY <2>1 DEF AdjustmentsIInv, ChangeIsStored
  <2>7. Adjustments!Matching(adjustmentFilter) = {a \in Adjustments!Matching(adjustmentFilter) : a[1] # r.id}
                             \cup (IF r.op # "delete" /\ r.scope \in adjustmentFilter THEN {<<r.id, r.scope>>} ELSE {})
    BY <2>6 DEF Adjustments!Matching
  <2>8. ListKeepsUp'
    <3> SUFFICES ASSUME ~adjustmentsMissed PROVE ListKeepsUp' BY <2>1 DEF ListKeepsUp
    <3>1. {a \in adjustmentsShown : a[1] # r.id} = {a \in Adjustments!Matching(adjustmentFilter) : a[1] # r.id}
      BY <1>5, <2>5 DEF AdjustmentsIInv, ListKeepsUp
    <3>2. adjustmentsShown' = Adjustments!Matching(adjustmentFilter) BY <2>1, <2>7, <3>1
    <3> QED BY <1>1, <1>5, <2>1, <2>3, <3>2 DEF ListKeepsUp
  <2> QED BY <1>2, <2>2, <2>8 DEF AdjustmentsIInv
<1>8. ASSUME NEW forbidden \in BOOLEAN, Adjustments!Failed(r, forbidden) PROVE AdjustmentsIInv'
  <2>1. adjustmentRequest' = {} /\ adjustmentsMissed' = (adjustmentsMissed \/ r.done) /\
          UNCHANGED <<adjustments, adjustmentsShown>> BY <1>8 DEF Adjustments!Failed
  <2>2. ChangeIsStored' BY <2>1 DEF ChangeIsStored
  <2>3. Adjustments!Matching(adjustmentFilter)' = Adjustments!Matching(adjustmentFilter) BY <1>1, <2>1
       DEF Adjustments!Matching
  <2>4. \A rows : OtherAdjustments(rows)' = rows BY <2>1 DEF OtherAdjustments
  <2>5. ~r.done => \A rows : OtherAdjustments(rows) = rows BY <1>3 DEF OtherAdjustments
  <2>6. ListKeepsUp'
    <3> SUFFICES ASSUME ~adjustmentsMissed' PROVE ListKeepsUp' BY DEF ListKeepsUp
    <3>1. ~adjustmentsMissed /\ ~r.done BY <2>1
    <3>2. ~adjustmentsLoading /\ ~adjustmentsLoading' /\ \A l \in adjustmentLoads' : ~l.current BY <1>1, <1>5, <3>1
    <3>3. adjustmentsShown = Adjustments!Matching(adjustmentFilter) BY <2>5, <3>1, <3>2 DEF AdjustmentsIInv,
         ListKeepsUp
    <3>4. OtherAdjustments(adjustmentsShown)' = adjustmentsShown /\
            OtherAdjustments(Adjustments!Matching(adjustmentFilter))' = Adjustments!Matching(adjustmentFilter)
            BY <2>1, <2>3, <2>4
    <3> QED BY <3>1, <3>2, <3>3, <3>4 DEF ListKeepsUp
  <2> QED BY <1>2, <2>2, <2>6 DEF AdjustmentsIInv
<1> QED BY <1>6, <1>7, <1>8

(* The invariant holds throughout. *)
THEOREM AdjustmentsInvariant == Adjustments!Spec => []AdjustmentsIInv
<1>1. AdjustmentsIInv /\ [Adjustments!Next]_(Adjustments!vars) => AdjustmentsIInv'
  <2> SUFFICES ASSUME AdjustmentsIInv, [Adjustments!Next]_(Adjustments!vars) PROVE AdjustmentsIInv' OBVIOUS
  <2>1. CASE UNCHANGED Adjustments!vars
    BY <2>1 DEF Adjustments!vars, AdjustmentsIInv, AdjustmentLoads, ChangeIsStored, ListKeepsUp, OtherAdjustments,
         Adjustments!Matching
  <2>2. ASSUME NEW f \in ScopeFilter, Adjustments!SetFilter(f) PROVE AdjustmentsIInv' BY <2>2, AdjustmentsListed
  <2>3. ASSUME NEW l \in adjustmentLoads, Adjustments!Listed(l) \/ Adjustments!Loaded(l) \/ Adjustments!LoadFailed(l)
        PROVE AdjustmentsIInv'
    BY <2>3, AdjustmentsListed
  <2>4. ASSUME NEW s \in PayScope, Adjustments!OpenAdd(s) PROVE AdjustmentsIInv' BY <2>4, AdjustmentsDrafted
  <2>5. ASSUME NEW a \in adjustmentsShown,
       Adjustments!OpenEdit(a) \/ Adjustments!OpenDelete(a) PROVE AdjustmentsIInv' BY <2>5, AdjustmentsDrafted
  <2>6. ASSUME NEW d \in adjustmentDraft, Adjustments!Send(d) \/ \E s \in PayScope : Adjustments!ChangeDraft(d, s)
        PROVE AdjustmentsIInv'
    BY <2>6, AdjustmentsDrafted
  <2>7. CASE Adjustments!Close BY <2>7, AdjustmentsDrafted
  <2>8. ASSUME NEW r \in adjustmentRequest, Adjustments!Store(r) \/ Adjustments!Answered(r) \/
                 \E forbidden \in BOOLEAN : Adjustments!Failed(r, forbidden)
        PROVE  AdjustmentsIInv'
    BY <2>8, AdjustmentsChanged
  <2> QED BY <2>1, <2>2, <2>3, <2>4, <2>5, <2>6, <2>7, <2>8 DEF Adjustments!Next
<1> QED BY <1>1, AdjustmentsStart, PTL DEF Adjustments!Spec

(* The invariant gives that the list on show is that of the filters.       *)
THEOREM AdjustmentsHold == Adjustments!Spec => []Adjustments!ListMatchesFilters
<1>1. AdjustmentsIInv => Adjustments!ListMatchesFilters
  <2> SUFFICES ASSUME AdjustmentsIInv, adjustmentLoads = {}, adjustmentRequest = {}, ~adjustmentsMissed
               PROVE adjustmentsShown = Adjustments!Matching(adjustmentFilter)
    BY DEF Adjustments!ListMatchesFilters
  <2>1. ~adjustmentsLoading BY DEF AdjustmentsIInv, AdjustmentLoads
  <2>2. \A rows : OtherAdjustments(rows) = rows BY DEF OtherAdjustments
  <2> QED BY <2>1, <2>2 DEF AdjustmentsIInv, ListKeepsUp
<1> QED BY <1>1, AdjustmentsInvariant, PTL
-----------------------------------------------------------------------------
(* StaffPage: the roster.                                                  *)

(* A row that may be shown of a member: one that is stored, and with an    *)
(* account only where the stored member has one.                           *)
IsRosterRowOf(m, row) == m \in DOMAIN roster /\ row \in Roster!Row /\ (row.account => roster[m].account)

RosterOperations == {"toggle", "add", "edit", "account", "credentials"}
RosterRequestFields == {"op", "of", "active", "answer", "alone"}

RosterRows ==
  /\ \A m \in DOMAIN roster : roster[m] \in Roster!Row
  /\ \A e \in rosterShown : IsRosterRowOf(e[1], e[2])
  /\ \A l \in rosterLoads : \A rows \in l.answer : \A e \in rows : IsRosterRowOf(e[1], e[2])
  /\ \A d \in rosterDialog : d.active \in BOOLEAN /\ d.op \in RosterOperations /\
       (d.op # "add" => d.of \in DOMAIN roster)
                       /\ DOMAIN d = {"op", "of", "active", "done"}
  /\ \A r \in rosterRequests :
       /\ DOMAIN r = RosterRequestFields /\ r.active \in BOOLEAN /\ r.alone \in BOOLEAN /\ r.op \in RosterOperations
       /\ r.op # "add" => r.of \in DOMAIN roster
       /\ \A row \in r.answer : IsRosterRowOf(r.of, row)

(* The load that counts is for the filter, and is what is waited for.      *)
RosterLoads ==
  /\ \A k, l \in rosterLoads : k.current /\ l.current => k = l
  /\ \A l \in rosterLoads : DOMAIN l = {"filter", "current", "answer"} /\ l.current \in BOOLEAN
                      /\ (l.current => l.filter = rosterFilter)
  /\ rosterLoading \in BOOLEAN /\ (rosterLoading <=> \E l \in rosterLoads : l.current)

(* Only the replies to writes that met no other are what is stored.        *)
AloneIsStored ==
  \A r \in rosterRequests : r.alone =>
    rosterRequests = {r} /\ (r.op = "credentials" => \A row \in r.answer : row = roster[r.of])

(* A change of the roster that is stored but not answered.                 *)
RosterChanges == {"toggle", "add", "edit"}
NothingStored == \A r \in rosterRequests : r.op \in RosterChanges => r.answer = {}

(* The states of the members, without the accounts.                        *)
RosterStates(rows) == {<<e[1], e[2].active>> : e \in rows}

RosterKeepsUp ==
  ~rosterMissed /\ NothingStored =>
    /\ \A l \in rosterLoads : l.current => \A rows \in l.answer :
         RosterStates(rows) = RosterStates(Roster!Matching(rosterFilter))
    /\ ~rosterLoading => RosterStates(rosterShown) = RosterStates(Roster!Matching(rosterFilter))

RosterIInv == RosterRows /\ RosterLoads /\ AloneIsStored /\ RosterKeepsUp

(* The roster as it is first opened, while it loads.                       *)
LEMMA RosterStarts == Roster!Init => RosterIInv
<1> SUFFICES ASSUME Roster!Init PROVE RosterIInv OBVIOUS
<1> DEFINE k == Roster!Load(rosterFilter)
<1>1. DOMAIN k = {"filter", "current", "answer"} /\ k.current = TRUE /\ k.filter = rosterFilter /\ k.answer = {} BY
     DEF Roster!Load
<1>2. rosterLoads = {k} /\ rosterLoading = TRUE /\ rosterRequests = {} /\ rosterShown = {} /\ rosterDialog = {} BY
     DEF Roster!Init
<1>3. \A m \in DOMAIN roster : roster[m] \in Roster!Row
  <2>1. PICK i \in Person : roster \in [{i} -> Roster!Row] BY DEF Roster!Init
  <2> QED BY <2>1
<1> HIDE DEF k
<1>4. RosterRows BY <1>1, <1>2, <1>3 DEF RosterRows
<1>5. RosterLoads BY <1>1, <1>2 DEF RosterLoads
<1>6. AloneIsStored BY <1>2 DEF AloneIsStored
<1>7. RosterKeepsUp BY <1>1, <1>2 DEF RosterKeepsUp
<1> QED BY <1>4, <1>5, <1>6, <1>7 DEF RosterIInv

(* Loading again gives up the loads before, and nothing is missed.         *)
LEMMA RosterReloads ==
  ASSUME RosterIInv, NEW f, Roster!Reload(f), rosterFilter' = f, roster' = roster,
         \A e \in rosterShown' : IsRosterRowOf(e[1], e[2]),
         \A d \in rosterDialog' : d \in rosterDialog,
         \A r \in rosterRequests' : r \in rosterRequests
  PROVE  RosterIInv'
<1> DEFINE k == Roster!Load(f)
<1>1. DOMAIN k = {"filter", "current", "answer"} /\ k.current = TRUE /\ k.filter = f /\ k.answer = {} BY
     DEF Roster!Load
<1>2. rosterLoads' = {[l EXCEPT !.current = FALSE] : l \in rosterLoads} \cup {k} /\ rosterLoading' = TRUE BY
     DEF Roster!Reload
<1> HIDE DEF k
<1>3. ASSUME NEW l \in rosterLoads, NEW n, n = [l EXCEPT !.current = FALSE]
      PROVE  DOMAIN n = {"filter", "current", "answer"} /\ n.current = FALSE /\ n.answer = l.answer
  BY <1>3 DEF RosterIInv, RosterLoads
<1>4. \A n \in rosterLoads' : n = k \/ (DOMAIN n = {"filter", "current", "answer"} /\ n.current = FALSE
                                        /\ \E l \in rosterLoads : n.answer = l.answer)
  BY <1>2, <1>3
<1>5. \A m, row : IsRosterRowOf(m, row)' <=> IsRosterRowOf(m, row) BY DEF IsRosterRowOf, Roster!Row
<1>6. RosterRows'
  <2>1. \A n \in rosterLoads' : \A rows \in n.answer : \A e \in rows : IsRosterRowOf(e[1], e[2])
    BY <1>1, <1>4 DEF RosterIInv, RosterRows
  <2> QED BY <1>5, <2>1 DEF RosterIInv, RosterRows
<1>7. RosterLoads' BY <1>1, <1>2, <1>4 DEF RosterLoads
<1>8. AloneIsStored' BY DEF RosterIInv, AloneIsStored
<1>9. RosterKeepsUp' BY <1>1, <1>2, <1>4 DEF RosterKeepsUp
<1> QED BY <1>6, <1>7, <1>8, <1>9 DEF RosterIInv

(* The list is chosen, and its loads are answered.                         *)
LEMMA RosterListed ==
  ASSUME RosterIInv,
           (\E f \in StateFilter : Roster!SetFilter(f)) \/ \E l \in rosterLoads : Roster!Listed(l) \/
             Roster!Loaded(l) \/ Roster!LoadFailed(l)
  PROVE  RosterIInv'
<1>1. UNCHANGED <<roster, rosterDialog, rosterRequests>> BY DEF Roster!SetFilter, Roster!Listed, Roster!Loaded,
     Roster!LoadFailed
<1>2. \A m, row : IsRosterRowOf(m, row)' <=> IsRosterRowOf(m, row) BY <1>1 DEF IsRosterRowOf, Roster!Row
<1>3. \A f : Roster!Matching(f)' = Roster!Matching(f) BY <1>1 DEF Roster!Matching
<1>4. AloneIsStored' BY <1>1 DEF RosterIInv, AloneIsStored
<1>5. ASSUME NEW f \in StateFilter, Roster!SetFilter(f) PROVE RosterIInv'
  <2>1. Roster!Reload(f) /\ rosterFilter' = f /\ rosterShown' = rosterShown BY <1>5 DEF Roster!SetFilter
  <2>2. \A e \in rosterShown' : IsRosterRowOf(e[1], e[2]) BY <2>1 DEF RosterIInv, RosterRows
  <2> QED BY <1>1, <2>1, <2>2, RosterReloads
<1>6. ASSUME NEW l \in rosterLoads, Roster!Listed(l) PROVE RosterIInv'
  <2> DEFINE k == [l EXCEPT !.answer = {Roster!Matching(l.filter)}]
  <2>1. rosterLoads' = (rosterLoads \ {l}) \cup {k} /\
          UNCHANGED <<rosterFilter, rosterShown, rosterLoading, rosterMissed>> BY <1>6 DEF Roster!Listed
  <2>2. /\ DOMAIN k = {"filter", "current", "answer"} /\ k.current = l.current /\ k.filter = l.filter
        /\ k.answer = {Roster!Matching(l.filter)} /\ l.current \in BOOLEAN
    BY DEF RosterIInv, RosterLoads
  <2> HIDE DEF k
  <2>3. \A e \in Roster!Matching(l.filter) : IsRosterRowOf(e[1], e[2]) BY DEF RosterIInv, RosterRows, Roster!Matching,
       IsRosterRowOf
  <2>4. RosterRows' BY <1>1, <1>2, <2>1, <2>2, <2>3 DEF RosterIInv, RosterRows
  <2>5. (\E m \in rosterLoads' : m.current) <=> \E m \in rosterLoads : m.current BY <2>1, <2>2
  <2>6. RosterLoads' BY <2>1, <2>2, <2>5 DEF RosterIInv, RosterLoads
  <2>7. NothingStored' <=> NothingStored BY <1>1 DEF NothingStored
  <2>8. RosterStates(rosterShown)' = RosterStates(rosterShown) /\ \A rows : RosterStates(rows)' = RosterStates(rows)
          BY <2>1 DEF RosterStates
  <2>9. Roster!Matching(rosterFilter)' = Roster!Matching(rosterFilter) BY <1>3, <2>1
  <2>10. l.current => l.filter = rosterFilter BY DEF RosterIInv, RosterLoads
  <2>11. RosterKeepsUp' BY <1>3, <2>1, <2>2, <2>7, <2>8, <2>9, <2>10 DEF RosterIInv, RosterKeepsUp
  <2> QED BY <1>4, <2>4, <2>6, <2>11 DEF RosterIInv
<1>7. ASSUME NEW l \in rosterLoads, Roster!Loaded(l) \/ Roster!LoadFailed(l) PROVE RosterIInv'
  <2>1. rosterLoads' = rosterLoads \ {l} /\ rosterLoading' = (rosterLoading /\ ~l.current) /\
          rosterFilter' = rosterFilter
    BY <1>7 DEF Roster!Loaded, Roster!LoadFailed, Roster!IsCurrent
  <2>2. RosterLoads' BY <2>1 DEF RosterIInv, RosterLoads
  <2>3. rosterShown' = rosterShown \/ (l.current /\ Roster!Loaded(l) /\ rosterShown' \in l.answer)
    <3>1. CASE Roster!Loaded(l) BY <3>1 DEF Roster!Loaded, Roster!IsCurrent
    <3>2. CASE Roster!LoadFailed(l) BY <3>2 DEF Roster!LoadFailed
    <3> QED BY <1>7, <3>1, <3>2
  <2>4. RosterRows' BY <1>1, <1>2, <2>1, <2>3 DEF RosterIInv, RosterRows
  <2>5. ~rosterMissed' => ~rosterMissed /\ (Roster!LoadFailed(l) => ~l.current)
    <3>1. CASE Roster!Loaded(l) /\ ~Roster!LoadFailed(l) BY <3>1 DEF Roster!Loaded
    <3>2. CASE Roster!LoadFailed(l) BY <3>2 DEF Roster!LoadFailed
    <3> QED BY <1>7, <3>1, <3>2
  <2>6. RosterKeepsUp'
    <3> SUFFICES ASSUME ~rosterMissed', NothingStored' PROVE RosterKeepsUp' BY DEF RosterKeepsUp
    <3>1. ~rosterMissed /\ NothingStored BY <1>1, <2>5 DEF NothingStored
    <3>2. \A rows : RosterStates(rows)' = RosterStates(rows) BY DEF RosterStates
    <3>3. Roster!Matching(rosterFilter)' = Roster!Matching(rosterFilter) BY <1>3, <2>1
    <3>4. \A k \in rosterLoads' : k.current => \A rows \in k.answer :
            RosterStates(rows)' = RosterStates(Roster!Matching(rosterFilter))'
      BY <2>1, <3>1, <3>2, <3>3 DEF RosterIInv, RosterKeepsUp
    <3>5. ~rosterLoading' => RosterStates(rosterShown)' = RosterStates(Roster!Matching(rosterFilter))'
      <4>1. CASE ~l.current
        <5>1. rosterShown' = rosterShown /\ (rosterLoading' <=> rosterLoading) BY <2>1, <2>3, <4>1
        <5> QED BY <3>1, <3>2, <3>3, <5>1 DEF RosterIInv, RosterKeepsUp
      <4>2. CASE l.current
        <5>1. Roster!Loaded(l) /\ rosterShown' \in l.answer BY <1>7, <2>5, <4>2 DEF Roster!Loaded, Roster!IsCurrent
        <5> QED BY <3>1, <3>2, <3>3, <4>2, <5>1 DEF RosterIInv, RosterKeepsUp
      <4> QED BY <4>1, <4>2
    <3> QED BY <3>4, <3>5 DEF RosterKeepsUp
  <2> QED BY <1>4, <2>2, <2>4, <2>6 DEF RosterIInv
<1> QED BY <1>5, <1>6, <1>7
(* What is switched, opened, typed and sent.                               *)
LEMMA RosterSent ==
  ASSUME RosterIInv,
         \/ \E e \in rosterShown : Roster!ToggleActive(e[1], e[2])
         \/ \E e \in rosterShown : \E op \in Roster!Offered(e[2]) : Roster!OpenDialog(op, e[1], e[2].active)
         \/ \E m \in Person \ DOMAIN roster : Roster!OpenDialog("add", m, TRUE)
         \/ \E d \in rosterDialog : Roster!ChangeDraft(d) \/ Roster!Submit(d) \/ Roster!Close(d)
  PROVE  RosterIInv'
<1>1. UNCHANGED <<roster, rosterFilter, rosterShown, rosterLoading, rosterLoads, rosterMissed>>
  BY DEF Roster!ToggleActive, Roster!OpenDialog, Roster!ChangeDraft, Roster!Submit, Roster!Close
<1>2. \A m, row : IsRosterRowOf(m, row)' <=> IsRosterRowOf(m, row) BY <1>1 DEF IsRosterRowOf, Roster!Row
<1>3. Roster!Matching(rosterFilter)' = Roster!Matching(rosterFilter) /\ \A rows :
        RosterStates(rows)' = RosterStates(rows) BY <1>1 DEF Roster!Matching, RosterStates
<1>4. RosterLoads' BY <1>1 DEF RosterIInv, RosterLoads
<1>6. \/ /\ rosterRequests' = rosterRequests
         /\ \A d \in rosterDialog' : /\ DOMAIN d = {"op", "of", "active", "done"} /\ d.active \in BOOLEAN
                                     /\ d.op \in RosterOperations
                                     /\ d.op # "add" => d.of \in DOMAIN roster
      \/ /\ rosterDialog' = rosterDialog
         /\ \E op, of, isActive :
              /\ Roster!Send(op, of, isActive) /\ isActive \in BOOLEAN /\ op \in RosterOperations
              /\ op # "add" => of \in DOMAIN roster
  <2>1. ASSUME NEW e \in rosterShown, Roster!ToggleActive(e[1], e[2]) PROVE <1>6!2
    <3>1. Roster!Send("toggle", e[1], ~e[2].active) /\ rosterDialog' = rosterDialog BY <2>1 DEF Roster!ToggleActive
    <3>2. e[1] \in DOMAIN roster BY DEF RosterIInv, RosterRows, IsRosterRowOf
    <3> QED BY <3>1, <3>2 DEF RosterOperations
  <2>2. ASSUME NEW e \in rosterShown, NEW op \in Roster!Offered(e[2]), Roster!OpenDialog(op, e[1], e[2].active)
        PROVE <1>6!1
    <3> DEFINE d == [op |-> op, of |-> e[1], active |-> e[2].active, done |-> FALSE]
    <3>1. rosterDialog' = {d} /\ rosterRequests' = rosterRequests BY <2>2 DEF Roster!OpenDialog
    <3>2. /\ DOMAIN d = {"op", "of", "active", "done"} /\ d.active = e[2].active /\ d.of = e[1] /\ d.op = op
      OBVIOUS
    <3>3. e[1] \in DOMAIN roster /\ e[2].active \in BOOLEAN BY DEF RosterIInv, RosterRows, IsRosterRowOf, Roster!Row
    <3>4. op \in RosterOperations BY DEF Roster!Offered, RosterOperations
    <3> HIDE DEF d
    <3> QED BY <3>1, <3>2, <3>3, <3>4
  <2>3. ASSUME NEW m \in Person \ DOMAIN roster, Roster!OpenDialog("add", m, TRUE) PROVE <1>6!1
    <3> DEFINE d == [op |-> "add", of |-> m, active |-> TRUE, done |-> FALSE]
    <3>1. rosterDialog' = {d} /\ rosterRequests' = rosterRequests BY <2>3 DEF Roster!OpenDialog
    <3>2. /\ DOMAIN d = {"op", "of", "active", "done"} /\ d.active = TRUE /\ d.op = "add"
      OBVIOUS
    <3> HIDE DEF d
    <3> QED BY <3>1, <3>2 DEF RosterOperations
  <2>4. ASSUME NEW c \in rosterDialog, Roster!ChangeDraft(c) PROVE <1>6!1
    <3> DEFINE d == [c EXCEPT !.active = ~c.active]
    <3>1. rosterDialog' = {d} /\ rosterRequests' = rosterRequests BY <2>4 DEF Roster!ChangeDraft
    <3>2. DOMAIN c = {"op", "of", "active", "done"} /\ (c.op # "add" => c.of \in DOMAIN roster) /\
            c.op \in RosterOperations
      BY DEF RosterIInv, RosterRows
    <3>3. /\ DOMAIN d = {"op", "of", "active", "done"} /\ d.active = ~c.active /\ d.op = c.op /\ d.of = c.of
      BY <3>2
    <3> HIDE DEF d
    <3> QED BY <3>1, <3>2, <3>3
  <2>5. ASSUME NEW d \in rosterDialog, Roster!Submit(d) PROVE <1>6!2
    <3>1. Roster!Send(d.op, d.of, d.active) /\ rosterDialog' = rosterDialog BY <2>5 DEF Roster!Submit
    <3>2. d.active \in BOOLEAN /\ (d.op # "add" => d.of \in DOMAIN roster) /\ d.op \in RosterOperations BY
         DEF RosterIInv, RosterRows
    <3> QED BY <3>1, <3>2
  <2>6. ASSUME NEW d \in rosterDialog, Roster!Close(d) PROVE <1>6!1 BY <2>6 DEF Roster!Close
  <2> QED BY <2>1, <2>2, <2>3, <2>4, <2>5, <2>6
<1>7. CASE <1>6!1
  <2>1. RosterRows' BY <1>1, <1>2, <1>7 DEF RosterIInv, RosterRows
  <2>2. AloneIsStored' BY <1>1, <1>7 DEF RosterIInv, AloneIsStored
  <2>3. NothingStored' <=> NothingStored BY <1>7 DEF NothingStored
  <2>4. RosterKeepsUp' BY <1>1, <1>3, <2>3 DEF RosterIInv, RosterKeepsUp
  <2> QED BY <1>4, <2>1, <2>2, <2>4 DEF RosterIInv
<1>8. CASE <1>6!2
  <2>1. PICK op, of, isActive :
         Roster!Send(op, of, isActive) /\ isActive \in BOOLEAN /\ op \in RosterOperations /\
           (op # "add" => of \in DOMAIN roster)
    BY <1>8
  <2> DEFINE new == [op |-> op, of |-> of, active |-> isActive, answer |-> {}, alone |-> rosterRequests = {}]
  <2>2. /\ DOMAIN new = RosterRequestFields /\ new.op = op /\ new.of = of /\ new.active = isActive /\ new.answer = {}
        /\ new.alone \in BOOLEAN /\ (new.alone <=> rosterRequests = {})
    BY DEF RosterRequestFields
  <2>3. rosterRequests' = {[r EXCEPT !.alone = FALSE] : r \in rosterRequests} \cup {new} BY <2>1 DEF Roster!Send
  <2> HIDE DEF new
  <2>4. ASSUME NEW r \in rosterRequests, NEW q, q = [r EXCEPT !.alone = FALSE]
        PROVE  /\ DOMAIN q = RosterRequestFields /\ q.op = r.op /\ q.of = r.of /\ q.active = r.active
               /\ q.answer = r.answer /\ q.alone = FALSE
    BY <2>4 DEF RosterIInv, RosterRows, RosterRequestFields
  <2>5. \A q \in rosterRequests' : q = new \/ \E r \in rosterRequests :
             /\ DOMAIN q = RosterRequestFields /\ q.op = r.op /\ q.of = r.of /\ q.active = r.active
             /\ q.answer = r.answer /\ q.alone = FALSE
    BY <2>3, <2>4
  <2>6. RosterRows'
    <3>1. \A q \in rosterRequests' : /\ DOMAIN q = RosterRequestFields /\ q.active \in BOOLEAN /\ q.alone \in BOOLEAN /\ q.op \in RosterOperations
                                     /\ q.op # "add" => q.of \in DOMAIN roster
                                     /\ \A row \in q.answer : IsRosterRowOf(q.of, row)
      BY <2>1, <2>2, <2>5 DEF RosterIInv, RosterRows
    <3> QED BY <1>1, <1>2, <1>8, <3>1 DEF RosterIInv, RosterRows
  <2>7. AloneIsStored'
    <3>1. \A q \in rosterRequests' : q.alone => q = new /\ rosterRequests = {} BY <2>2, <2>5
    <3>2. rosterRequests = {} => rosterRequests' = {new} BY <2>3
    <3> QED BY <2>2, <3>1, <3>2 DEF AloneIsStored
  <2>8. NothingStored' => NothingStored
    <3>1. ASSUME NEW r \in rosterRequests PROVE \E q \in rosterRequests' : q.op = r.op /\ q.answer = r.answer
      <4>1. PICK q : q = [r EXCEPT !.alone = FALSE] OBVIOUS
      <4>2. q \in rosterRequests' BY <2>3, <4>1
      <4> QED BY <2>4, <4>1, <4>2
    <3> QED BY <3>1 DEF NothingStored
  <2>9. RosterKeepsUp' BY <1>1, <1>3, <2>8 DEF RosterIInv, RosterKeepsUp
  <2> QED BY <1>4, <2>6, <2>7, <2>9 DEF RosterIInv
<1> QED BY <1>6, <1>7, <1>8

(* The states of the members that are let through.                         *)
LEMMA StatesOfMatching ==
  ASSUME NEW s, NEW f
  PROVE  RosterStates({<<i, s[i]>> : i \in {j \in DOMAIN s : s[j].active \in f}}) =
           {<<i, s[i].active>> : i \in {j \in DOMAIN s : s[j].active \in f}}
<1>1. ASSUME NEW i PROVE <<i, s[i]>>[1] = i /\ <<i, s[i]>>[2] = s[i] OBVIOUS
<1>2. RosterStates({<<i, s[i]>> : i \in {j \in DOMAIN s : s[j].active \in f}}) =
        {<<<<i, s[i]>>[1], <<i, s[i]>>[2].active>> : i \in {j \in DOMAIN s : s[j].active \in f}}
  BY DEF RosterStates
<1> QED BY <1>1, <1>2

(* A write is stored.                                                      *)
LEMMA RosterStored ==
  ASSUME RosterIInv, NEW r \in rosterRequests, Roster!Store(r)
  PROVE  RosterIInv'
<1>0. PICK after : after = Roster!After(r) OBVIOUS
<1> DEFINE q == [r EXCEPT !.answer = {after}]
<1>1. /\ Roster!Accepts(r) /\ rosterRequests' = (rosterRequests \ {r}) \cup {q}
      /\ roster' = [m \in DOMAIN roster \cup {r.of} |-> IF m = r.of THEN after ELSE roster[m]]
      /\ UNCHANGED <<rosterFilter, rosterShown, rosterLoading, rosterLoads, rosterDialog, rosterMissed>>
  BY <1>0 DEF Roster!Store
<1>2. DOMAIN r = RosterRequestFields /\ r.active \in BOOLEAN /\ r.alone \in BOOLEAN /\ r.op \in RosterOperations /\
        (r.op # "add" => r.of \in DOMAIN roster)
  BY DEF RosterIInv, RosterRows
<1>3. /\ DOMAIN q = RosterRequestFields /\ q.op = r.op /\ q.of = r.of /\ q.active = r.active /\ q.alone = r.alone
      /\ q.answer = {after}
  BY <1>2 DEF RosterRequestFields
<1> HIDE DEF q
<1>4. /\ after \in Roster!Row
      /\ r.op # "add" => (roster[r.of].account => after.account)
      /\ r.op \in {"account", "credentials"} => after.active = roster[r.of].active
  <2>1. r.op # "add" => roster[r.of] \in Roster!Row BY <1>2 DEF RosterIInv, RosterRows
  <2>2. CASE r.op = "add"
    <3>1. after = [active |-> r.active, account |-> FALSE] BY <1>0, <2>2 DEF Roster!After
    <3> QED BY <1>2, <2>2, <3>1 DEF Roster!Row
  <2>3. CASE r.op = "account"
    <3>1. after = [roster[r.of] EXCEPT !.account = TRUE] BY <1>0, <2>3 DEF Roster!After
    <3> QED BY <2>1, <2>3, <3>1 DEF Roster!Row
  <2>4. CASE r.op = "credentials"
    <3>1. after = roster[r.of] BY <1>0, <2>4 DEF Roster!After
    <3> QED BY <2>1, <2>4, <3>1 DEF Roster!Row
  <2>5. CASE r.op \notin {"add", "account", "credentials"}
    <3>1. after = [roster[r.of] EXCEPT !.active = r.active] BY <1>0, <2>5 DEF Roster!After
    <3>2. after \in Roster!Row /\ after.account = roster[r.of].account BY <1>2, <2>1, <2>5, <3>1 DEF Roster!Row
    <3> QED BY <2>5, <3>2 DEF RosterChanges
  <2> QED BY <2>2, <2>3, <2>4, <2>5
<1>5. \A m, row : IsRosterRowOf(m, row) => IsRosterRowOf(m, row)'
  <2> SUFFICES ASSUME NEW m, NEW row, IsRosterRowOf(m, row) PROVE IsRosterRowOf(m, row)' OBVIOUS
  <2>1. m \in DOMAIN roster /\ row \in Roster!Row /\ (row.account => roster[m].account) BY DEF IsRosterRowOf
  <2>2. r.op = "add" => r.of \notin DOMAIN roster BY <1>1 DEF Roster!Accepts
  <2>3. m \in DOMAIN roster' /\ (m # r.of => roster'[m] = roster[m]) /\ (m = r.of => roster'[m] = after)
    BY <1>1, <2>1
  <2>4. row.account => roster'[m].account BY <1>4, <2>1, <2>2, <2>3
  <2> QED BY <2>1, <2>3, <2>4 DEF IsRosterRowOf, Roster!Row
<1>6. r.of \in DOMAIN roster' /\ roster'[r.of] = after /\ IsRosterRowOf(r.of, after)'
  BY <1>1, <1>4 DEF IsRosterRowOf, Roster!Row
<1>7. RosterRows'
  <2>1. \A m \in DOMAIN roster' : roster'[m] \in Roster!Row BY <1>1, <1>4 DEF RosterIInv, RosterRows
  <2>2. \A e \in rosterShown' : IsRosterRowOf(e[1], e[2])' BY <1>1, <1>5 DEF RosterIInv, RosterRows
  <2>3. \A l \in rosterLoads' : \A rows \in l.answer : \A e \in rows : IsRosterRowOf(e[1], e[2])'
    BY <1>1, <1>5 DEF RosterIInv, RosterRows
  <2>4. DOMAIN roster \subseteq DOMAIN roster' BY <1>1
  <2>5. \A d \in rosterDialog' : d.active \in BOOLEAN /\ d.op \in RosterOperations /\
          (d.op # "add" => d.of \in DOMAIN roster')
                           /\ DOMAIN d = {"op", "of", "active", "done"}
    BY <1>1, <2>4 DEF RosterIInv, RosterRows
  <2>6. \A x \in rosterRequests' : /\ DOMAIN x = RosterRequestFields /\ x.active \in BOOLEAN /\ x.alone \in BOOLEAN /\ x.op \in RosterOperations
                                   /\ x.op # "add" => x.of \in DOMAIN roster'
                                   /\ \A row \in x.answer : IsRosterRowOf(x.of, row)'
    BY <1>1, <1>2, <1>3, <1>5, <1>6, <2>4 DEF RosterIInv, RosterRows
  <2>7. Roster!Row' = Roster!Row BY DEF Roster!Row
  <2> QED BY <2>1, <2>2, <2>3, <2>5, <2>6, <2>7 DEF RosterRows
<1>8. RosterLoads' BY <1>1 DEF RosterIInv, RosterLoads
<1>9. AloneIsStored'
  <2> SUFFICES ASSUME NEW x \in rosterRequests', x.alone
               PROVE  rosterRequests' = {x} /\ (x.op = "credentials" => \A row \in x.answer : row = roster'[x.of])
    BY DEF AloneIsStored
  <2>1. CASE x = q
    <3>1. rosterRequests = {r} BY <1>3, <2>1 DEF RosterIInv, AloneIsStored
    <3> QED BY <1>1, <1>3, <1>6, <2>1, <3>1
  <2>2. CASE x # q
    <3>1. x \in rosterRequests /\ x # r BY <1>1, <2>2
    <3>2. rosterRequests = {x} BY <3>1 DEF RosterIInv, AloneIsStored
    <3> QED BY <3>1, <3>2
  <2> QED BY <2>1, <2>2
<1>10. RosterKeepsUp'
  <2> SUFFICES ASSUME ~rosterMissed', NothingStored' PROVE RosterKeepsUp' BY DEF RosterKeepsUp
  <2>1. r.op \notin RosterChanges BY <1>1, <1>3 DEF NothingStored
  <2>2. NothingStored BY <1>1, <2>1 DEF NothingStored
  <2>3. \A rows : RosterStates(rows)' = RosterStates(rows) BY DEF RosterStates
  <2>4. r.op # "add" /\ after.active = roster[r.of].active BY <1>2, <1>4, <2>1 DEF RosterChanges, RosterOperations
  <2>5. DOMAIN roster' = DOMAIN roster /\ \A m \in DOMAIN roster : roster'[m].active = roster[m].active
    BY <1>1, <1>2, <2>4
  <2>6. RosterStates(Roster!Matching(rosterFilter))' = RosterStates(Roster!Matching(rosterFilter))
    <3>1. RosterStates(Roster!Matching(rosterFilter)) = {<<m, roster[m].active>> :
            m \in {n \in DOMAIN roster : roster[n].active \in rosterFilter}}
      BY StatesOfMatching DEF Roster!Matching
    <3>2. Roster!Matching(rosterFilter)' = {<<m, roster'[m]>> :
            m \in {n \in DOMAIN roster' : roster'[n].active \in rosterFilter}}
      BY <1>1 DEF Roster!Matching
    <3>3. RosterStates(Roster!Matching(rosterFilter))' = RosterStates(Roster!Matching(rosterFilter)') BY
         DEF RosterStates
    <3>4. RosterStates(Roster!Matching(rosterFilter)') = {<<m, roster'[m].active>> :
            m \in {n \in DOMAIN roster' : roster'[n].active \in rosterFilter}}
      BY <3>2, StatesOfMatching
    <3> QED BY <2>5, <3>1, <3>3, <3>4
  <2> QED BY <1>1, <2>2, <2>3, <2>6 DEF RosterIInv, RosterKeepsUp
<1> QED BY <1>7, <1>8, <1>9, <1>10 DEF RosterIInv

(* A row that is replaced is replaced by one that is stored.               *)
LEMMA PatchedRows ==
  ASSUME RosterIInv, NEW r \in rosterRequests
  PROVE  \A e \in Roster!Patched(r) : IsRosterRowOf(e[1], e[2])
<1> SUFFICES ASSUME NEW e \in Roster!Patched(r) PROVE IsRosterRowOf(e[1], e[2]) OBVIOUS
<1>1. PICK c \in rosterShown, row \in r.answer : e = IF c[1] = r.of THEN <<r.of, row>> ELSE c BY DEF Roster!Patched
<1>2. IsRosterRowOf(c[1], c[2]) /\ IsRosterRowOf(r.of, row) BY DEF RosterIInv, RosterRows
<1>3. CASE c[1] = r.of
  <2>1. e[1] = r.of /\ e[2] = row BY <1>1, <1>3
  <2> QED BY <1>2, <2>1
<1>4. CASE c[1] # r.of BY <1>1, <1>2, <1>4
<1> QED BY <1>3, <1>4

(* An answer to a switch or to a form loads the list again.                *)
LEMMA RosterRefreshed ==
  ASSUME RosterIInv, NEW r \in rosterRequests, Roster!Toggled(r) \/ Roster!Saved(r)
  PROVE  RosterIInv'
<1>1. Roster!Reload(rosterFilter) /\ rosterFilter' = rosterFilter /\ roster' = roster /\
        rosterRequests' = rosterRequests \ {r}
  BY DEF Roster!Toggled, Roster!Saved, Roster!Refreshed
<1>2. rosterDialog' = rosterDialog \/ rosterDialog' = {} BY DEF Roster!Toggled, Roster!Saved
<1>3. rosterShown' = rosterShown \/ rosterShown' = Roster!Patched(r) BY DEF Roster!Toggled, Roster!Saved
<1>4. \A e \in rosterShown' : IsRosterRowOf(e[1], e[2])
  BY <1>3, PatchedRows DEF RosterIInv, RosterRows
<1>5. (\A d \in rosterDialog' : d \in rosterDialog) /\ \A q \in rosterRequests' : q \in rosterRequests BY <1>1, <1>2
<1> QED BY <1>1, <1>4, <1>5, RosterReloads

(* The answers after which the list is not loaded.                         *)
LEMMA RosterKept ==
  ASSUME RosterIInv, NEW r \in rosterRequests,
         Roster!AccountMade(r) \/ Roster!CredentialsReplaced(r) \/ Roster!Failed(r)
  PROVE  RosterIInv'
<1>1. UNCHANGED <<roster, rosterFilter, rosterLoading, rosterLoads>> /\ rosterRequests' = rosterRequests \ {r}
  BY DEF Roster!AccountMade, Roster!CredentialsReplaced, Roster!Failed
<1>2. \A m, row : IsRosterRowOf(m, row)' <=> IsRosterRowOf(m, row) BY <1>1 DEF IsRosterRowOf, Roster!Row
<1>3. Roster!Matching(rosterFilter)' = Roster!Matching(rosterFilter) /\ \A rows :
        RosterStates(rows)' = RosterStates(rows) BY <1>1 DEF Roster!Matching, RosterStates
<1>4. RosterLoads' BY <1>1 DEF RosterIInv, RosterLoads
<1>5. \A d \in rosterDialog' : /\ DOMAIN d = {"op", "of", "active", "done"} /\ d.active \in BOOLEAN
                               /\ d.op \in RosterOperations /\ (d.op # "add" => d.of \in DOMAIN roster)
  <2>1. CASE rosterDialog' = rosterDialog BY <2>1 DEF RosterIInv, RosterRows
  <2>2. CASE rosterDialog' = {[d EXCEPT !.done = TRUE] : d \in rosterDialog}
    <3> SUFFICES ASSUME NEW d \in rosterDialog, NEW k, k = [d EXCEPT !.done = TRUE]
                 PROVE  /\ DOMAIN k = {"op", "of", "active", "done"} /\ k.active \in BOOLEAN
                        /\ k.op \in RosterOperations /\ (k.op # "add" => k.of \in DOMAIN roster)
      BY <2>2
    <3>1. /\ DOMAIN d = {"op", "of", "active", "done"} /\ d.active \in BOOLEAN
          /\ d.op \in RosterOperations /\ (d.op # "add" => d.of \in DOMAIN roster)
      BY DEF RosterIInv, RosterRows
    <3>2. DOMAIN k = DOMAIN d /\ k.active = d.active /\ k.op = d.op /\ k.of = d.of BY <3>1
    <3> QED BY <3>1, <3>2
  <2> QED BY <2>1, <2>2 DEF Roster!AccountMade, Roster!CredentialsReplaced, Roster!Failed
<1>6. rosterShown' = rosterShown \/ rosterShown' = Roster!Patched(r) BY DEF Roster!AccountMade,
     Roster!CredentialsReplaced, Roster!Failed
<1>7. RosterRows'
  <2>1. \A e \in rosterShown' : IsRosterRowOf(e[1], e[2]) BY <1>6, PatchedRows DEF RosterIInv, RosterRows
  <2> QED BY <1>1, <1>2, <1>5, <2>1 DEF RosterIInv, RosterRows
<1>8. AloneIsStored' BY <1>1 DEF RosterIInv, AloneIsStored
<1>9. RosterKeepsUp'
  <2> SUFFICES ASSUME ~rosterMissed', NothingStored' PROVE RosterKeepsUp' BY DEF RosterKeepsUp
  <2>1. ~rosterMissed /\ (Roster!CredentialsReplaced(r) => r.alone) /\ (Roster!Failed(r) => r.answer = {})
    <3>1. CASE Roster!AccountMade(r) /\ ~Roster!CredentialsReplaced(r) /\ ~Roster!Failed(r) BY <3>1
         DEF Roster!AccountMade
    <3>2. CASE Roster!CredentialsReplaced(r) /\ ~Roster!Failed(r) BY <3>2 DEF Roster!CredentialsReplaced
    <3>3. CASE Roster!Failed(r) /\ ~Roster!CredentialsReplaced(r) BY <3>3 DEF Roster!Failed
    <3>4. CASE Roster!Failed(r) /\ Roster!CredentialsReplaced(r) BY <3>4 DEF Roster!Failed, Roster!CredentialsReplaced
    <3> QED BY <3>1, <3>2, <3>3, <3>4
  <2>2. NothingStored
    <3>1. r.op \in RosterChanges => r.answer = {} BY <2>1 DEF Roster!AccountMade, Roster!CredentialsReplaced,
         RosterChanges
    <3> QED BY <1>1, <3>1 DEF NothingStored
  <2>3. \A l \in rosterLoads : l.current => \A rows \in l.answer :
          RosterStates(rows) = RosterStates(Roster!Matching(rosterFilter))
    BY <2>1, <2>2 DEF RosterIInv, RosterKeepsUp
  <2>4. ~rosterLoading => RosterStates(rosterShown') = RosterStates(Roster!Matching(rosterFilter))
    <3> SUFFICES ASSUME ~rosterLoading
                 PROVE RosterStates(rosterShown') = RosterStates(Roster!Matching(rosterFilter)) OBVIOUS
    <3>1. RosterStates(rosterShown) = RosterStates(Roster!Matching(rosterFilter)) BY <2>1, <2>2 DEF RosterIInv,
         RosterKeepsUp
    <3>2. CASE Roster!CredentialsReplaced(r)
      <4>1. r.alone /\ r.op = "credentials" /\ r.answer # {} BY <2>1, <3>2 DEF Roster!CredentialsReplaced
      <4>2. r.answer = {roster[r.of]} BY <4>1 DEF RosterIInv, AloneIsStored
      <4> DEFINE s == roster[r.of]  mark(e) == <<e[1], e[2].active>>
                 new(e) == IF e[1] = r.of THEN <<r.of, s>> ELSE e
      <4>3. rosterShown' = {new(e) : e \in rosterShown} BY <3>2, <4>2 DEF Roster!CredentialsReplaced, Roster!Patched
      <4>4. ASSUME NEW e \in rosterShown PROVE mark(new(e)) = mark(e)
        <5>1. CASE e[1] = r.of
          <6>1. mark(e) \in RosterStates(Roster!Matching(rosterFilter)) BY <3>1 DEF RosterStates
          <6>2. RosterStates(Roster!Matching(rosterFilter)) = {<<m, roster[m].active>> :
                  m \in {n \in DOMAIN roster : roster[n].active \in rosterFilter}}
            BY StatesOfMatching DEF Roster!Matching
          <6>3. PICK m \in DOMAIN roster : <<e[1], e[2].active>> = <<m, roster[m].active>> BY <6>1, <6>2
          <6>4. m = r.of /\ e[2].active = s.active BY <5>1, <6>3
          <6>5. new(e) = <<r.of, s>> BY <5>1
          <6>6. new(e)[1] = r.of /\ new(e)[2] = s BY <6>5
          <6> QED BY <5>1, <6>4, <6>6
        <5>2. CASE e[1] # r.of BY <5>2
        <5> QED BY <5>1, <5>2
      <4> HIDE DEF new
      <4>5. RosterStates(rosterShown') = {mark(new(e)) : e \in rosterShown} BY <4>3 DEF RosterStates
      <4>6. RosterStates(rosterShown') = {mark(e) : e \in rosterShown} BY <4>4, <4>5
      <4> QED BY <3>1, <4>6 DEF RosterStates
    <3>3. CASE ~Roster!CredentialsReplaced(r)
      <4>1. rosterShown' = rosterShown BY <3>3 DEF Roster!AccountMade, Roster!Failed
      <4> QED BY <3>1, <4>1
    <3> QED BY <3>2, <3>3
  <2> QED BY <1>1, <1>3, <2>3, <2>4 DEF RosterKeepsUp
<1> QED BY <1>4, <1>7, <1>8, <1>9 DEF RosterIInv

(* The invariant holds throughout. *)
THEOREM RosterInvariant == Roster!Spec => []RosterIInv
<1>1. RosterIInv /\ [Roster!Next]_(Roster!vars) => RosterIInv'
  <2> SUFFICES ASSUME RosterIInv, [Roster!Next]_(Roster!vars) PROVE RosterIInv' OBVIOUS
  <2>1. CASE UNCHANGED Roster!vars
    <3> USE <2>1 DEF Roster!vars
    <3>1. \A m, row : IsRosterRowOf(m, row)' <=> IsRosterRowOf(m, row) BY DEF IsRosterRowOf, Roster!Row
    <3>2. RosterRows' BY <3>1 DEF RosterIInv, RosterRows
    <3>3. RosterLoads' BY DEF RosterIInv, RosterLoads
    <3>4. AloneIsStored' BY DEF RosterIInv, AloneIsStored
    <3>5. RosterKeepsUp' BY DEF RosterIInv, RosterKeepsUp, NothingStored, RosterStates, Roster!Matching
    <3> QED BY <3>2, <3>3, <3>4, <3>5 DEF RosterIInv
  <2>2. ASSUME NEW f \in StateFilter, Roster!SetFilter(f) PROVE RosterIInv' BY <2>2, RosterListed
  <2>3. ASSUME NEW l \in rosterLoads,
       Roster!Listed(l) \/ Roster!Loaded(l) \/ Roster!LoadFailed(l) PROVE RosterIInv' BY <2>3, RosterListed
  <2>4. ASSUME NEW e \in rosterShown, Roster!ToggleActive(e[1], e[2]) PROVE RosterIInv' BY <2>4, RosterSent
  <2>5. ASSUME NEW e \in rosterShown, NEW op \in Roster!Offered(e[2]), Roster!OpenDialog(op, e[1], e[2].active)
        PROVE RosterIInv'
    BY <2>5, RosterSent
  <2>6. ASSUME NEW m \in Person \ DOMAIN roster, Roster!OpenDialog("add", m, TRUE) PROVE RosterIInv' BY <2>6,
       RosterSent
  <2>7. ASSUME NEW d \in rosterDialog,
       Roster!ChangeDraft(d) \/ Roster!Submit(d) \/ Roster!Close(d) PROVE RosterIInv' BY <2>7, RosterSent
  <2>8. ASSUME NEW r \in rosterRequests, Roster!Store(r) PROVE RosterIInv' BY <2>8, RosterStored
  <2>9. ASSUME NEW r \in rosterRequests, Roster!Toggled(r) \/ Roster!Saved(r) PROVE RosterIInv' BY <2>9,
       RosterRefreshed
  <2>10. ASSUME NEW r \in rosterRequests, Roster!AccountMade(r) \/ Roster!CredentialsReplaced(r) \/ Roster!Failed(r)
         PROVE RosterIInv'
    BY <2>10, RosterKept
  <2> QED BY <2>1, <2>2, <2>3, <2>4, <2>5, <2>6, <2>7, <2>8, <2>9, <2>10
       DEF Roster!Next, Roster!ToggleFailed, Roster!SaveFailed, Roster!AccountFailed, Roster!CredentialsFailed
<1> QED BY <1>1, RosterStarts, PTL DEF Roster!Spec

(* Once nothing is on its way, the roster shows the members as stored.     *)
THEOREM RosterHolds == Roster!Spec => []Roster!RosterIsCurrent
<1>1. RosterIInv => Roster!RosterIsCurrent
  <2> SUFFICES ASSUME RosterIInv, rosterLoads = {}, rosterRequests = {}, ~rosterMissed
               PROVE  /\ RosterStates(rosterShown) = RosterStates(Roster!Matching(rosterFilter))
                      /\ \A e \in rosterShown : e[2].account => roster[e[1]].account
    BY DEF Roster!RosterIsCurrent, RosterStates
  <2>1. ~rosterLoading /\ NothingStored BY DEF RosterIInv, RosterLoads, NothingStored
  <2> QED BY <2>1 DEF RosterIInv, RosterKeepsUp, RosterRows, IsRosterRowOf
<1> QED BY <1>1, RosterInvariant, PTL
-----------------------------------------------------------------------------
(* EmploymentDialog: a member's employment.                                *)

EmploymentFields == {"details", "number", "custom", "rates"}
DialogFields == {"of", "ready", "draft", "number", "revealed", "changing", "rates"}
EmploymentSaveFields == {"of", "step", "sent", "number", "done", "mine", "alone"}

DialogTypes ==
  /\ DOMAIN employmentStored = Person /\ \A m \in Person : DOMAIN employmentStored[m] = EmploymentFields
  /\ \A c, d \in employmentDialogs : c = d
  /\ \A d \in employmentDialogs : DOMAIN d = DialogFields /\ d.of \in Person /\ d.ready \in BOOLEAN /\
       d.changing \in BOOLEAN
  /\ \A s \in employmentSaves : /\ DOMAIN s = EmploymentSaveFields /\ s.of \in Person /\ s.step \in {"details", "custom"}
                                /\ s.done \in BOOLEAN /\ s.alone \in BOOLEAN

(* The two halves of a save that met no other are stored one by one, and   *)
(* once the dialog has closed after one, nothing is on its way.            *)
HalvesAreStored ==
  /\ \A s \in employmentSaves : s.alone =>
       /\ employmentSaves = {s}
       /\ s.done \/ s.step = "custom" => employmentStored[s.of].details = s.sent.details
       /\ s.done /\ s.step = "custom" => employmentStored[s.of].custom = s.sent.custom
  /\ employmentSaid # {} => employmentSaves = {} /\ employmentDialogs = {}
  /\ Employment!SavedIsStored

(* The rates that were read are the member's while the dialog waits for    *)
(* them, since only the dialog changes rates.                              *)
RatesAreRead ==
  /\ employmentLoads # {} => \A d \in employmentDialogs : ~d.ready
  /\ \A l \in employmentLoads : \A x \in l : \A d \in employmentDialogs : x.rates = employmentStored[d.of].rates
  /\ Employment!RatesAreShown

(* Who is about to change a number was asked to.                           *)
NumbersAreAsked ==
  /\ \A d \in employmentDialogs : d.changing => d.of \in numbersAsked
  /\ \A s \in employmentSaves : s.number # {} => s.of \in numbersAsked
  /\ Employment!NumbersAreKept

EmploymentIInv == DialogTypes /\ HalvesAreStored /\ RatesAreRead /\ NumbersAreAsked

(* No dialog is open at first, and nothing is stored but numbers.          *)
LEMMA EmploymentStarts == Employment!Init => EmploymentIInv
<1> SUFFICES ASSUME Employment!Init PROVE EmploymentIInv OBVIOUS
<1>1. DOMAIN employmentStored = Person /\ \A m \in Person : DOMAIN employmentStored[m] = EmploymentFields /\
        employmentStored[m].number = Numbers[m]
  BY DEF Employment!Init, EmploymentFields
<1>2. employmentDialogs = {} /\ employmentLoads = {} /\ employmentSaves = {} /\ employmentSaid = {} BY
     DEF Employment!Init
<1> QED BY <1>1, <1>2
     DEF EmploymentIInv, DialogTypes, HalvesAreStored, Employment!SavedIsStored, RatesAreRead, Employment!RatesAreShown,
       NumbersAreAsked, Employment!NumbersAreKept

(* The dialog opens and goes.                                              *)
LEMMA DialogComesAndGoes ==
  ASSUME EmploymentIInv, (\E m \in Person : Employment!Open(m)) \/ \E d \in employmentDialogs : Employment!Cancel(d)
  PROVE  EmploymentIInv'
<1>1. UNCHANGED <<employmentStored, numbersAsked>> BY DEF Employment!Open, Employment!Cancel
<1>2. ASSUME NEW m \in Person, Employment!Open(m) PROVE EmploymentIInv'
  <2> DEFINE new == [of |-> m, ready |-> FALSE, draft |-> Employment!Nothing, number |-> {}, revealed |-> FALSE,
                     changing |-> FALSE, rates |-> {}]
  <2>1. employmentDialogs' = {new} /\ employmentLoads' = {{}} /\ employmentSaid' = {} /\
          employmentSaves' = employmentSaves BY <1>2 DEF Employment!Open
  <2>2. DOMAIN new = DialogFields /\ new.of = m /\ new.ready = FALSE /\ new.changing = FALSE BY DEF DialogFields
  <2> HIDE DEF new
  <2>3. DialogTypes' BY <1>1, <2>1, <2>2 DEF EmploymentIInv, DialogTypes
  <2>4. HalvesAreStored' BY <1>1, <2>1 DEF EmploymentIInv, HalvesAreStored, Employment!SavedIsStored
  <2>5. RatesAreRead' BY <2>1, <2>2 DEF RatesAreRead, Employment!RatesAreShown
  <2>6. NumbersAreAsked' BY <1>1, <2>1, <2>2 DEF EmploymentIInv, NumbersAreAsked, Employment!NumbersAreKept
  <2> QED BY <2>3, <2>4, <2>5, <2>6 DEF EmploymentIInv
<1>3. ASSUME NEW d \in employmentDialogs, Employment!Cancel(d) PROVE EmploymentIInv'
  <2>1. employmentDialogs' = {} /\ employmentLoads' = {} /\
          employmentSaves' = {[s EXCEPT !.mine = FALSE] : s \in employmentSaves} /\ employmentSaid' = employmentSaid
    BY <1>3 DEF Employment!Cancel, Employment!Gone
  <2>2. ASSUME NEW s \in employmentSaves, NEW q, q = [s EXCEPT !.mine = FALSE]
        PROVE  /\ DOMAIN q = EmploymentSaveFields /\ q.of = s.of /\ q.step = s.step /\ q.sent = s.sent /\
                    q.number = s.number
               /\ q.done = s.done /\ q.alone = s.alone
    BY <2>2 DEF EmploymentIInv, DialogTypes, EmploymentSaveFields
  <2>3. \A q \in employmentSaves' : \E s \in employmentSaves :
          /\ DOMAIN q = EmploymentSaveFields /\ q.of = s.of /\ q.step = s.step /\ q.sent = s.sent /\ q.number = s.number
          /\ q.done = s.done /\ q.alone = s.alone /\ q = [s EXCEPT !.mine = FALSE]
    BY <2>1, <2>2
  <2>4. DialogTypes' BY <1>1, <2>1, <2>3 DEF EmploymentIInv, DialogTypes
  <2>5. HalvesAreStored'
    <3>1. employmentSaid' = {} BY <2>1 DEF EmploymentIInv, HalvesAreStored
    <3>2. ASSUME NEW q \in employmentSaves', q.alone
          PROVE  /\ employmentSaves' = {q}
                 /\ q.done \/ q.step = "custom" => employmentStored'[q.of].details = q.sent.details
                 /\ q.done /\ q.step = "custom" => employmentStored'[q.of].custom = q.sent.custom
      <4>1. PICK s \in employmentSaves : /\ q.of = s.of /\ q.step = s.step /\ q.sent = s.sent
                                         /\ q.done = s.done /\ q.alone = s.alone /\ q = [s EXCEPT !.mine = FALSE]
        BY <2>3
      <4>2. /\ employmentSaves = {s}
            /\ s.done \/ s.step = "custom" => employmentStored[s.of].details = s.sent.details
            /\ s.done /\ s.step = "custom" => employmentStored[s.of].custom = s.sent.custom
        BY <3>2, <4>1 DEF EmploymentIInv, HalvesAreStored
      <4>3. employmentSaves' = {q} BY <2>1, <4>1, <4>2
      <4> QED BY <1>1, <4>1, <4>2, <4>3
    <3> QED BY <3>1, <3>2 DEF HalvesAreStored, Employment!SavedIsStored
  <2>6. RatesAreRead' BY <2>1 DEF RatesAreRead, Employment!RatesAreShown
  <2>7. NumbersAreAsked' BY <1>1, <2>1, <2>3 DEF EmploymentIInv, NumbersAreAsked, Employment!NumbersAreKept
  <2> QED BY <2>4, <2>5, <2>6, <2>7 DEF EmploymentIInv
<1> QED BY <1>2, <1>3

(* What is read arrives, or does not.                                      *)
LEMMA DialogLoads ==
  ASSUME EmploymentIInv, NEW d \in employmentDialogs,
           Employment!Read(d) \/ Employment!Loaded(d) \/ Employment!LoadFailed(d)
  PROVE  EmploymentIInv'
<1>1. UNCHANGED <<employmentStored, employmentSaves, employmentSaid, employmentMissed, numbersAsked>> BY
     DEF Employment!Read, Employment!Loaded, Employment!LoadFailed
<1>2. DOMAIN d = DialogFields /\ d.of \in Person /\ d.changing \in BOOLEAN /\ \A c \in employmentDialogs : c = d
  BY DEF EmploymentIInv, DialogTypes
<1>3. employmentSaid = {} BY DEF EmploymentIInv, HalvesAreStored
<1>4. HalvesAreStored' BY <1>1, <1>3 DEF EmploymentIInv, HalvesAreStored, Employment!SavedIsStored
<1>5. CASE Employment!Read(d)
  <2>1. employmentLoads = {{}} /\ employmentLoads' = {{employmentStored[d.of]}} /\
          employmentDialogs' = employmentDialogs BY <1>5 DEF Employment!Read
  <2>2. DialogTypes' BY <1>1, <2>1 DEF EmploymentIInv, DialogTypes
  <2>3. RatesAreRead' BY <1>1, <1>2, <2>1 DEF EmploymentIInv, RatesAreRead, Employment!RatesAreShown
  <2>4. NumbersAreAsked' BY <1>1, <2>1 DEF EmploymentIInv, NumbersAreAsked, Employment!NumbersAreKept
  <2> QED BY <1>4, <2>2, <2>3, <2>4 DEF EmploymentIInv
<1>6. CASE Employment!Loaded(d)
  <2>1. PICK l \in employmentLoads : \E x \in l :
          employmentDialogs' = {[d EXCEPT !.ready = TRUE, !.draft = [details |-> x.details, custom |-> x.custom],
            !.rates = x.rates]}
    BY <1>6 DEF Employment!Loaded
  <2>2. PICK x \in l :
          employmentDialogs' = {[d EXCEPT !.ready = TRUE, !.draft = [details |-> x.details, custom |-> x.custom],
            !.rates = x.rates]}
    BY <2>1
  <2> DEFINE c == [d EXCEPT !.ready = TRUE, !.draft = [details |-> x.details, custom |-> x.custom], !.rates = x.rates]
  <2>3. /\ DOMAIN c = DialogFields /\ c.of = d.of /\ c.ready = TRUE /\ c.changing = d.changing /\ c.rates = x.rates
    BY <1>2 DEF DialogFields
  <2>4. employmentDialogs' = {c} /\ employmentLoads' = {} BY <1>6, <2>2 DEF Employment!Loaded
  <2> HIDE DEF c
  <2>5. x.rates = employmentStored[d.of].rates BY DEF EmploymentIInv, RatesAreRead
  <2>6. DialogTypes' BY <1>1, <1>2, <2>3, <2>4 DEF EmploymentIInv, DialogTypes
  <2>7. RatesAreRead' BY <1>1, <2>3, <2>4, <2>5 DEF RatesAreRead, Employment!RatesAreShown
  <2>8. d.changing => d.of \in numbersAsked BY DEF EmploymentIInv, NumbersAreAsked
  <2>9. NumbersAreAsked' BY <1>1, <2>3, <2>4, <2>8 DEF EmploymentIInv, NumbersAreAsked, Employment!NumbersAreKept
  <2>10. HalvesAreStored' BY <1>4
  <2> QED BY <2>6, <2>7, <2>9, <2>10 DEF EmploymentIInv
<1>7. CASE Employment!LoadFailed(d)
  <2>1. employmentLoads' = {} /\ employmentDialogs' = employmentDialogs BY <1>7 DEF Employment!LoadFailed
  <2>2. DialogTypes' BY <1>1, <2>1 DEF EmploymentIInv, DialogTypes
  <2>3. RatesAreRead' BY <1>1, <2>1 DEF EmploymentIInv, RatesAreRead, Employment!RatesAreShown
  <2>4. NumbersAreAsked' BY <1>1, <2>1 DEF EmploymentIInv, NumbersAreAsked, Employment!NumbersAreKept
  <2> QED BY <1>4, <2>2, <2>3, <2>4 DEF EmploymentIInv
<1> QED BY <1>5, <1>6, <1>7

(* What is typed, shown or asked to be changed.                            *)
LEMMA DialogEdited ==
  ASSUME EmploymentIInv, NEW d \in employmentDialogs, NEW x, Employment!Edit(d, x), d.ready,
         DOMAIN x = DialogFields, x.of = d.of, x.ready = d.ready, x.rates = d.rates, x.changing \in BOOLEAN
  PROVE  EmploymentIInv'
<1>1. /\ employmentDialogs' = {x} /\ numbersAsked' = numbersAsked \cup (IF x.changing THEN {d.of} ELSE {})
      /\ UNCHANGED <<employmentStored, employmentLoads, employmentSaves, employmentSaid, employmentMissed>>
  BY DEF Employment!Edit
<1>2. d.of \in Person /\ d.ready \in BOOLEAN BY DEF EmploymentIInv, DialogTypes
<1>3. DialogTypes' BY <1>1, <1>2 DEF EmploymentIInv, DialogTypes
<1>4. employmentSaid = {} /\ employmentLoads = {} BY DEF EmploymentIInv, HalvesAreStored, RatesAreRead
<1>5. HalvesAreStored' BY <1>1, <1>4 DEF EmploymentIInv, HalvesAreStored, Employment!SavedIsStored
<1>6. RatesAreRead' BY <1>1, <1>4 DEF EmploymentIInv, RatesAreRead, Employment!RatesAreShown
<1>7. NumbersAreAsked' BY <1>1 DEF EmploymentIInv, NumbersAreAsked, Employment!NumbersAreKept
<1> QED BY <1>3, <1>5, <1>6, <1>7 DEF EmploymentIInv

(* Details, a custom field or a number is typed, or the number revealed.   *)
LEMMA DialogTyped ==
  ASSUME EmploymentIInv, NEW d \in employmentDialogs,
         \/ Employment!ChangeNumber(d) \/ Employment!Reveal(d)
         \/ \E v \in Employment!Optional : Employment!TypeNumber(d, v) \/ Employment!Change(d, "details", v) \/
              Employment!Change(d, "custom", v)
  PROVE  EmploymentIInv'
<1>1. DOMAIN d = DialogFields /\ d.changing \in BOOLEAN BY DEF EmploymentIInv, DialogTypes
<1>2. CASE Employment!ChangeNumber(d)
  <2> DEFINE x == [d EXCEPT !.changing = TRUE]
  <2>1. DOMAIN x = DialogFields /\ x.of = d.of /\ x.ready = d.ready /\ x.rates = d.rates /\ x.changing = TRUE
    BY <1>1 DEF DialogFields
  <2>2. d.ready /\ Employment!Edit(d, x) BY <1>2 DEF Employment!ChangeNumber
  <2> HIDE DEF x
  <2>3. x.changing \in BOOLEAN BY <2>1
  <2> QED BY <2>1, <2>2, <2>3, DialogEdited
<1>3. CASE Employment!Reveal(d)
  <2> DEFINE x == [d EXCEPT !.number = employmentStored[d.of].number, !.revealed = TRUE]
  <2>1. DOMAIN x = DialogFields /\ x.of = d.of /\ x.ready = d.ready /\ x.rates = d.rates /\ x.changing = d.changing
    BY <1>1 DEF DialogFields
  <2>2. d.ready /\ Employment!Edit(d, x) BY <1>3 DEF Employment!Reveal
  <2> HIDE DEF x
  <2>3. x.changing \in BOOLEAN BY <1>1, <2>1
  <2> QED BY <2>1, <2>2, <2>3, DialogEdited
<1>4. ASSUME NEW v \in Employment!Optional, Employment!TypeNumber(d, v) PROVE EmploymentIInv'
  <2> DEFINE x == [d EXCEPT !.number = v, !.changing = TRUE]
  <2>1. DOMAIN x = DialogFields /\ x.of = d.of /\ x.ready = d.ready /\ x.rates = d.rates /\ x.changing = TRUE
    BY <1>1 DEF DialogFields
  <2>2. d.ready /\ Employment!Edit(d, x) BY <1>4 DEF Employment!TypeNumber
  <2> HIDE DEF x
  <2>3. x.changing \in BOOLEAN BY <2>1
  <2> QED BY <2>1, <2>2, <2>3, DialogEdited
<1>5. ASSUME NEW v \in Employment!Optional, NEW key \in {"details", "custom"}, Employment!Change(d, key, v)
      PROVE EmploymentIInv'
  <2> DEFINE x == [d EXCEPT !.draft[key] = v]
  <2>1. DOMAIN x = DialogFields /\ x.of = d.of /\ x.ready = d.ready /\ x.rates = d.rates /\ x.changing = d.changing
    BY <1>1 DEF DialogFields
  <2>2. d.ready /\ Employment!Edit(d, x) BY <1>5 DEF Employment!Change
  <2> HIDE DEF x
  <2>3. x.changing \in BOOLEAN BY <1>1, <2>1
  <2> QED BY <2>1, <2>2, <2>3, DialogEdited
<1> QED BY <1>2, <1>3, <1>4, <1>5

(* Rates are stored at once.                                               *)
LEMMA RatesSet ==
  ASSUME EmploymentIInv, NEW d \in employmentDialogs, NEW rates, NEW rows, Employment!SetRates(d, rates, rows),
         d.rates = employmentStored[d.of].rates => rows = rates
  PROVE  EmploymentIInv'
<1>1. PICK lost \in BOOLEAN : /\ employmentMissed' = (employmentMissed \/ lost)
                              /\ employmentDialogs' = {[d EXCEPT !.rates = IF lost THEN d.rates ELSE rows]}
  BY DEF Employment!SetRates
<1> DEFINE c == [d EXCEPT !.rates = IF lost THEN d.rates ELSE rows]
<1>2. d.ready /\ employmentStored' = [employmentStored EXCEPT ![d.of].rates = rates] /\
        UNCHANGED <<employmentLoads, employmentSaves, employmentSaid, numbersAsked>>
  BY DEF Employment!SetRates
<1>3. DOMAIN d = DialogFields /\ d.of \in Person /\ d.ready \in BOOLEAN /\ d.changing \in BOOLEAN
  BY DEF EmploymentIInv, DialogTypes
<1>4. /\ DOMAIN c = DialogFields /\ c.of = d.of /\ c.ready = d.ready /\ c.changing = d.changing
      /\ ~lost => c.rates = rows
  BY <1>3 DEF DialogFields
<1>5. employmentDialogs' = {c} BY <1>1
<1> HIDE DEF c
<1>6. DOMAIN employmentStored = Person /\ \A m \in Person : DOMAIN employmentStored[m] = EmploymentFields BY
     DEF EmploymentIInv, DialogTypes
<1>7. /\ DOMAIN employmentStored' = Person
      /\ \A m \in Person : /\ DOMAIN employmentStored'[m] = EmploymentFields
                           /\ employmentStored'[m].details = employmentStored[m].details
                           /\ employmentStored'[m].custom = employmentStored[m].custom
                           /\ employmentStored'[m].number = employmentStored[m].number
      /\ employmentStored'[d.of].rates = rates
  BY <1>2, <1>3, <1>6 DEF EmploymentFields
<1>8. DialogTypes' BY <1>2, <1>3, <1>4, <1>5, <1>7 DEF EmploymentIInv, DialogTypes
<1>9. employmentSaid = {} /\ employmentLoads = {} BY <1>2 DEF EmploymentIInv, HalvesAreStored, RatesAreRead
<1>10. HalvesAreStored' BY <1>2, <1>7, <1>9 DEF EmploymentIInv, HalvesAreStored, DialogTypes, Employment!SavedIsStored
<1>11. RatesAreRead'
  <2>1. ~employmentMissed' => ~lost /\ ~employmentMissed BY <1>1
  <2>2. ~employmentMissed => d.rates = employmentStored[d.of].rates BY <1>2 DEF EmploymentIInv, RatesAreRead,
       Employment!RatesAreShown
  <2> QED BY <1>2, <1>4, <1>5, <1>7, <1>9, <2>1, <2>2 DEF RatesAreRead, Employment!RatesAreShown
<1>12. NumbersAreAsked' BY <1>2, <1>4, <1>5, <1>7 DEF EmploymentIInv, NumbersAreAsked, Employment!NumbersAreKept
<1> QED BY <1>8, <1>10, <1>11, <1>12 DEF EmploymentIInv
(* A save is sent; another that has not ended no longer counts as alone.   *)
LEMMA SaveSent ==
  ASSUME EmploymentIInv, NEW d \in employmentDialogs, Employment!Save(d)
  PROVE  EmploymentIInv'
<1> DEFINE new == [of |-> d.of, step |-> "details", sent |-> d.draft, number |-> Employment!NumberSent(d),
                   done |-> FALSE, mine |-> TRUE, alone |-> employmentSaves = {}]
<1>1. /\ employmentSaves' = {[s EXCEPT !.alone = FALSE] : s \in employmentSaves} \cup {new}
      /\ UNCHANGED <<employmentStored, employmentDialogs, employmentLoads, employmentSaid, employmentMissed,
           numbersAsked>>
  BY DEF Employment!Save
<1>2. /\ DOMAIN new = EmploymentSaveFields /\ new.of = d.of /\ new.step = "details"
      /\ new.number = Employment!NumberSent(d)
      /\ new.done = FALSE /\ new.alone \in BOOLEAN /\ (new.alone <=> employmentSaves = {})
  BY DEF EmploymentSaveFields
<1> HIDE DEF new
<1>3. ASSUME NEW s \in employmentSaves, NEW q, q = [s EXCEPT !.alone = FALSE]
      PROVE  /\ DOMAIN q = EmploymentSaveFields /\ q.of = s.of /\ q.step = s.step /\ q.number = s.number
             /\ q.done = s.done /\ q.alone = FALSE
  BY <1>3 DEF EmploymentIInv, DialogTypes, EmploymentSaveFields
<1>4. \A q \in employmentSaves' : q = new \/ \E s \in employmentSaves :
        /\ DOMAIN q = EmploymentSaveFields /\ q.of = s.of /\ q.step = s.step /\ q.number = s.number
        /\ q.done = s.done /\ q.alone = FALSE
  BY <1>1, <1>3
<1>5. d.of \in Person BY DEF EmploymentIInv, DialogTypes
<1>6. DialogTypes' BY <1>1, <1>2, <1>4, <1>5 DEF EmploymentIInv, DialogTypes
<1>7. employmentSaid = {} BY DEF EmploymentIInv, HalvesAreStored
<1>8. HalvesAreStored'
  <2>1. \A q \in employmentSaves' : q.alone => q = new /\ employmentSaves' = {new} BY <1>1, <1>2, <1>4
  <2> QED BY <1>1, <1>2, <1>7, <2>1 DEF HalvesAreStored, Employment!SavedIsStored
<1>9. RatesAreRead' BY <1>1 DEF EmploymentIInv, RatesAreRead, Employment!RatesAreShown
<1>10. NumbersAreAsked'
  <2>1. new.number # {} => d.of \in numbersAsked BY <1>2 DEF EmploymentIInv, NumbersAreAsked, Employment!NumberSent
  <2>2. \A q \in employmentSaves' : q.number # {} => q.of \in numbersAsked
    BY <1>2, <1>4, <2>1 DEF EmploymentIInv, NumbersAreAsked
  <2> QED BY <1>1, <2>2 DEF EmploymentIInv, NumbersAreAsked, Employment!NumbersAreKept
<1> QED BY <1>6, <1>8, <1>9, <1>10 DEF EmploymentIInv

(* A request is stored.                                                    *)
LEMMA SaveStored ==
  ASSUME EmploymentIInv, NEW s \in employmentSaves, Employment!Store(s)
  PROVE  EmploymentIInv'
<1> DEFINE q == [s EXCEPT !.done = TRUE]
<1>1. /\ ~s.done /\ employmentSaves' = (employmentSaves \ {s}) \cup {q}
      /\ UNCHANGED <<employmentDialogs, employmentLoads, employmentSaid, employmentMissed, numbersAsked>>
  BY DEF Employment!Store
<1>2. DOMAIN s = EmploymentSaveFields /\ s.of \in Person /\ s.step \in {"details", "custom"} /\ s.alone \in BOOLEAN
  BY DEF EmploymentIInv, DialogTypes
<1>3. /\ DOMAIN q = EmploymentSaveFields /\ q.of = s.of /\ q.step = s.step /\ q.sent = s.sent /\ q.number = s.number
      /\ q.done = TRUE /\ q.alone = s.alone
  BY <1>2 DEF EmploymentSaveFields
<1> HIDE DEF q
<1>4. DOMAIN employmentStored = Person /\ \A m \in Person : DOMAIN employmentStored[m] = EmploymentFields BY
     DEF EmploymentIInv, DialogTypes
<1>5. /\ DOMAIN employmentStored' = Person
      /\ \A m \in Person : /\ DOMAIN employmentStored'[m] = EmploymentFields
                           /\ employmentStored'[m].rates = employmentStored[m].rates
                           /\ m # s.of \/ s.number = {} => employmentStored'[m].number = employmentStored[m].number
      /\ s.step = "custom" => /\ employmentStored'[s.of].custom = s.sent.custom
                              /\ employmentStored'[s.of].details = employmentStored[s.of].details
                              /\ employmentStored'[s.of].number = employmentStored[s.of].number
      /\ s.step = "details" => employmentStored'[s.of].details = s.sent.details
  <2>1. CASE s.step = "custom"
    <3>1. employmentStored' = [employmentStored EXCEPT ![s.of].custom = s.sent.custom] BY <2>1 DEF Employment!Store
    <3> QED BY <1>2, <1>4, <2>1, <3>1 DEF EmploymentFields
  <2>2. CASE s.step = "details"
    <3>1. PICK number : /\ employmentStored' = [employmentStored EXCEPT ![s.of].details = s.sent.details, ![s.of].number = number]
                        /\ s.number = {} => number = employmentStored[s.of].number
      BY <2>2 DEF Employment!Store
    <3> QED BY <1>2, <1>4, <2>2, <3>1 DEF EmploymentFields
  <2> QED BY <1>2, <2>1, <2>2
<1>6. DialogTypes' BY <1>1, <1>2, <1>3, <1>5 DEF EmploymentIInv, DialogTypes
<1>7. employmentSaid = {} BY DEF EmploymentIInv, HalvesAreStored
<1>8. HalvesAreStored'
  <2> SUFFICES ASSUME NEW x \in employmentSaves', x.alone
               PROVE  /\ employmentSaves' = {x}
                      /\ x.done \/ x.step = "custom" => employmentStored'[x.of].details = x.sent.details
                      /\ x.done /\ x.step = "custom" => employmentStored'[x.of].custom = x.sent.custom
    BY <1>1, <1>7 DEF HalvesAreStored, Employment!SavedIsStored
  <2>1. CASE x = q
    <3>1. employmentSaves = {s} /\ (s.step = "custom" => employmentStored[s.of].details = s.sent.details)
      BY <1>3, <2>1 DEF EmploymentIInv, HalvesAreStored
    <3>2. employmentSaves' = {x} BY <1>1, <2>1, <3>1
    <3> QED BY <1>2, <1>3, <1>5, <2>1, <3>1, <3>2
  <2>2. CASE x # q
    <3>1. x \in employmentSaves /\ x # s BY <1>1, <2>2
    <3>2. employmentSaves = {x} BY <3>1 DEF EmploymentIInv, HalvesAreStored
    <3> QED BY <3>1, <3>2
  <2> QED BY <2>1, <2>2
<1>9. RatesAreRead'
  <2>1. \A d \in employmentDialogs : employmentStored'[d.of].rates = employmentStored[d.of].rates BY <1>5
       DEF EmploymentIInv, DialogTypes
  <2> QED BY <1>1, <2>1 DEF EmploymentIInv, RatesAreRead, Employment!RatesAreShown
<1>10. NumbersAreAsked'
  <2>1. s.number # {} => s.of \in numbersAsked BY DEF EmploymentIInv, NumbersAreAsked
  <2>2. \A x \in employmentSaves' : x.number # {} => x.of \in numbersAsked BY <1>1, <1>3, <2>1 DEF EmploymentIInv,
       NumbersAreAsked
  <2>3. \A m \in Person \ numbersAsked : employmentStored'[m].number = employmentStored[m].number BY <1>5, <2>1
  <2> QED BY <1>1, <2>2, <2>3 DEF EmploymentIInv, NumbersAreAsked, Employment!NumbersAreKept
<1> QED BY <1>6, <1>8, <1>9, <1>10 DEF EmploymentIInv

(* The second half follows the first, or the save ends without one.        *)
LEMMA SaveGoesOn ==
  ASSUME EmploymentIInv, NEW s \in employmentSaves, Employment!DetailsSaved(s) \/ Employment!SaveFailed(s)
  PROVE  EmploymentIInv'
<1>1. UNCHANGED <<employmentStored, employmentDialogs, employmentLoads, employmentSaid, employmentMissed, numbersAsked>>
        BY DEF Employment!DetailsSaved, Employment!SaveFailed
<1>2. employmentSaid = {} BY DEF EmploymentIInv, HalvesAreStored
<1>3. RatesAreRead' BY <1>1 DEF EmploymentIInv, RatesAreRead, Employment!RatesAreShown
<1>4. CASE Employment!DetailsSaved(s)
  <2> DEFINE q == [s EXCEPT !.step = "custom", !.done = FALSE]
  <2>1. s.done /\ s.step = "details" /\ employmentSaves' = (employmentSaves \ {s}) \cup {q} BY <1>4
       DEF Employment!DetailsSaved
  <2>2. DOMAIN s = EmploymentSaveFields /\ s.of \in Person /\ s.alone \in BOOLEAN BY DEF EmploymentIInv, DialogTypes
  <2>3. /\ DOMAIN q = EmploymentSaveFields /\ q.of = s.of /\ q.step = "custom" /\ q.sent = s.sent /\ q.number = s.number
        /\ q.done = FALSE /\ q.alone = s.alone
    BY <2>2 DEF EmploymentSaveFields
  <2> HIDE DEF q
  <2>4. DialogTypes' BY <1>1, <2>1, <2>2, <2>3 DEF EmploymentIInv, DialogTypes
  <2>5. HalvesAreStored'
    <3> SUFFICES ASSUME NEW x \in employmentSaves', x.alone
                 PROVE  /\ employmentSaves' = {x}
                        /\ x.done \/ x.step = "custom" => employmentStored'[x.of].details = x.sent.details
                        /\ x.done /\ x.step = "custom" => employmentStored'[x.of].custom = x.sent.custom
      BY <1>1, <1>2 DEF HalvesAreStored, Employment!SavedIsStored
    <3>1. CASE x = q
      <4>1. employmentSaves = {s} /\ employmentStored[s.of].details = s.sent.details
        BY <2>1, <2>3, <3>1 DEF EmploymentIInv, HalvesAreStored
      <4> QED BY <1>1, <2>1, <2>3, <3>1, <4>1
    <3>2. CASE x # q
      <4>1. x \in employmentSaves /\ x # s BY <2>1, <3>2
      <4>2. employmentSaves = {x} BY <4>1 DEF EmploymentIInv, HalvesAreStored
      <4> QED BY <4>1, <4>2
    <3> QED BY <3>1, <3>2
  <2>6. NumbersAreAsked' BY <1>1, <2>1, <2>3 DEF EmploymentIInv, NumbersAreAsked, Employment!NumbersAreKept
  <2> QED BY <1>3, <2>4, <2>5, <2>6 DEF EmploymentIInv
<1>5. CASE Employment!SaveFailed(s)
  <2>1. employmentSaves' = employmentSaves \ {s} BY <1>5 DEF Employment!SaveFailed
  <2>2. DialogTypes' BY <1>1, <2>1 DEF EmploymentIInv, DialogTypes
  <2>3. HalvesAreStored' BY <1>1, <1>2, <2>1 DEF EmploymentIInv, HalvesAreStored, Employment!SavedIsStored
  <2>4. NumbersAreAsked' BY <1>1, <2>1 DEF EmploymentIInv, NumbersAreAsked, Employment!NumbersAreKept
  <2> QED BY <1>3, <2>2, <2>3, <2>4 DEF EmploymentIInv
<1> QED BY <1>4, <1>5

(* A save has ended, and the dialog closes.                                *)
LEMMA SaveEnds ==
  ASSUME EmploymentIInv, NEW s \in employmentSaves, Employment!Saved(s)
  PROVE  EmploymentIInv'
<1>1. /\ s.done /\ s.step = "custom" /\ employmentDialogs' = {} /\ employmentLoads' = {}
      /\ UNCHANGED <<employmentStored, employmentMissed, numbersAsked>>
      /\ employmentSaves' = {[r EXCEPT !.mine = FALSE] : r \in employmentSaves \ {s}}
  BY DEF Employment!Saved, Employment!IsStored, Employment!Gone
<1> DEFINE note == [of |-> s.of, sent |-> s.sent]
<1>2. employmentSaid' = {} \/ (s.alone /\ employmentSaid' = {note}) BY DEF Employment!Saved
<1>3. note.of = s.of /\ note.sent = s.sent OBVIOUS
<1> HIDE DEF note
<1>4. ASSUME NEW r \in employmentSaves, NEW q, q = [r EXCEPT !.mine = FALSE]
      PROVE  /\ DOMAIN q = EmploymentSaveFields /\ q.of = r.of /\ q.step = r.step /\ q.number = r.number
             /\ q.done = r.done /\ q.alone = r.alone
  BY <1>4 DEF EmploymentIInv, DialogTypes, EmploymentSaveFields
<1>5. \A q \in employmentSaves' : \E r \in employmentSaves :
        /\ DOMAIN q = EmploymentSaveFields /\ q.of = r.of /\ q.step = r.step /\ q.number = r.number
        /\ q.done = r.done /\ q.alone = r.alone /\ r # s
  BY <1>1, <1>4
<1>6. DialogTypes' BY <1>1, <1>5 DEF EmploymentIInv, DialogTypes
<1>7. HalvesAreStored'
  <2>1. \A q \in employmentSaves' : ~q.alone BY <1>5 DEF EmploymentIInv, HalvesAreStored
  <2>2. s.alone => employmentSaves' = {} /\ employmentStored[s.of].details = s.sent.details /\
          employmentStored[s.of].custom = s.sent.custom
    <3> SUFFICES ASSUME s.alone
                 PROVE  employmentSaves' = {} /\ employmentStored[s.of].details = s.sent.details /\
                          employmentStored[s.of].custom = s.sent.custom
      OBVIOUS
    <3>1. employmentSaves = {s} /\ employmentStored[s.of].details = s.sent.details /\
            employmentStored[s.of].custom = s.sent.custom
      BY <1>1 DEF EmploymentIInv, HalvesAreStored
    <3> QED BY <1>1, <3>1
  <2> QED BY <1>1, <1>2, <1>3, <2>1, <2>2 DEF HalvesAreStored, Employment!SavedIsStored
<1>8. RatesAreRead' BY <1>1 DEF RatesAreRead, Employment!RatesAreShown
<1>9. NumbersAreAsked' BY <1>1, <1>5 DEF EmploymentIInv, NumbersAreAsked, Employment!NumbersAreKept
<1> QED BY <1>6, <1>7, <1>8, <1>9 DEF EmploymentIInv

(* The invariant holds throughout.                                         *)
THEOREM EmploymentDialogInvariant == Employment!Spec => []EmploymentIInv
<1>1. EmploymentIInv /\ [Employment!Next]_(Employment!vars) => EmploymentIInv'
  <2> SUFFICES ASSUME EmploymentIInv, [Employment!Next]_(Employment!vars) PROVE EmploymentIInv' OBVIOUS
  <2>1. CASE UNCHANGED Employment!vars
    <3> USE <2>1 DEF Employment!vars
    <3>1. DialogTypes' BY DEF EmploymentIInv, DialogTypes
    <3>2. HalvesAreStored' BY DEF EmploymentIInv, HalvesAreStored, Employment!SavedIsStored
    <3>3. RatesAreRead' BY DEF EmploymentIInv, RatesAreRead, Employment!RatesAreShown
    <3>4. NumbersAreAsked' BY DEF EmploymentIInv, NumbersAreAsked, Employment!NumbersAreKept
    <3> QED BY <3>1, <3>2, <3>3, <3>4 DEF EmploymentIInv
  <2>2. ASSUME NEW m \in Person, Employment!Open(m) PROVE EmploymentIInv' BY <2>2, DialogComesAndGoes
  <2>3. ASSUME NEW d \in employmentDialogs, Employment!Cancel(d) PROVE EmploymentIInv' BY <2>3, DialogComesAndGoes
  <2>4. ASSUME NEW d \in employmentDialogs,
       Employment!Read(d) \/ Employment!Loaded(d) \/ Employment!LoadFailed(d) PROVE EmploymentIInv' BY <2>4,
       DialogLoads
  <2>5. ASSUME NEW d \in employmentDialogs,
       Employment!ChangeNumber(d) \/ Employment!Reveal(d) PROVE EmploymentIInv' BY <2>5, DialogTyped
  <2>6. ASSUME NEW d \in employmentDialogs, Employment!Save(d) PROVE EmploymentIInv' BY <2>6, SaveSent
  <2>7. ASSUME NEW d \in employmentDialogs, NEW v \in Employment!Optional,
               Employment!TypeNumber(d, v) \/ Employment!Change(d, "details", v) \/ Employment!Change(d, "custom", v)
        PROVE  EmploymentIInv'
    BY <2>7, DialogTyped
  <2>8. ASSUME NEW d \in employmentDialogs, NEW date \in Date, Employment!AddRate(d, date) PROVE EmploymentIInv'
    <3> DEFINE rates == employmentStored[d.of].rates \cup {date}  rows == Employment!Without(d, date) \cup {date}
    <3>1. Employment!SetRates(d, rates, rows) BY <2>8 DEF Employment!AddRate
    <3>2. d.rates = employmentStored[d.of].rates => rows = rates BY DEF Employment!Without
    <3> HIDE DEF rates, rows
    <3> QED BY <3>1, <3>2, RatesSet
  <2>9. ASSUME NEW d \in employmentDialogs, NEW date \in d.rates, Employment!RemoveRate(d, date) PROVE EmploymentIInv'
    <3> DEFINE rates == employmentStored[d.of].rates \ {date}  rows == Employment!Without(d, date)
    <3>1. Employment!SetRates(d, rates, rows) BY <2>9 DEF Employment!RemoveRate
    <3>2. d.rates = employmentStored[d.of].rates => rows = rates BY DEF Employment!Without
    <3> HIDE DEF rates, rows
    <3> QED BY <3>1, <3>2, RatesSet
  <2>10. ASSUME NEW s \in employmentSaves, Employment!Store(s) PROVE EmploymentIInv' BY <2>10, SaveStored
  <2>11. ASSUME NEW s \in employmentSaves,
       Employment!DetailsSaved(s) \/ Employment!SaveFailed(s) PROVE EmploymentIInv' BY <2>11, SaveGoesOn
  <2>12. ASSUME NEW s \in employmentSaves, Employment!Saved(s) PROVE EmploymentIInv' BY <2>12, SaveEnds
  <2> QED BY <2>1, <2>2, <2>3, <2>4, <2>5, <2>6, <2>7, <2>8, <2>9, <2>10, <2>11, <2>12 DEF Employment!Next
<1> QED BY <1>1, EmploymentStarts, PTL DEF Employment!Spec

(* Both halves of a save are stored, rates are the member's, and a hidden  *)
(* number is left alone.                                                   *)
THEOREM EmploymentDialogHolds == Employment!Spec => []Employment!EmploymentDialogInv
<1>1. EmploymentIInv => Employment!EmploymentDialogInv
  BY DEF EmploymentIInv, HalvesAreStored, RatesAreRead, NumbersAreAsked, Employment!EmploymentDialogInv
<1> QED BY <1>1, EmploymentDialogInvariant, PTL
-----------------------------------------------------------------------------
(* ItemEditor: a stock item and its pars.                                  *)

(* A save is still for its item, or for the pars of one item.              *)
ItemSteps(s) ==
  /\ s.step \in {"item", "pars"} /\ s.pars \subseteq Editor!Day
  /\ s.step = "item" => s.pars = {}
  /\ s.step = "pars" => \A i, j \in s.id : i = j

ItemSaveFields == {"id", "step", "draft", "mine", "met", "pars", "refused"}

ItemTypes ==
  /\ \A i \in DOMAIN stockItems : DOMAIN stockItems[i] = {"method", "pars"} /\ DOMAIN stockItems[i].pars = Editor!Day
  /\ \A p, q \in itemPage : p = q
  /\ \A s \in itemSave : /\ DOMAIN s = ItemSaveFields /\ s.mine \in BOOLEAN /\ s.met \in BOOLEAN
                         /\ ItemSteps(s)

(* The form that is open waits for one save, and a save that met no other  *)
(* is the only one.                                                        *)
SavesAreApart ==
  /\ \A s, t \in itemSave : s.mine /\ t.mine => s = t
  /\ \A s \in itemSave : s.mine => itemPage # {}
  /\ \A s \in itemSave : ~s.met => itemSave = {s}

(* What a save of the form has stored so far, and stays.                   *)
PartsAreStored ==
  /\ \A s \in itemSave : s.mine /\ ~s.met /\ s.step = "pars" =>
       \A i \in s.id : /\ i \in DOMAIN stockItems /\ stockItems[i].method = s.draft.method
                       /\ \A d \in s.pars \ s.refused : stockItems[i].pars[d] = Editor!ParOf(s.draft, d)
  /\ itemSaid # {} => itemSave = {} /\ itemPage = {}
  /\ Editor!SavedIsStored

(* Unless a request of it failed, the form that made an item waits for the *)
(* item's pars, or is gone.                                                *)
FirstIsMade ==
  ~itemFailed =>
    /\ \A i, j \in itemsMade : i = j
    /\ itemsMade # {} => itemPage = {} \/ \E s \in itemSave : s.mine /\ s.step = "pars"

ItemEditorIInv == ItemTypes /\ SavesAreApart /\ PartsAreStored /\ FirstIsMade

(* The item editor's cardinality is that of finite sets.                   *)
LEMMA EditorCardinality == \A S : Editor!Cardinality(S) = Cardinality(S)
BY DEF Editor!Cardinality, Cardinality

(* The page as it is first opened, on no item.                             *)
LEMMA ItemEditorStarts == Editor!Init => ItemEditorIInv
<1> SUFFICES ASSUME Editor!Init PROVE ItemEditorIInv OBVIOUS
<1>1. \A i \in DOMAIN stockItems : DOMAIN stockItems[i] = {"method", "pars"} /\ DOMAIN stockItems[i].pars = Editor!Day
        BY DEF Editor!Init
<1>2. itemPage = {} /\ itemSave = {} /\ itemsMade = {} /\ itemSaid = {} BY DEF Editor!Init
<1> QED BY <1>1, <1>2 DEF ItemEditorIInv, ItemTypes, SavesAreApart, PartsAreStored, Editor!SavedIsStored, FirstIsMade

(* The page opens for another item, and is left.                           *)
LEMMA ItemOpened ==
  ASSUME ItemEditorIInv, NEW id, Editor!Open(id)
  PROVE  ItemEditorIInv'
<1>1. /\ itemPage = {} /\ itemsMade' = {} /\ itemSaid' = {} /\ UNCHANGED <<stockItems, itemSave>>
      /\ \A p, q \in itemPage' : p = q
  BY DEF Editor!Open
<1>2. \A s \in itemSave : ~s.mine BY <1>1 DEF ItemEditorIInv, SavesAreApart
<1>3. ItemTypes' BY <1>1 DEF ItemEditorIInv, ItemTypes, ItemSteps
<1>4. SavesAreApart' BY <1>1, <1>2 DEF ItemEditorIInv, SavesAreApart
<1>5. PartsAreStored' BY <1>1, <1>2 DEF PartsAreStored, Editor!SavedIsStored
<1>6. FirstIsMade' BY <1>1 DEF FirstIsMade
<1> QED BY <1>3, <1>4, <1>5, <1>6 DEF ItemEditorIInv

(* The page goes, and what is on its way is no longer waited for.          *)
LEMMA ItemClosed ==
  ASSUME ItemEditorIInv, NEW rest \in SUBSET itemSave, itemPage' = {}, itemsMade' = itemsMade,
           itemFailed' = itemFailed,
         itemSave' = {[s EXCEPT !.mine = FALSE] : s \in rest},
         \A i \in DOMAIN stockItems' : i \in DOMAIN stockItems /\ stockItems'[i] = stockItems[i],
         itemSaid' # {} => rest = {} /\ Editor!SavedIsStored'
  PROVE  ItemEditorIInv'
<1>1. ASSUME NEW s \in rest, NEW q, q = [s EXCEPT !.mine = FALSE]
      PROVE  /\ DOMAIN q = ItemSaveFields /\ q.mine = FALSE /\ q.met = s.met /\ q.step = s.step
             /\ s.met \in BOOLEAN /\ ItemSteps(q)
  BY <1>1 DEF ItemEditorIInv, ItemTypes, ItemSaveFields, ItemSteps
<1>2. \A q \in itemSave' : \E s \in rest :
        /\ DOMAIN q = ItemSaveFields /\ q.mine = FALSE /\ q.met = s.met /\ q.step = s.step
        /\ s.met \in BOOLEAN /\ ItemSteps(q) /\ q = [s EXCEPT !.mine = FALSE]
  BY <1>1
<1>3. ItemTypes' BY <1>2 DEF ItemEditorIInv, ItemTypes, ItemSteps
<1>4. SavesAreApart'
  <2>1. ASSUME NEW q \in itemSave', ~q.met PROVE itemSave' = {q}
    <3>1. PICK s \in rest : q.met = s.met /\ q = [s EXCEPT !.mine = FALSE] BY <1>2
    <3>2. itemSave = {s} BY <2>1, <3>1 DEF ItemEditorIInv, SavesAreApart
    <3> QED BY <3>1, <3>2
  <2> QED BY <1>2, <2>1 DEF SavesAreApart
<1>5. PartsAreStored'
  <2>1. itemSaid' # {} => itemSave' = {} /\ itemPage' = {} OBVIOUS
  <2>2. Editor!SavedIsStored' BY DEF Editor!SavedIsStored
  <2> QED BY <1>2, <2>1, <2>2 DEF PartsAreStored
<1>6. FirstIsMade' BY DEF ItemEditorIInv, FirstIsMade
<1> QED BY <1>3, <1>4, <1>5, <1>6 DEF ItemEditorIInv

(* The page is left, or a par removed.                                     *)
LEMMA ItemLeft ==
  ASSUME ItemEditorIInv, Editor!Leave \/ \E p \in itemPage : Editor!Remove(p)
  PROVE  ItemEditorIInv'
<1>1. /\ itemPage # {} /\ itemPage' = {} /\ itemsMade' = itemsMade /\ itemFailed' = itemFailed
      /\ itemSave' = {[s EXCEPT !.mine = FALSE] : s \in itemSave}
  BY DEF Editor!Leave, Editor!Remove
<1>2. \A i \in DOMAIN stockItems' : i \in DOMAIN stockItems /\ stockItems'[i] = stockItems[i]
  <2>1. CASE Editor!Leave BY <2>1 DEF Editor!Leave
  <2>2. ASSUME NEW p \in itemPage, Editor!Remove(p)
        PROVE \A i \in DOMAIN stockItems' : i \in DOMAIN stockItems /\ stockItems'[i] = stockItems[i]
    BY <2>2 DEF Editor!Remove
  <2> QED BY <2>1, <2>2
<1>3. itemSaid' = {} BY <1>1 DEF Editor!Leave, Editor!Remove, ItemEditorIInv, PartsAreStored
<1> QED BY <1>1, <1>2, <1>3, ItemClosed

(* All pars were taken: the page goes.                                     *)
LEMMA ItemSaved ==
  ASSUME ItemEditorIInv, NEW s \in itemSave, Editor!Saved(s)
  PROVE  ItemEditorIInv'
<1>1. /\ s.step = "pars" /\ s.pars = Editor!Day /\ s.refused = {} /\ itemPage' = {}
      /\ UNCHANGED <<stockItems, itemsMade, itemFailed>>
      /\ itemSave' = {[t EXCEPT !.mine = FALSE] : t \in itemSave \ {s}}
      /\ itemSaid' = {[id |-> i, draft |-> s.draft] : i \in IF s.mine /\ ~s.met THEN s.id ELSE {}}
  BY DEF Editor!Saved, Editor!AllAreSaved
<1>2. itemSaid' # {} => itemSave \ {s} = {} /\ Editor!SavedIsStored'
  <2> SUFFICES ASSUME itemSaid' # {} PROVE itemSave \ {s} = {} /\ Editor!SavedIsStored' OBVIOUS
  <2>1. s.mine /\ ~s.met BY <1>1
  <2>2. itemSave = {s} BY <2>1 DEF ItemEditorIInv, SavesAreApart
  <2>3. ASSUME NEW i \in s.id, NEW x, x = [id |-> i, draft |-> s.draft]
        PROVE  stockItems[x.id].method = x.draft.method /\ \A d \in Editor!Day :
                 stockItems[x.id].pars[d] = Editor!ParOf(x.draft, d)
    <3>1. x.id = i /\ x.draft = s.draft BY <2>3
    <3>2. stockItems[i].method = s.draft.method /\ \A d \in Editor!Day :
            stockItems[i].pars[d] = Editor!ParOf(s.draft, d)
      BY <1>1, <2>1 DEF ItemEditorIInv, PartsAreStored
    <3> QED BY <3>1, <3>2
  <2>4. \A x \in itemSaid' : stockItems[x.id].method = x.draft.method /\ \A d \in Editor!Day :
          stockItems[x.id].pars[d] = Editor!ParOf(x.draft, d)
    BY <1>1, <2>1, <2>3
  <2> QED BY <1>1, <2>2, <2>4 DEF Editor!SavedIsStored
<1> QED BY <1>1, <1>2, ItemClosed

(* The form is loaded and edited.                                          *)
LEMMA ItemEdited ==
  ASSUME ItemEditorIInv, NEW p \in itemPage,
         Editor!Read(p) \/ Editor!Loaded(p) \/ (\E draft : Editor!Edit(p, draft))
  PROVE  ItemEditorIInv'
<1>1. UNCHANGED <<stockItems, itemSave, itemsMade, itemFailed, itemSaid>> BY DEF Editor!Read, Editor!Loaded,
     Editor!Edit
<1>2. (\A c, d \in itemPage' : c = d) /\ itemPage' # {} BY DEF Editor!Read, Editor!Loaded, Editor!Edit,
     ItemEditorIInv, ItemTypes
<1>3. ItemTypes' BY <1>1, <1>2 DEF ItemEditorIInv, ItemTypes, ItemSteps
<1>4. SavesAreApart' BY <1>1, <1>2 DEF ItemEditorIInv, SavesAreApart
<1>5. itemSaid = {} BY DEF ItemEditorIInv, PartsAreStored
<1>6. PartsAreStored' BY <1>1, <1>5 DEF ItemEditorIInv, PartsAreStored, Editor!SavedIsStored
<1>7. FirstIsMade' BY <1>1 DEF ItemEditorIInv, FirstIsMade
<1> QED BY <1>3, <1>4, <1>6, <1>7 DEF ItemEditorIInv

(* Saves that are on their way meet what comes after them.                 *)
LEMMA SavesMet ==
  ASSUME ItemEditorIInv, NEW q, q \in {[s EXCEPT !.met = TRUE] : s \in itemSave}
  PROVE  /\ DOMAIN q = ItemSaveFields /\ q.met = TRUE /\ ItemSteps(q)
         /\ \E s \in itemSave : /\ q = [s EXCEPT !.met = TRUE] /\ q.mine = s.mine /\ q.step = s.step
                                /\ s.mine \in BOOLEAN
<1>1. PICK s \in itemSave : q = [s EXCEPT !.met = TRUE] OBVIOUS
<1>2. DOMAIN s = ItemSaveFields /\ s.mine \in BOOLEAN /\ ItemSteps(s) BY DEF ItemEditorIInv, ItemTypes
<1>3. DOMAIN q = ItemSaveFields /\ q.met = TRUE /\ q.mine = s.mine /\ q.step = s.step /\ q.pars = s.pars /\ q.id = s.id
  BY <1>1, <1>2 DEF ItemSaveFields
<1>4. ItemSteps(q) BY <1>2, <1>3 DEF ItemSteps
<1> QED BY <1>1, <1>2, <1>3, <1>4

(* The item is sent as the draft has it.                                   *)
LEMMA ItemSubmitted ==
  ASSUME ItemEditorIInv, NEW p \in itemPage, Editor!Submit(p)
  PROVE  ItemEditorIInv'
<1> DEFINE new == [id |-> p.id, step |-> "item", draft |-> p.draft, mine |-> TRUE, met |-> itemSave # {},
                   pars |-> {}, refused |-> {}]
           others == {[s EXCEPT !.met = TRUE] : s \in itemSave}
<1>1. /\ itemSave' = others \cup {new} /\ UNCHANGED <<stockItems, itemPage, itemsMade, itemFailed, itemSaid>>
      /\ \A s \in itemSave : ~s.mine
  BY DEF Editor!Submit, Editor!Saving
<1>2. /\ DOMAIN new = ItemSaveFields /\ new.step = "item" /\ new.pars = {} /\ new.mine = TRUE /\ new.met \in BOOLEAN
      /\ (~new.met <=> itemSave = {})
  BY DEF ItemSaveFields
<1>3. \A q \in others : /\ DOMAIN q = ItemSaveFields /\ q.met = TRUE /\ q.mine = FALSE /\ ItemSteps(q)
  BY <1>1, SavesMet
<1>4. itemSave = {} => others = {} OBVIOUS
<1> HIDE DEF new, others
<1>11. ItemSteps(new) BY <1>2 DEF ItemSteps
<1>5. ItemTypes' BY <1>1, <1>2, <1>3, <1>11 DEF ItemEditorIInv, ItemTypes, ItemSteps
<1>6. SavesAreApart' BY <1>1, <1>2, <1>3, <1>4 DEF SavesAreApart
<1>7. itemSaid = {} BY DEF ItemEditorIInv, PartsAreStored
<1>8. PartsAreStored' BY <1>1, <1>2, <1>3, <1>7 DEF PartsAreStored, Editor!SavedIsStored
<1>9. ~itemFailed => itemsMade = {} BY <1>1 DEF ItemEditorIInv, FirstIsMade
<1>10. FirstIsMade' BY <1>1, <1>9 DEF FirstIsMade
<1> QED BY <1>5, <1>6, <1>8, <1>10 DEF ItemEditorIInv

(* Somebody else changes an item.                                          *)
LEMMA ItemChangedElsewhere ==
  ASSUME ItemEditorIInv, NEW i \in DOMAIN stockItems, Editor!Elsewhere(i)
  PROVE  ItemEditorIInv'
<1>1. /\ itemSave' = {[s EXCEPT !.met = TRUE] : s \in itemSave} /\ itemSaid' = {}
      /\ UNCHANGED <<itemPage, itemsMade, itemFailed>>
      /\ \E method : stockItems' = [stockItems EXCEPT ![i].method = method]
  BY DEF Editor!Elsewhere
<1>2. /\ \A q \in itemSave' : /\ DOMAIN q = ItemSaveFields /\ q.met = TRUE /\ ItemSteps(q)
                              /\ \E s \in itemSave : /\ q = [s EXCEPT !.met = TRUE] /\ q.mine = s.mine /\ q.step = s.step
                                                     /\ s.mine \in BOOLEAN
  BY <1>1, SavesMet
<1>3. \A j \in DOMAIN stockItems' : DOMAIN stockItems'[j] = {"method", "pars"} /\
        DOMAIN stockItems'[j].pars = Editor!Day
  BY <1>1 DEF ItemEditorIInv, ItemTypes
<1>4. ItemTypes' BY <1>1, <1>2, <1>3 DEF ItemEditorIInv, ItemTypes, ItemSteps
<1>5. SavesAreApart'
  <2>1. ASSUME NEW q \in itemSave', NEW r \in itemSave', q.mine, r.mine PROVE q = r
    <3>1. PICK s \in itemSave : q = [s EXCEPT !.met = TRUE] /\ q.mine = s.mine BY <1>2
    <3>2. PICK t \in itemSave : r = [t EXCEPT !.met = TRUE] /\ r.mine = t.mine BY <1>2
    <3>3. s = t BY <2>1, <3>1, <3>2 DEF ItemEditorIInv, SavesAreApart
    <3> QED BY <3>1, <3>2, <3>3
  <2> QED BY <1>1, <1>2, <2>1 DEF ItemEditorIInv, SavesAreApart
<1>6. PartsAreStored' BY <1>1, <1>2 DEF PartsAreStored, Editor!SavedIsStored
<1>7. FirstIsMade'
  <2>1. (\E s \in itemSave : s.mine /\ s.step = "pars") => \E q \in itemSave' : q.mine /\ q.step = "pars"
    <3> SUFFICES ASSUME NEW s \in itemSave, s.mine, s.step = "pars"
                 PROVE \E q \in itemSave' : q.mine /\ q.step = "pars" OBVIOUS
    <3>1. PICK q : q = [s EXCEPT !.met = TRUE] OBVIOUS
    <3>2. q.mine = s.mine /\ q.step = s.step BY <3>1 DEF ItemEditorIInv, ItemTypes, ItemSaveFields
    <3>3. q \in itemSave' BY <1>1, <3>1
    <3> QED BY <3>2, <3>3
  <2> QED BY <1>1, <2>1 DEF ItemEditorIInv, FirstIsMade
<1> QED BY <1>4, <1>5, <1>6, <1>7 DEF ItemEditorIInv

(* One save goes a step on, and what it stores, only it has touched.       *)
LEMMA ItemReplaced ==
  ASSUME ItemEditorIInv, NEW s \in itemSave, NEW q, Editor!Replace(s, q),
           UNCHANGED <<itemPage, itemFailed, itemSaid>>,
         DOMAIN q = ItemSaveFields, q.mine = s.mine, q.met = s.met, q.step = "pars", ItemSteps(q),
         \A i \in DOMAIN stockItems' : DOMAIN stockItems'[i] = {"method", "pars"} /\
           DOMAIN stockItems'[i].pars = Editor!Day,
         q.mine /\ ~q.met =>
           \A i \in q.id : /\ i \in DOMAIN stockItems' /\ stockItems'[i].method = q.draft.method
                           /\ \A d \in q.pars \ q.refused : stockItems'[i].pars[d] = Editor!ParOf(q.draft, d),
         itemsMade' = itemsMade \/ (s.mine /\ s.step = "item" /\ \E i : itemsMade' = itemsMade \cup {i})
  PROVE  ItemEditorIInv'
<1>1. itemSave' = (itemSave \ {s}) \cup {q} BY DEF Editor!Replace
<1>2. s.mine \in BOOLEAN /\ s.met \in BOOLEAN BY DEF ItemEditorIInv, ItemTypes
<1>3. ItemTypes' BY <1>1, <1>2 DEF ItemEditorIInv, ItemTypes, ItemSteps
<1>4. SavesAreApart'
  <2>1. ASSUME NEW x \in itemSave', ~x.met PROVE itemSave' = {x}
    <3>1. CASE x = q
      <4>1. itemSave = {s} BY <2>1, <3>1 DEF ItemEditorIInv, SavesAreApart
      <4> QED BY <1>1, <3>1, <4>1
    <3>2. CASE x # q
      <4>1. x \in itemSave /\ x # s BY <1>1, <3>2
      <4>2. itemSave = {x} BY <2>1, <4>1 DEF ItemEditorIInv, SavesAreApart
      <4> QED BY <4>1, <4>2
    <3> QED BY <3>1, <3>2
  <2>2. \A x \in itemSave' : x = q \/ (x \in itemSave /\ x # s) BY <1>1
  <2>3. \A x, y \in itemSave' : x.mine /\ y.mine => x = y BY <2>2 DEF ItemEditorIInv, SavesAreApart
  <2>4. \A x \in itemSave' : x.mine => itemPage' # {} BY <2>2 DEF ItemEditorIInv, SavesAreApart
  <2> QED BY <2>1, <2>3, <2>4 DEF SavesAreApart
<1>5. itemSaid = {} BY DEF ItemEditorIInv, PartsAreStored
<1>6. PartsAreStored'
  <2>1. ASSUME NEW x \in itemSave', x.mine, ~x.met, x # q PROVE FALSE
    <3>1. x \in itemSave /\ x # s BY <1>1, <2>1
    <3> QED BY <2>1, <3>1 DEF ItemEditorIInv, SavesAreApart
  <2> QED BY <1>5, <2>1 DEF PartsAreStored, Editor!SavedIsStored
<1>7. FirstIsMade'
  <2>1. q \in itemSave' BY <1>1
  <2>2. CASE itemsMade' = itemsMade
    <3>1. (\E t \in itemSave : t.mine /\ t.step = "pars") => \E t \in itemSave' : t.mine /\ t.step = "pars"
      BY <1>1, <2>1
    <3> QED BY <2>2, <3>1 DEF ItemEditorIInv, FirstIsMade
  <2>3. CASE s.mine /\ s.step = "item" /\ \E i : itemsMade' = itemsMade \cup {i}
    <3>1. ~itemFailed => itemsMade = {} BY <2>3 DEF ItemEditorIInv, FirstIsMade, SavesAreApart
    <3> QED BY <2>1, <2>3, <3>1 DEF FirstIsMade
  <2> QED BY <2>2, <2>3
<1> QED BY <1>3, <1>4, <1>6, <1>7 DEF ItemEditorIInv

(* The item of a save is stored.                                           *)
LEMMA ItemStored ==
  ASSUME ItemEditorIInv, NEW s \in itemSave, Editor!StoreItem(s)
  PROVE  ItemEditorIInv'
<1>1. PICK i \in IF s.id = {} THEN StockItem \ DOMAIN stockItems ELSE s.id :
        /\ stockItems' = [j \in DOMAIN stockItems \cup {i} |->
                            IF j = i THEN [method |-> s.draft.method, pars |-> IF s.id = {} THEN Editor!NoPar
                              ELSE stockItems[i].pars]
                            ELSE stockItems[j]]
        /\ itemsMade' = IF s.id = {} /\ s.mine THEN itemsMade \cup {i} ELSE itemsMade
        /\ Editor!Replace(s, [s EXCEPT !.id = {i}, !.step = "pars"])
  BY DEF Editor!StoreItem
<1> DEFINE q == [s EXCEPT !.id = {i}, !.step = "pars"]
<1>2. s.step = "item" /\ s.id \subseteq DOMAIN stockItems /\ UNCHANGED <<itemPage, itemFailed, itemSaid>> BY
     DEF Editor!StoreItem
<1>3. DOMAIN s = ItemSaveFields /\ s.pars = {} BY <1>2 DEF ItemEditorIInv, ItemTypes, ItemSteps
<1>4. /\ DOMAIN q = ItemSaveFields /\ q.mine = s.mine /\ q.met = s.met /\ q.step = "pars" /\ q.id = {i}
      /\ q.draft = s.draft /\ q.pars = s.pars
  BY <1>3 DEF ItemSaveFields
<1>5. Editor!Replace(s, q) BY <1>1
<1> HIDE DEF q
<1>6. \A j \in DOMAIN stockItems : DOMAIN stockItems[j] = {"method", "pars"} /\ DOMAIN stockItems[j].pars = Editor!Day
  BY DEF ItemEditorIInv, ItemTypes
<1> DEFINE row == [method |-> s.draft.method, pars |-> IF s.id = {} THEN Editor!NoPar ELSE stockItems[i].pars]
<1>7. DOMAIN row = {"method", "pars"} /\ row.method = s.draft.method /\ DOMAIN row.pars = Editor!Day
  <2>1. DOMAIN Editor!NoPar = Editor!Day BY DEF Editor!NoPar
  <2>2. s.id # {} => DOMAIN stockItems[i].pars = Editor!Day BY <1>2, <1>6
  <2> QED BY <2>1, <2>2
<1>8. stockItems' = [j \in DOMAIN stockItems \cup {i} |-> IF j = i THEN row ELSE stockItems[j]] BY <1>1
<1> HIDE DEF row
<1>9. \A j \in DOMAIN stockItems' : DOMAIN stockItems'[j] = {"method", "pars"} /\
        DOMAIN stockItems'[j].pars = Editor!Day
  BY <1>6, <1>7, <1>8
<1>10. i \in DOMAIN stockItems' /\ stockItems'[i].method = s.draft.method BY <1>7, <1>8
<1>11. q.pars = {} /\ ItemSteps(q) BY <1>3, <1>4 DEF ItemSteps
<1> QED BY <1>1, <1>2, <1>4, <1>5, <1>9, <1>10, <1>11, ItemReplaced
(* A par is stored or refused, or its answer is lost.                      *)
LEMMA ParStored ==
  ASSUME ItemEditorIInv, NEW s \in itemSave, NEW d \in Editor!Day, Editor!StorePar(s, d) \/ Editor!LosePar(s, d)
  PROVE  ItemEditorIInv'
<1>1. s.step = "pars" /\ UNCHANGED <<itemPage, itemsMade, itemFailed, itemSaid>> BY DEF Editor!StorePar,
     Editor!LosePar
<1>2. DOMAIN s = ItemSaveFields /\ s.pars \subseteq Editor!Day /\ (\A i, j \in s.id : i = j)
  BY <1>1 DEF ItemEditorIInv, ItemTypes, ItemSteps
<1>3. \A j \in DOMAIN stockItems : DOMAIN stockItems[j] = {"method", "pars"} /\ DOMAIN stockItems[j].pars = Editor!Day
  BY DEF ItemEditorIInv, ItemTypes
<1>4. s.mine /\ ~s.met =>
        \A i \in s.id : /\ i \in DOMAIN stockItems /\ stockItems[i].method = s.draft.method
                        /\ \A e \in s.pars \ s.refused : stockItems[i].pars[e] = Editor!ParOf(s.draft, e)
  BY <1>1 DEF ItemEditorIInv, PartsAreStored
<1>5. CASE Editor!LosePar(s, d)
  <2> DEFINE q == [s EXCEPT !.pars = s.pars \cup {d}, !.refused = s.refused \cup {d}]
  <2>1. Editor!Replace(s, q) /\ stockItems' = stockItems BY <1>5 DEF Editor!LosePar
  <2>2. /\ DOMAIN q = ItemSaveFields /\ q.mine = s.mine /\ q.met = s.met /\ q.step = "pars" /\ q.id = s.id
        /\ q.draft = s.draft /\ q.pars = s.pars \cup {d} /\ q.refused = s.refused \cup {d}
    BY <1>1, <1>2 DEF ItemSaveFields
  <2> HIDE DEF q
  <2>3. q.mine /\ ~q.met =>
          \A i \in q.id : /\ i \in DOMAIN stockItems' /\ stockItems'[i].method = q.draft.method
                          /\ \A e \in q.pars \ q.refused : stockItems'[i].pars[e] = Editor!ParOf(q.draft, e)
    BY <1>4, <2>1, <2>2
  <2>4. ItemSteps(q) BY <1>2, <2>2 DEF ItemSteps
  <2> QED BY <1>1, <1>3, <2>1, <2>2, <2>3, <2>4, ItemReplaced
<1>6. CASE Editor!StorePar(s, d)
  <2>1. PICK i \in s.id, taken \in BOOLEAN :
          /\ taken <=> i \in DOMAIN stockItems /\ stockItems[i].method = s.draft.method
          /\ stockItems' = IF taken THEN [stockItems EXCEPT ![i].pars[d] = Editor!ParOf(s.draft, d)] ELSE stockItems
          /\ Editor!Replace(s, [s EXCEPT !.pars = s.pars \cup {d},
               !.refused = s.refused \cup (IF taken THEN {} ELSE {d})])
    <3>1. PICK i \in s.id :
            LET isTaken == i \in DOMAIN stockItems /\ stockItems[i].method = s.draft.method
            IN /\ stockItems' = IF isTaken THEN [stockItems EXCEPT ![i].pars[d] = Editor!ParOf(s.draft, d)] ELSE stockItems
               /\ Editor!Replace(s, [s EXCEPT !.pars = s.pars \cup {d},
                                              !.refused = s.refused \cup (IF isTaken THEN {} ELSE {d})])
      BY <1>6 DEF Editor!StorePar
    <3>2. PICK taken \in BOOLEAN : taken <=> i \in DOMAIN stockItems /\ stockItems[i].method = s.draft.method OBVIOUS
    <3>3. CASE taken BY <3>1, <3>2, <3>3
    <3>4. CASE ~taken BY <3>1, <3>2, <3>4
    <3> QED BY <3>3, <3>4
  <2> DEFINE q == [s EXCEPT !.pars = s.pars \cup {d}, !.refused = s.refused \cup (IF taken THEN {} ELSE {d})]
  <2>2. Editor!Replace(s, q) BY <2>1
  <2>3. /\ DOMAIN q = ItemSaveFields /\ q.mine = s.mine /\ q.met = s.met /\ q.step = "pars" /\ q.id = s.id
        /\ q.draft = s.draft /\ q.pars = s.pars \cup {d} /\ q.refused = s.refused \cup (IF taken THEN {} ELSE {d})
    BY <1>1, <1>2 DEF ItemSaveFields
  <2> HIDE DEF q
  <2> DEFINE par == Editor!ParOf(s.draft, d)
  <2>4. /\ DOMAIN stockItems' = DOMAIN stockItems
        /\ \A j \in DOMAIN stockItems : /\ DOMAIN stockItems'[j] = {"method", "pars"} /\ DOMAIN stockItems'[j].pars = Editor!Day
                                        /\ stockItems'[j].method = stockItems[j].method
                                        /\ \A e \in Editor!Day : stockItems'[j].pars[e] = IF taken /\ j = i /\ e = d
                                             THEN par
                                                                                          ELSE stockItems[j].pars[e]
    <3> HIDE DEF par
    <3>1. CASE taken
      <4>1. stockItems' = [stockItems EXCEPT ![i].pars[d] = par] BY <2>1, <3>1 DEF par
      <4> QED BY <1>3, <3>1, <4>1
    <3>2. CASE ~taken BY <1>3, <2>1, <3>2
    <3> QED BY <3>1, <3>2
  <2>5. q.mine /\ ~q.met =>
          \A j \in q.id : /\ j \in DOMAIN stockItems' /\ stockItems'[j].method = q.draft.method
                          /\ \A e \in q.pars \ q.refused : stockItems'[j].pars[e] = Editor!ParOf(q.draft, e)
    <3> SUFFICES ASSUME s.mine, ~s.met, NEW j \in s.id
                 PROVE  /\ j \in DOMAIN stockItems' /\ stockItems'[j].method = s.draft.method
                        /\ \A e \in q.pars \ q.refused : stockItems'[j].pars[e] = Editor!ParOf(s.draft, e)
      BY <2>3
    <3>1. /\ j \in DOMAIN stockItems /\ stockItems[j].method = s.draft.method
          /\ \A e \in s.pars \ s.refused : stockItems[j].pars[e] = Editor!ParOf(s.draft, e)
      BY <1>4
    <3>2. j = i BY <1>2
    <3>3. ASSUME NEW e \in q.pars \ q.refused PROVE stockItems'[j].pars[e] = Editor!ParOf(s.draft, e)
      <4>1. e \in Editor!Day /\ e \notin s.refused /\ (e \in s.pars \/ e = d) /\ (~taken => e # d) BY <1>2, <2>3
      <4>2. CASE taken /\ e = d BY <2>4, <3>1, <3>2, <4>1, <4>2
      <4>3. CASE ~(taken /\ e = d)
        <5>1. e \in s.pars BY <4>1, <4>3
        <5>2. stockItems'[j].pars[e] = stockItems[j].pars[e] BY <2>4, <3>1, <4>1, <4>3
        <5> QED BY <3>1, <4>1, <5>1, <5>2
      <4> QED BY <4>2, <4>3
    <3> QED BY <2>4, <3>1, <3>3
  <2>6. \A j \in DOMAIN stockItems' : DOMAIN stockItems'[j] = {"method", "pars"} /\
          DOMAIN stockItems'[j].pars = Editor!Day BY <2>4
  <2>7. ItemSteps(q) BY <1>2, <2>3 DEF ItemSteps
  <2> QED BY <1>1, <2>2, <2>3, <2>5, <2>6, <2>7, ItemReplaced
<1> QED BY <1>5, <1>6

(* A save ends without all that it sent.                                   *)
LEMMA ItemRefused ==
  ASSUME ItemEditorIInv, NEW s \in itemSave, Editor!ParsRefused(s) \/ Editor!SaveFailed(s)
  PROVE  ItemEditorIInv'
<1>1. itemSave' = itemSave \ {s} /\ itemFailed' = (itemFailed \/ s.mine) /\
        UNCHANGED <<stockItems, itemPage, itemsMade, itemSaid>>
  BY DEF Editor!ParsRefused, Editor!SaveFailed
<1>2. ItemTypes' BY <1>1 DEF ItemEditorIInv, ItemTypes, ItemSteps
<1>3. SavesAreApart' BY <1>1 DEF ItemEditorIInv, SavesAreApart
<1>4. itemSaid = {} BY DEF ItemEditorIInv, PartsAreStored
<1>5. PartsAreStored' BY <1>1, <1>4 DEF ItemEditorIInv, PartsAreStored, Editor!SavedIsStored
<1>6. FirstIsMade'
  <2> SUFFICES ASSUME ~itemFailed' PROVE FirstIsMade' BY DEF FirstIsMade
  <2>1. ~itemFailed /\ ~s.mine BY <1>1
  <2> QED BY <1>1, <2>1 DEF ItemEditorIInv, FirstIsMade
<1> QED BY <1>2, <1>3, <1>5, <1>6 DEF ItemEditorIInv

(* The invariant holds throughout.                                         *)
THEOREM ItemEditorInvariant == Editor!Spec => []ItemEditorIInv
<1>1. ItemEditorIInv /\ [Editor!Next]_(Editor!vars) => ItemEditorIInv'
  <2> SUFFICES ASSUME ItemEditorIInv, [Editor!Next]_(Editor!vars) PROVE ItemEditorIInv' OBVIOUS
  <2>1. CASE UNCHANGED Editor!vars
    <3> USE <2>1 DEF Editor!vars
    <3>1. ItemTypes' BY DEF ItemEditorIInv, ItemTypes
    <3>2. SavesAreApart' BY DEF ItemEditorIInv, SavesAreApart
    <3>3. PartsAreStored' BY DEF ItemEditorIInv, PartsAreStored, Editor!SavedIsStored
    <3>4. FirstIsMade' BY DEF ItemEditorIInv, FirstIsMade
    <3> QED BY <3>1, <3>2, <3>3, <3>4 DEF ItemEditorIInv
  <2>2. ASSUME NEW id, Editor!Open(id) PROVE ItemEditorIInv' BY <2>2, ItemOpened
  <2>3. ASSUME NEW i \in DOMAIN stockItems, Editor!Elsewhere(i) PROVE ItemEditorIInv' BY <2>3, ItemChangedElsewhere
  <2>4. ASSUME Editor!Leave \/ \E p \in itemPage : Editor!Remove(p) PROVE ItemEditorIInv' BY <2>4, ItemLeft
  <2>5. ASSUME NEW p \in itemPage, Editor!Read(p) \/ Editor!Loaded(p) PROVE ItemEditorIInv' BY <2>5, ItemEdited
  <2>6. ASSUME NEW p \in itemPage, NEW draft, Editor!Edit(p, draft) PROVE ItemEditorIInv' BY <2>6, ItemEdited
  <2>7. ASSUME NEW p \in itemPage, Editor!Submit(p) PROVE ItemEditorIInv' BY <2>7, ItemSubmitted
  <2>8. ASSUME NEW p \in itemPage, NEW method \in Editor!Method, Editor!SetCountMethod(p, method) PROVE ItemEditorIInv'
    BY <2>6, <2>8 DEF Editor!SetCountMethod
  <2>9. ASSUME NEW p \in itemPage, NEW d \in Editor!Day, Editor!SetPar(p, d) PROVE ItemEditorIInv'
    <3>1. \E draft : Editor!Edit(p, draft) BY <2>9 DEF Editor!SetPar
    <3> QED BY <2>6, <3>1
  <2>10. ASSUME NEW s \in itemSave, Editor!StoreItem(s) PROVE ItemEditorIInv' BY <2>10, ItemStored
  <2>11. ASSUME NEW s \in itemSave, Editor!Saved(s) PROVE ItemEditorIInv' BY <2>11, ItemSaved
  <2>12. ASSUME NEW s \in itemSave, Editor!ParsRefused(s) \/ Editor!SaveFailed(s) PROVE ItemEditorIInv' BY <2>12,
       ItemRefused
  <2>13. ASSUME NEW s \in itemSave, NEW d \in Editor!Day, Editor!StorePar(s, d) \/ Editor!LosePar(s, d)
         PROVE ItemEditorIInv'
    BY <2>13, ParStored
  <2> QED BY <2>1, <2>2, <2>3, <2>4, <2>5, <2>7, <2>8, <2>9, <2>10, <2>11, <2>12, <2>13 DEF Editor!Next
<1> QED BY <1>1, ItemEditorStarts, PTL DEF Editor!Spec

(* What the page was left with is stored, and a form makes one item.       *)
THEOREM ItemEditorHolds == Editor!Spec => []Editor!ItemEditorInv
<1>1. ItemEditorIInv => Editor!ItemEditorInv
  <2> SUFFICES ASSUME ItemEditorIInv PROVE Editor!ItemEditorInv OBVIOUS
  <2>1. Editor!SavedIsStored BY DEF ItemEditorIInv, PartsAreStored
  <2>2. ASSUME ~itemFailed PROVE Cardinality(itemsMade) <= 1
    <3>1. \A i, j \in itemsMade : i = j BY <2>2 DEF ItemEditorIInv, FirstIsMade
    <3>2. CASE itemsMade = {} BY <3>2, FS_EmptySet
    <3>3. CASE itemsMade # {}
      <4>1. PICK i \in itemsMade : TRUE BY <3>3
      <4>2. itemsMade = {i} BY <3>1, <4>1
      <4>3. Cardinality(itemsMade) = 1 BY <4>2, FS_Singleton
      <4> QED BY <4>3
    <3> QED BY <3>2, <3>3
  <2> QED BY <2>1, <2>2, EditorCardinality DEF Editor!ItemEditorInv, Editor!OneItemIsMade
<1> QED BY <1>1, ItemEditorInvariant, PTL
-----------------------------------------------------------------------------
(* The pages side by side.                                                 *)

(* A list that has loaded is what the server keeps, and a form that closed *)
(* by itself has stored what it held.                                      *)
THEOREM AdminOfThePages == PagesSpec => []AdminPagesInv
BY AdjustmentsHold, RosterHolds, EmploymentDialogHolds, ItemEditorHolds, PTL DEF PagesSpec, AdminPagesInv
=============================================================================
