---------------------------- MODULE Records_proof ----------------------------
(***************************************************************************)
(* The parts keep their promises beside each other: the shop's tables side *)
(* by side run each part's specification, because no service writes the    *)
(* tables of another, so what is proved of a part holds of the whole.      *)
(***************************************************************************)
EXTENDS Records, SequenceTheorems, FiniteSetTheorems, WellFoundedInduction, TLAPS

(* A function by its domain, whatever its values.                          *)
IsFunctionOn(f, S) == f = [x \in S |-> f[x]]

(* A step of the shop is a step, or a stutter, of every part.              *)
LEMMA EachPartSteps ==
  ASSUME [RecordsNext]_records
  PROVE  /\ [Lines!Next]_(Lines!vars)
         /\ [Counts!Next]_(Counts!vars)
         /\ [Items!Next]_(Items!vars)
         /\ [Accounts!Next]_(Accounts!vars)
         /\ [Journal!Next]_(Journal!vars)
         /\ [Schedule!Next]_(Schedule!vars)
         /\ [Catalog!Next]_(Catalog!vars)
         /\ [Employment!Next]_(Employment!vars)
         /\ [Payroll!Next]_(Payroll!vars)
         /\ [Access!Next]_(Access!vars)
<1>1. [Lines!Next]_(Lines!vars)
  <2>1. Lines!Next \/ UNCHANGED lines
    BY DEF RecordsNext, records, LinesStep, CountsStep, ItemsStep, AccountsStep,
       JournalStep, ScheduleStep, CatalogStep, EmploymentStep, PayrollStep, AccessStep
  <2> QED BY <2>1 DEF lines, Lines!vars
<1>2. [Counts!Next]_(Counts!vars)
  <2>1. Counts!Next \/ UNCHANGED counts
    BY DEF RecordsNext, records, LinesStep, CountsStep, ItemsStep, AccountsStep,
       JournalStep, ScheduleStep, CatalogStep, EmploymentStep, PayrollStep, AccessStep
  <2> QED BY <2>1 DEF counts, Counts!vars
<1>3. [Items!Next]_(Items!vars)
  <2>1. Items!Next \/ UNCHANGED items
    BY DEF RecordsNext, records, LinesStep, CountsStep, ItemsStep, AccountsStep,
       JournalStep, ScheduleStep, CatalogStep, EmploymentStep, PayrollStep, AccessStep
  <2> QED BY <2>1 DEF items, Items!vars
<1>4. [Accounts!Next]_(Accounts!vars)
  <2>1. Accounts!Next \/ UNCHANGED accounts
    BY DEF RecordsNext, records, LinesStep, CountsStep, ItemsStep, AccountsStep,
       JournalStep, ScheduleStep, CatalogStep, EmploymentStep, PayrollStep, AccessStep
  <2> QED BY <2>1 DEF accounts, Accounts!vars
<1>5. [Journal!Next]_(Journal!vars)
  <2>1. Journal!Next \/ UNCHANGED journal
    BY DEF RecordsNext, records, LinesStep, CountsStep, ItemsStep, AccountsStep,
       JournalStep, ScheduleStep, CatalogStep, EmploymentStep, PayrollStep, AccessStep
  <2> QED BY <2>1 DEF journal, Journal!vars
<1>6. [Schedule!Next]_(Schedule!vars)
  <2>1. Schedule!Next \/ UNCHANGED schedule
    BY DEF RecordsNext, records, LinesStep, CountsStep, ItemsStep, AccountsStep,
       JournalStep, ScheduleStep, CatalogStep, EmploymentStep, PayrollStep, AccessStep
  <2> QED BY <2>1 DEF schedule, Schedule!vars
<1>7. [Catalog!Next]_(Catalog!vars)
  <2>1. Catalog!Next \/ UNCHANGED catalog
    BY DEF RecordsNext, records, LinesStep, CountsStep, ItemsStep, AccountsStep,
       JournalStep, ScheduleStep, CatalogStep, EmploymentStep, PayrollStep, AccessStep
  <2> QED BY <2>1 DEF catalog, Catalog!vars
<1>8. [Employment!Next]_(Employment!vars)
  <2>1. Employment!Next \/ UNCHANGED employment
    BY DEF RecordsNext, records, LinesStep, CountsStep, ItemsStep, AccountsStep,
       JournalStep, ScheduleStep, CatalogStep, EmploymentStep, PayrollStep, AccessStep
  <2> QED BY <2>1 DEF employment, Employment!vars
<1>9. [Payroll!Next]_(Payroll!vars)
  <2>1. Payroll!Next \/ UNCHANGED payslips
    BY DEF RecordsNext, records, LinesStep, CountsStep, ItemsStep, AccountsStep,
       JournalStep, ScheduleStep, CatalogStep, EmploymentStep, PayrollStep, AccessStep
  <2> QED BY <2>1 DEF payslips, Payroll!vars
<1>10. [Access!Next]_(Access!vars)
  <2>1. Access!Next \/ UNCHANGED access
    BY DEF RecordsNext, records, LinesStep, CountsStep, ItemsStep, AccountsStep,
       JournalStep, ScheduleStep, CatalogStep, EmploymentStep, PayrollStep, AccessStep
  <2> QED BY <2>1 DEF access, Access!vars
<1> QED BY <1>1, <1>2, <1>3, <1>4, <1>5, <1>6, <1>7, <1>8, <1>9, <1>10

(* The shop runs the order lines.                                        *)
LEMMA RunsLines == RecordsSpec => Lines!Spec
<1>1. RecordsInit => Lines!Init
  BY DEF RecordsInit
<1>2. [RecordsNext]_records => [Lines!Next]_(Lines!vars)
  BY EachPartSteps
<1> QED BY <1>1, <1>2, PTL DEF RecordsSpec, Lines!Spec

(* The shop runs the stock counts.                                       *)
LEMMA RunsCounts == RecordsSpec => Counts!Spec
<1>1. RecordsInit => Counts!Init
  BY DEF RecordsInit
<1>2. [RecordsNext]_records => [Counts!Next]_(Counts!vars)
  BY EachPartSteps
<1> QED BY <1>1, <1>2, PTL DEF RecordsSpec, Counts!Spec

(* The shop runs the schedule.                                           *)
LEMMA RunsSchedule == RecordsSpec => Schedule!Spec
<1>1. RecordsInit => Schedule!Init
  BY DEF RecordsInit
<1>2. [RecordsNext]_records => [Schedule!Next]_(Schedule!vars)
  BY EachPartSteps
<1> QED BY <1>1, <1>2, PTL DEF RecordsSpec, Schedule!Spec

(* The shop runs the catalog.                                            *)
LEMMA RunsCatalog == RecordsSpec => Catalog!Spec
<1>1. RecordsInit => Catalog!Init
  BY DEF RecordsInit
<1>2. [RecordsNext]_records => [Catalog!Next]_(Catalog!vars)
  BY EachPartSteps
<1> QED BY <1>1, <1>2, PTL DEF RecordsSpec, Catalog!Spec

(* From whichever roster it opened with, the shop runs the accounts.       *)
LEMMA RunsAccounts == RecordsSpec => \E r \in FirstRoster : Accounts!SpecWith(r.users, r.members)
<1>1. RecordsInit => AccountsInit
  BY DEF RecordsInit
<1>2. [RecordsNext]_records => [Accounts!Next]_(Accounts!vars)
  BY EachPartSteps
<1>3. RecordsSpec => AccountsInit /\ [][Accounts!Next]_(Accounts!vars)
  BY <1>1, <1>2, PTL DEF RecordsSpec
<1> QED BY <1>3 DEF AccountsInit, Accounts!SpecWith

-----------------------------------------------------------------------------
(* Employment.                                                             *)

(* A field's definition is a row of the table.                             *)
IsDefinitionRow(d) ==
  d = [label |-> d.label, type |-> d.type, choices |-> d.choices, archived |-> d.archived, order |-> d.order]

EmploymentShape ==
  /\ IsFunctionOn(definition, Field) /\ \A f \in Field : IsDefinitionRow(definition[f])
  /\ IsFunctionOn(fieldPc, Request) /\ IsFunctionOn(fieldArg, Request) /\ IsFunctionOn(fieldSeen, Request)
  /\ history \in Seq(Employment!EmploymentType)

(* What a request is about, and what an update has seen of the type.       *)
EmploymentCallsInv ==
  \A q \in Request :
    /\ fieldPc[q] \in {"read", "write"} => fieldArg[q] \in EmploymentCalls[q]
    /\ fieldPc[q] = "write" /\ fieldArg[q].op = "update" => fieldSeen[q].type \subseteq Employment!ToSet(history)

EmploymentIInv == EmploymentShape /\ EmploymentCallsInv /\ EmploymentInv

(* The history after one more change has the type of the change, and what  *)
(* it had.                                                                 *)
LEMMA HistoryGrows ==
  ASSUME NEW S, NEW h \in Seq(S), NEW v \in S
  PROVE  Append(h, v) \in Seq(S) /\ Employment!ToSet(Append(h, v)) = Employment!ToSet(h) \cup {v}
<1>1. Len(h) \in Nat /\ DOMAIN h = 1 .. Len(h) /\ DOMAIN Append(h, v) = 1 .. Len(h) + 1
  BY AppendProperties, LenProperties
<1>2. /\ \A i \in 1 .. Len(h) : Append(h, v)[i] = h[i]
      /\ Append(h, v)[Len(h) + 1] = v
  BY AppendProperties
<1>3. \A x : x \in Employment!ToSet(Append(h, v)) <=> \E i \in 1 .. Len(h) + 1 : x = Append(h, v)[i]
  BY <1>1 DEF Employment!ToSet
<1>4. \A x : x \in Employment!ToSet(h) <=> \E i \in 1 .. Len(h) : x = h[i]
  BY <1>1 DEF Employment!ToSet
<1>5. \A i \in 1 .. Len(h) + 1 : i \in 1 .. Len(h) \/ i = Len(h) + 1
  BY <1>1
<1>6. 1 .. Len(h) \subseteq 1 .. Len(h) + 1 /\ Len(h) + 1 \in 1 .. Len(h) + 1
  BY <1>1
<1> QED BY <1>2, <1>3, <1>4, <1>5, <1>6, AppendProperties

(* A request that is answered, or goes on to write having seen what it     *)
(* did, keeps the calls typed while no history is lost.                    *)
LEMMA EmploymentCallMoves ==
  ASSUME EmploymentIInv, NEW q \in Request,
         Employment!ToSet(history) \subseteq Employment!ToSet(history)',
         \/ /\ fieldPc[q] = "read"
            /\ \E read : /\ Employment!Proceed(q, read)
                         /\ fieldArg[q].op = "update" => read.type \subseteq Employment!ToSet(history)
         \/ Employment!Answer(q)
  PROVE  /\ EmploymentCallsInv'
         /\ IsFunctionOn(fieldPc, Request)' /\ IsFunctionOn(fieldArg, Request)' /\ IsFunctionOn(fieldSeen, Request)'
<1>1. /\ fieldPc = [r \in Request |-> fieldPc[r]] /\ fieldArg = [r \in Request |-> fieldArg[r]]
      /\ fieldSeen = [r \in Request |-> fieldSeen[r]]
  BY DEF EmploymentIInv, EmploymentShape, IsFunctionOn
<1>2. CASE Employment!Answer(q)
  BY <1>1, <1>2 DEF EmploymentIInv, EmploymentCallsInv, IsFunctionOn, Employment!Answer
<1>3. CASE /\ fieldPc[q] = "read"
           /\ \E read : /\ Employment!Proceed(q, read)
                        /\ fieldArg[q].op = "update" => read.type \subseteq Employment!ToSet(history)
  BY <1>1, <1>3 DEF EmploymentIInv, EmploymentCallsInv, IsFunctionOn, Employment!Proceed
<1> QED BY <1>2, <1>3

(* A first read, and a value that is saved, leave the record and the       *)
(* definitions as they are.                                                *)
LEMMA EmploymentReads ==
  ASSUME EmploymentIInv, NEW q \in Request, EmploymentAssumption,
         \/ \E c \in EmploymentCalls[q] : Employment!Begin(q, c)
         \/ Employment!UpdateRead(q) \/ Employment!CreateRead(q) \/ Employment!RedefineRead(q)
         \/ Employment!SaveRead(q) \/ Employment!SaveWrite(q)
  PROVE  EmploymentIInv'
<1>1. profile' = profile /\ history' = history /\ definition' = definition
  BY DEF Employment!Begin, Employment!UpdateRead, Employment!CreateRead, Employment!RedefineRead,
     Employment!SaveRead, Employment!SaveWrite, Employment!Tables
<1>2. EmploymentInv' /\ Employment!ToSet(history)' = Employment!ToSet(history)
  BY <1>1 DEF EmploymentIInv, EmploymentInv, Employment!EmploymentInv, Employment!EndsHaveReasons,
     Employment!TypeIsRecorded, Employment!ActiveLabelsAreDistinct, Employment!EndHasReason, Employment!IsDefined
<1>3. profile.type \subseteq Employment!ToSet(history)
  BY DEF EmploymentIInv, EmploymentInv, Employment!EmploymentInv, Employment!TypeIsRecorded
<1>4. /\ EmploymentCallsInv'
      /\ IsFunctionOn(fieldPc, Request)' /\ IsFunctionOn(fieldArg, Request)' /\ IsFunctionOn(fieldSeen, Request)'
  <2>1. CASE \E c \in EmploymentCalls[q] : Employment!Begin(q, c)
    BY <2>1, <1>2 DEF EmploymentIInv, EmploymentShape, EmploymentCallsInv, IsFunctionOn, Employment!Begin
  <2>2. CASE Employment!UpdateRead(q)
    <3>1. Employment!Proceed(q, profile) \/ Employment!Answer(q)
      BY <2>2 DEF Employment!UpdateRead
    <3> QED BY <3>1, <2>2, <1>2, <1>3, EmploymentCallMoves DEF Employment!UpdateRead
  <2>3. CASE Employment!CreateRead(q) \/ Employment!RedefineRead(q) \/ Employment!SaveRead(q)
    <3>1. /\ fieldPc[q] = "read" /\ fieldArg[q].op # "update"
          /\ (\E read : Employment!Proceed(q, read)) \/ Employment!Answer(q)
      BY <2>3 DEF Employment!CreateRead, Employment!RedefineRead, Employment!SaveRead
    <3> QED BY <3>1, <1>2, EmploymentCallMoves
  <2>4. CASE Employment!SaveWrite(q)
    <3>1. Employment!Answer(q)
      BY <2>4 DEF Employment!SaveWrite
    <3> QED BY <3>1, <1>2, EmploymentCallMoves
  <2> QED BY <2>1, <2>2, <2>3, <2>4
<1> QED BY <1>1, <1>2, <1>4 DEF EmploymentIInv, EmploymentShape, IsFunctionOn, IsDefinitionRow

(* An update writes no end without its reason, and no type that is not in  *)
(* the history: it is there already, or is added.                          *)
LEMMA EmploymentUpdates ==
  ASSUME EmploymentIInv, NEW q \in Request, EmploymentAssumption, Employment!UpdateWrite(q)
  PROVE  EmploymentIInv'
<1> DEFINE c == fieldArg[q]
           row == Employment!Written(c)
<1>1. /\ fieldPc[q] = "write" /\ c.op = "update" /\ c \in EmploymentCalls[q]
      /\ fieldSeen[q].type \subseteq Employment!ToSet(history)
  BY DEF EmploymentIInv, EmploymentCallsInv, Employment!UpdateWrite
<1>2. c.type \in Employment!Column(Employment!EmploymentType)
  BY <1>1, EmploymentAssumption DEF EmploymentAssumption, Employment!CallsAreTyped
<1>3. /\ Employment!EndHasReason(profile) /\ profile.type \subseteq Employment!ToSet(history)
      /\ history \in Seq(Employment!EmploymentType)
  BY DEF EmploymentIInv, EmploymentInv, Employment!EmploymentInv, Employment!EndsHaveReasons,
     Employment!TypeIsRecorded, EmploymentShape
<1>4. /\ definition' = definition /\ Employment!Answer(q)
      /\ \/ profile' = profile /\ history' = history
         \/ /\ Employment!EndHasReason(row) /\ profile' = row
            /\ \/ \E type \in Employment!Given(c.type, {}) :
                    Employment!TypeChanged(c, fieldSeen[q]) /\ history' = Append(history, type)
               \/ /\ ~Employment!TypeChanged(c, fieldSeen[q]) \/ Employment!Given(c.type, {}) = {}
                  /\ history' = history
  BY DEF Employment!UpdateWrite
<1>5. row.type = IF c.type = {} THEN profile.type ELSE Employment!Given(c.type, {})
  BY DEF Employment!Written, Employment!Given
<1>6. \/ c.type = {} /\ Employment!Given(c.type, {}) = {}
      \/ c.type = {{}} /\ Employment!Given(c.type, {}) = {}
      \/ \E v \in Employment!EmploymentType : c.type = {{v}} /\ Employment!Given(c.type, {}) = {v}
  <2>1. \A v : UNION {{v}} = {v}
    OBVIOUS
  <2>2. c.type \in {{}, {{}}} \cup {{{v}} : v \in Employment!EmploymentType}
    BY <1>2 DEF Employment!Column, Employment!Nullable
  <2>3. CASE c.type = {}
    BY <2>3 DEF Employment!Given
  <2>4. CASE c.type = {{}}
    BY <2>4 DEF Employment!Given
  <2>5. ASSUME NEW v \in Employment!EmploymentType, c.type = {{v}}
        PROVE  Employment!Given(c.type, {}) = {v}
    <3>1. {{v}} # {}
      OBVIOUS
    <3> QED BY <3>1, <2>1, <2>5 DEF Employment!Given
  <2> QED BY <2>2, <2>3, <2>4, <2>5
<1>7. /\ Employment!EndHasReason(profile)' /\ profile'.type \subseteq Employment!ToSet(history)'
      /\ history' \in Seq(Employment!EmploymentType)
      /\ Employment!ToSet(history) \subseteq Employment!ToSet(history)'
  <2>1. CASE profile' = profile /\ history' = history
    BY <2>1, <1>3 DEF Employment!EndHasReason
  <2>2. ASSUME NEW type \in Employment!Given(c.type, {}), profile' = row, Employment!EndHasReason(row),
               history' = Append(history, type)
        PROVE  <1>7
    <3>1. type \in Employment!EmploymentType /\ row.type = {type}
      BY <1>5, <1>6
    <3>2. /\ history' \in Seq(Employment!EmploymentType)
          /\ Employment!ToSet(history') = Employment!ToSet(history) \cup {type}
      BY <3>1, <1>3, <2>2, HistoryGrows
    <3>3. Employment!EndHasReason(profile)'
      BY <2>2 DEF Employment!EndHasReason
    <3> QED BY <3>1, <3>2, <3>3, <2>2
  <2>3. CASE /\ profile' = row /\ Employment!EndHasReason(row) /\ history' = history
             /\ ~Employment!TypeChanged(c, fieldSeen[q]) \/ Employment!Given(c.type, {}) = {}
    <3>1. row.type \subseteq Employment!ToSet(history)
      BY <2>3, <1>1, <1>3, <1>5, <1>6 DEF Employment!TypeChanged
    <3>2. Employment!EndHasReason(profile)'
      BY <2>3 DEF Employment!EndHasReason
    <3> QED BY <3>1, <3>2, <2>3, <1>3
  <2> QED BY <2>1, <2>2, <2>3, <1>4
<1>8. EmploymentInv'
  BY <1>4, <1>7 DEF EmploymentIInv, EmploymentInv, Employment!EmploymentInv, Employment!EndsHaveReasons,
     Employment!TypeIsRecorded, Employment!ActiveLabelsAreDistinct, Employment!IsDefined, Employment!EndHasReason
<1>9. /\ EmploymentCallsInv'
      /\ IsFunctionOn(fieldPc, Request)' /\ IsFunctionOn(fieldArg, Request)' /\ IsFunctionOn(fieldSeen, Request)'
  BY <1>4, <1>7, EmploymentCallMoves
<1> QED BY <1>4, <1>7, <1>8, <1>9 DEF EmploymentIInv, EmploymentShape, IsFunctionOn, IsDefinitionRow

(* A definition is stored where its label is free, or not at all.          *)
LEMMA DefinitionStored ==
  ASSUME EmploymentIInv, NEW f \in Field, NEW row, IsDefinitionRow(row), Employment!Store(f, row)
  PROVE  /\ Employment!ActiveLabelsAreDistinct'
         /\ IsFunctionOn(definition, Field)' /\ \A g \in Field : IsDefinitionRow(definition[g])'
<1>1. definition = [g \in Field |-> definition[g]] /\ \A g \in Field : IsDefinitionRow(definition[g])
  BY DEF EmploymentIInv, EmploymentShape, IsFunctionOn
<1>2. Employment!ActiveLabelsAreDistinct
  BY DEF EmploymentIInv, EmploymentInv, Employment!EmploymentInv
<1>3. CASE Employment!LabelIsFree(f, row)
  <2>1. /\ definition' = [definition EXCEPT ![f] = row]
        /\ definition' = [g \in Field |-> IF g = f THEN row ELSE definition[g]]
    BY <1>1, <1>3 DEF Employment!Store
  <2>2. IsFunctionOn(definition, Field)' /\ \A g \in Field : IsDefinitionRow(definition[g])'
    BY <2>1, <1>1 DEF IsFunctionOn, IsDefinitionRow
  <2>3. ASSUME NEW g \in Field, NEW h \in Field, g # h,
               definition'[g] # Employment!NoDefinition, definition'[h] # Employment!NoDefinition,
               ~definition'[g].archived, ~definition'[h].archived
        PROVE  definition'[g].label # definition'[h].label
    <3>1. CASE g # f /\ h # f
      BY <3>1, <2>1, <2>3, <1>2 DEF Employment!ActiveLabelsAreDistinct, Employment!IsDefined
    <3>2. CASE g = f
      BY <3>2, <2>1, <2>3, <1>3 DEF Employment!LabelIsFree, Employment!IsDefined
    <3>3. CASE h = f
      BY <3>3, <2>1, <2>3, <1>3 DEF Employment!LabelIsFree, Employment!IsDefined
    <3> QED BY <3>1, <3>2, <3>3
  <2> QED BY <2>2, <2>3 DEF Employment!ActiveLabelsAreDistinct, Employment!IsDefined
<1>4. CASE ~Employment!LabelIsFree(f, row)
  <2>1. definition' = definition
    BY <1>4 DEF Employment!Store
  <2> QED BY <2>1, <1>1, <1>2 DEF Employment!ActiveLabelsAreDistinct, Employment!IsDefined, IsFunctionOn,
          IsDefinitionRow
<1> QED BY <1>3, <1>4

(* Defining a field, changing it and setting the order of the fields.      *)
LEMMA EmploymentDefines ==
  ASSUME EmploymentIInv, NEW q \in Request, EmploymentAssumption,
         Employment!CreateWrite(q) \/ Employment!RedefineWrite(q) \/ Employment!Reorder(q)
  PROVE  EmploymentIInv'
<1>1. profile' = profile /\ history' = history /\ Employment!Answer(q)
  BY DEF Employment!CreateWrite, Employment!RedefineWrite, Employment!Reorder
<1>2. definition = [g \in Field |-> definition[g]] /\ \A g \in Field : IsDefinitionRow(definition[g])
  BY DEF EmploymentIInv, EmploymentShape, IsFunctionOn
<1>3. /\ Employment!ActiveLabelsAreDistinct'
      /\ IsFunctionOn(definition, Field)' /\ \A g \in Field : IsDefinitionRow(definition[g])'
  <2>1. CASE Employment!CreateWrite(q)
    <3>1. PICK f \in Field : \E row : IsDefinitionRow(row) /\ Employment!Store(f, row)
      BY <2>1 DEF Employment!CreateWrite, IsDefinitionRow
    <3>2. PICK row : IsDefinitionRow(row) /\ Employment!Store(f, row)
      BY <3>1
    <3> QED BY <3>2, DefinitionStored
  <2>2. CASE Employment!RedefineWrite(q)
    <3>1. fieldArg[q].field \in Field
      BY <2>2, EmploymentAssumption DEF Employment!RedefineWrite, EmploymentIInv, EmploymentCallsInv,
         EmploymentAssumption, Employment!CallsAreTyped
    <3> DEFINE c == fieldArg[q]
               row == [label |-> c.label, type |-> c.type, archived |-> c.archived,
                       order |-> definition[c.field].order, choices |-> Employment!ChoicesOf(c.type, c.choices)]
    <3>2. Employment!Store(c.field, row)
      BY <2>2 DEF Employment!RedefineWrite
    <3>4. IsDefinitionRow(row)
      BY DEF IsDefinitionRow
    <3> HIDE DEF row
    <3> QED BY <3>1, <3>2, <3>4, DefinitionStored
  <2>3. CASE Employment!Reorder(q)
    <3> DEFINE c == fieldArg[q]
               At(g) == CHOOSE i \in DOMAIN c.order : c.order[i] = g
               ordered(g) == IF g \in Employment!ToSet(c.order)
                             THEN [definition[g] EXCEPT !.order = At(g)] ELSE definition[g]
    <3>0. \/ definition' = definition
          \/ /\ \A g \in Employment!ToSet(c.order) : definition[g] # Employment!NoDefinition
             /\ definition' = [g \in Field |-> ordered(g)]
      BY <2>3 DEF Employment!Reorder, Employment!IsDefined
    <3>5. \A g \in Field :
            ordered(g) = definition[g] \/ \E n : ordered(g) = [definition[g] EXCEPT !.order = n]
      OBVIOUS
    <3>6. \A g \in Field :
            ordered(g) = definition[g] \/ g \in Employment!ToSet(c.order)
      OBVIOUS
    <3> HIDE DEF ordered
    <3>1. /\ definition' = [g \in Field |-> definition'[g]]
          /\ \A g \in Field :
               \/ definition'[g] = definition[g]
               \/ /\ definition[g] # Employment!NoDefinition
                  /\ \E n : definition'[g] = [definition[g] EXCEPT !.order = n]
      BY <3>0, <3>5, <3>6, <1>2
    <3>2. \A g \in Field :
            /\ definition'[g].label = definition[g].label /\ definition'[g].archived = definition[g].archived
            /\ IsDefinitionRow(definition'[g])
            /\ definition'[g] # Employment!NoDefinition => definition[g] # Employment!NoDefinition
      BY <3>1, <1>2 DEF IsDefinitionRow
    <3>3. Employment!ActiveLabelsAreDistinct
      BY DEF EmploymentIInv, EmploymentInv, Employment!EmploymentInv
    <3> QED BY <3>1, <3>2, <3>3 DEF Employment!ActiveLabelsAreDistinct, Employment!IsDefined, IsFunctionOn,
            IsDefinitionRow
  <2> QED BY <2>1, <2>2, <2>3
<1>4. /\ EmploymentCallsInv'
      /\ IsFunctionOn(fieldPc, Request)' /\ IsFunctionOn(fieldArg, Request)' /\ IsFunctionOn(fieldSeen, Request)'
  BY <1>1, EmploymentCallMoves
<1> QED BY <1>1, <1>3, <1>4 DEF EmploymentIInv, EmploymentShape, IsFunctionOn, EmploymentInv,
        Employment!EmploymentInv, Employment!EndsHaveReasons, Employment!TypeIsRecorded, Employment!EndHasReason

(* Any step.                                                               *)
LEMMA EmploymentKeeps ==
  ASSUME EmploymentIInv, [Employment!Next]_(Employment!vars), EmploymentAssumption
  PROVE  EmploymentIInv'
<1>1. CASE UNCHANGED Employment!vars
  BY <1>1 DEF Employment!vars, EmploymentIInv, EmploymentShape, EmploymentCallsInv, IsFunctionOn,
     IsDefinitionRow, EmploymentInv, Employment!EmploymentInv, Employment!EndsHaveReasons,
     Employment!TypeIsRecorded, Employment!ActiveLabelsAreDistinct, Employment!EndHasReason, Employment!IsDefined
<1>2. CASE Employment!Next
  <2>1. PICK q \in Request :
          \/ \E c \in EmploymentCalls[q] : Employment!Begin(q, c)
          \/ Employment!UpdateRead(q) \/ Employment!UpdateWrite(q)
          \/ Employment!CreateRead(q) \/ Employment!CreateWrite(q)
          \/ Employment!RedefineRead(q) \/ Employment!RedefineWrite(q) \/ Employment!Reorder(q)
          \/ Employment!SaveRead(q) \/ Employment!SaveWrite(q)
    BY <1>2 DEF Employment!Next
  <2> QED BY <2>1, EmploymentReads, EmploymentUpdates, EmploymentDefines
<1> QED BY <1>1, <1>2

(* The first state.                                                        *)
LEMMA EmploymentStarts == ASSUME Employment!Init PROVE EmploymentIInv
<1>1. EmploymentShape
  <2>1. <<>> \in Seq(Employment!EmploymentType)
    OBVIOUS
  <2>2. IsDefinitionRow(Employment!NoDefinition)
    BY DEF IsDefinitionRow, Employment!NoDefinition
  <2> QED BY <2>1, <2>2 DEF Employment!Init, EmploymentShape, IsFunctionOn
<1>2. EmploymentCallsInv
  BY DEF Employment!Init, EmploymentCallsInv
<1>3. profile.type = {} /\ profile.end = {} /\ profile.reason = {}
      /\ \A f \in Field : definition[f] = Employment!NoDefinition
  BY DEF Employment!Init
<1>4. EmploymentInv
  BY <1>3 DEF EmploymentInv, Employment!EmploymentInv, Employment!EndsHaveReasons, Employment!TypeIsRecorded,
     Employment!ActiveLabelsAreDistinct, Employment!EndHasReason, Employment!IsDefined
<1> QED BY <1>1, <1>2, <1>4 DEF EmploymentIInv

-----------------------------------------------------------------------------
(* Stock items.                                                            *)

(* A par that passed its checks.                                           *)
IsSoundPar(p) == p \in Items!Par /\ Items!ParFits(p, p.method)

ItemShape ==
  /\ IsFunctionOn(item, Item) /\ \A i \in Item : item[i] = Items!NoItem \/ item[i] \in Items!Row
  /\ IsFunctionOn(par, Item) /\ \A i \in Item : par[i] = Items!NoPar \/ IsSoundPar(par[i])
  /\ IsFunctionOn(counted, Item) /\ mapped \in [Item -> BOOLEAN]
  /\ category \in [StockCategory -> StockName \cup {Items!NoName}]
  /\ IsFunctionOn(itemArg, ItemRequest)

(* What waits to be stored passed its checks.                              *)
ItemCallsInv ==
  \A r \in ItemRequest :
    /\ itemArg[r] = Items!NoArg \/ itemArg[r] \in Items!Call
    /\ itemArg[r].op = "par" => IsSoundPar(itemArg[r].par)
    /\ itemArg[r].op = "create" => Items!ReconciledFits(itemArg[r].reconciled, itemArg[r].method)

ItemIInv ==
  ItemShape /\ ItemCallsInv /\ Items!ReconciledIsCounted /\ Items!ReferencesResolve /\ Items!NamesAreDistinct

(* More of an item is never more urgent.                                   *)
LEMMA QuantityIsMonotone ==
  ASSUME NEW b \in Items!ParBands, ParQuantity \subseteq Nat, NEW q \in Nat,
         b.low = {} => b.urgent = {},
         \A l \in b.low, p \in b.par : l <= p,
         \A u \in b.urgent, l \in b.low : u <= l
  PROVE  /\ Items!QuantityStatus(q, b) <= Items!QuantityStatus(q + 1, b)
         /\ (\E p \in b.par : q < p) => Items!QuantityStatus(q, b) # Items!ENOUGH
<1>1. PICK p \in Nat : b.par = {p}
  BY DEF Items!ParBands
<1>2. CASE b.low = {}
  BY <1>1, <1>2 DEF Items!QuantityStatus, Items!URGENT, Items!LOW, Items!BELOW_PAR, Items!ENOUGH
<1>3. ASSUME NEW l \in Nat, b.low = {l}, b.urgent = {}
      PROVE  /\ Items!QuantityStatus(q, b) <= Items!QuantityStatus(q + 1, b)
             /\ (\E x \in b.par : q < x) => Items!QuantityStatus(q, b) # Items!ENOUGH
  BY <1>1, <1>3 DEF Items!QuantityStatus, Items!URGENT, Items!LOW, Items!BELOW_PAR, Items!ENOUGH
<1>4. ASSUME NEW l \in Nat, NEW u \in Nat, b.low = {l}, b.urgent = {u}
      PROVE  /\ Items!QuantityStatus(q, b) <= Items!QuantityStatus(q + 1, b)
             /\ (\E x \in b.par : q < x) => Items!QuantityStatus(q, b) # Items!ENOUGH
  BY <1>1, <1>4 DEF Items!QuantityStatus, Items!URGENT, Items!LOW, Items!BELOW_PAR, Items!ENOUGH
<1>5. \/ b.low = {}
      \/ \E l \in Nat : b.low = {l} /\ (b.urgent = {} \/ \E u \in Nat : b.urgent = {u})
  BY DEF Items!ParBands, Items!Nullable
<1> QED BY <1>2, <1>3, <1>4, <1>5

(* The same of levels.                                                     *)
LEMMA LevelIsMonotone ==
  ASSUME NEW p \in Items!Level, NEW l \in 0 .. 6
  PROVE  /\ Items!LevelStatus(l, {p}) <= Items!LevelStatus(l + 1, {p})
         /\ l < p => Items!LevelStatus(l, {p}) # Items!ENOUGH
<1>1. l \in Int /\ l + 1 \in Int /\ p \in Int /\ {p} # {}
  BY DEF Items!Level
<1>2. /\ Items!LevelBand(l) \in 0 .. 3 /\ Items!LevelBand(l + 1) \in 0 .. 3
      /\ Items!LevelBand(l) <= Items!LevelBand(l + 1)
  BY DEF Items!LevelBand
<1> QED BY <1>1, <1>2 DEF Items!LevelStatus, Items!ENOUGH, Items!BELOW_PAR

(* Pars as they are stored.                                                *)
LEMMA SoundParsRank ==
  ASSUME ItemShape, ParQuantity \subseteq Nat
  PROVE  Items!MoreIsNeverMoreUrgent
<1> SUFFICES ASSUME NEW i \in Item
    PROVE /\ par[i].method = "QUANTITY" =>
             LET b == par[i].bands IN
             \A q \in ParQuantity \cup {0} :
               /\ Items!QuantityStatus(q, b) <= Items!QuantityStatus(q + 1, b)
               /\ (\E p \in b.par : q < p) => Items!QuantityStatus(q, b) # Items!ENOUGH
          /\ par[i].method = "LEVEL" =>
             LET p == par[i].level IN
             \A l \in 0 .. 6 :
               /\ Items!LevelStatus(l, {p}) <= Items!LevelStatus(l + 1, {p})
               /\ l < p => Items!LevelStatus(l, {p}) # Items!ENOUGH
  BY DEF Items!MoreIsNeverMoreUrgent
<1>1. CASE par[i] = Items!NoPar
  BY <1>1 DEF Items!NoPar
<1>2. CASE IsSoundPar(par[i]) /\ par[i].method = "LEVEL"
  <2>1. par[i].level \in Items!Level
    BY <1>2 DEF IsSoundPar, Items!Par
  <2> QED BY <2>1, <1>2, LevelIsMonotone
<1>3. CASE IsSoundPar(par[i]) /\ par[i].method = "QUANTITY"
  <2> DEFINE b == par[i].bands
  <2>1. /\ b \in Items!ParBands
        /\ b.low = {} => b.urgent = {}
        /\ \A l \in b.low, p \in b.par : l <= p
        /\ \A u \in b.urgent, l \in b.low : u <= l
    BY <1>3 DEF IsSoundPar, Items!Par, Items!ParFits
  <2> HIDE DEF b
  <2>2. \A q \in ParQuantity \cup {0} : q \in Nat
    OBVIOUS
  <2>3. \A q \in ParQuantity \cup {0} :
          /\ Items!QuantityStatus(q, b) <= Items!QuantityStatus(q + 1, b)
          /\ (\E p \in b.par : q < p) => Items!QuantityStatus(q, b) # Items!ENOUGH
    BY <2>1, <2>2, QuantityIsMonotone
  <2> QED BY <2>3, <1>3 DEF b
<1> QED BY <1>1, <1>2, <1>3 DEF ItemShape, IsSoundPar, Items!Par

(* What a request carries once it has started.                             *)
LEMMA ItemStarts ==
  ASSUME ItemIInv, NEW r \in ItemRequest, ItemAssumption, Items!Start(r)
  PROVE  ItemIInv'
<1>1. PICK call \in ItemCalls : Items!Valid(call) /\ itemArg' = [itemArg EXCEPT ![r] = call]
  BY DEF Items!Start
<1>2. call \in Items!Call
  BY ItemAssumption DEF ItemAssumption, Items!CallsAreTyped
<1>3. ASSUME call.op = "par" PROVE IsSoundPar(call.par)
  <2>1. Items!ParFits(call.par, item[call.item].method)
    BY <1>1, <1>3 DEF Items!Valid
  <2>2. call.par \in Items!Par
    BY <1>2, <1>3 DEF Items!Call
  <2> QED BY <2>1, <2>2 DEF IsSoundPar, Items!ParFits
<1>7. call.op = "create" => Items!ReconciledFits(call.reconciled, call.method)
  BY <1>1 DEF Items!Valid
<1>4. item' = item /\ par' = par /\ counted' = counted /\ mapped' = mapped /\ category' = category
  BY DEF Items!Start, Items!db
<1>5. ItemShape'
  BY <1>1, <1>4 DEF ItemIInv, ItemShape, IsFunctionOn, IsSoundPar
<1>6. ItemCallsInv'
  BY <1>1, <1>2, <1>3, <1>7 DEF ItemIInv, ItemShape, ItemCallsInv, IsFunctionOn
<1> QED BY <1>4, <1>5, <1>6 DEF ItemIInv, Items!ReconciledIsCounted, Items!ReferencesResolve, Items!NamesAreDistinct,
        Items!Exists, Items!HasCategory

(* An answer leaves no par waiting.                                        *)
LEMMA ItemAnswered ==
  ASSUME ItemIInv, NEW r \in ItemRequest, Items!Finish(r)
  PROVE  IsFunctionOn(itemArg, ItemRequest)' /\ ItemCallsInv'
BY DEF ItemIInv, ItemShape, ItemCallsInv, IsFunctionOn, Items!Finish, Items!NoArg

(* A refusal changes no table.                                             *)
LEMMA ItemRefused ==
  ASSUME ItemIInv, NEW r \in ItemRequest, Items!Refuse(r)
  PROVE  ItemIInv'
<1>1. /\ item' = item /\ par' = par /\ counted' = counted /\ mapped' = mapped /\ category' = category
      /\ Items!Finish(r)
  BY DEF Items!Refuse, Items!db
<1>2. IsFunctionOn(itemArg, ItemRequest)' /\ ItemCallsInv'
  BY <1>1, ItemAnswered
<1> QED BY <1>1, <1>2 DEF ItemIInv, ItemShape, IsFunctionOn, IsSoundPar, Items!ReconciledIsCounted,
        Items!ReferencesResolve, Items!NamesAreDistinct, Items!Exists, Items!HasCategory

(* An item is created in a category that is there, and its row changed as  *)
(* the CHECK of the table allows.                                          *)
LEMMA ItemRowWritten ==
  ASSUME ItemIInv, NEW i \in Item, NEW row \in Items!Row, Items!ReconciledFits(row.reconciled, row.method),
         Items!HasCategory(row.category), item' = [item EXCEPT ![i] = row],
         par' = par, counted' = counted, mapped' = mapped, category' = category,
         IsFunctionOn(itemArg, ItemRequest)' /\ ItemCallsInv'
  PROVE  ItemIInv'
<1>1. row # Items!NoItem
  BY DEF Items!Row, Items!NoItem, Items!Method
<1>2. /\ IsFunctionOn(item, Item)'
      /\ item'[i] = row /\ \A j \in Item : j # i => item'[j] = item[j]
  BY DEF ItemIInv, ItemShape, IsFunctionOn
<1>3. ItemShape'
  BY <1>2 DEF ItemIInv, ItemShape, IsFunctionOn, IsSoundPar
<1>4. Items!ReconciledIsCounted'
  BY <1>2 DEF ItemIInv, Items!ReconciledIsCounted, Items!Exists
<1>5. Items!ReferencesResolve'
  BY <1>1, <1>2 DEF ItemIInv, Items!ReferencesResolve, Items!Exists, Items!HasCategory
<1>6. Items!NamesAreDistinct'
  BY DEF ItemIInv, Items!NamesAreDistinct, Items!HasCategory
<1> QED BY <1>3, <1>4, <1>5, <1>6 DEF ItemIInv

(* Creating and updating items.                                            *)
LEMMA ItemCreated ==
  ASSUME ItemIInv, NEW r \in ItemRequest, Items!ItemCreate(r)
  PROVE  ItemIInv'
<1> DEFINE c == itemArg[r]
           row == [category |-> c.category, method |-> c.method, reconciled |-> c.reconciled]
<1>1. CASE Items!Refuse(r)
  BY <1>1, ItemRefused
<1>2. CASE ~Items!Refuse(r)
  <2>1. PICK i \in Item :
          /\ item' = [item EXCEPT ![i] = row] /\ Items!HasCategory(c.category)
          /\ par' = par /\ counted' = counted /\ mapped' = mapped /\ category' = category /\ Items!Finish(r)
    BY <1>2 DEF Items!ItemCreate
  <2>2. c.op = "create" /\ c \in Items!Call /\ Items!ReconciledFits(c.reconciled, c.method)
    BY DEF Items!ItemCreate, Items!At, ItemIInv, ItemCallsInv, Items!NoArg
  <2>3. row \in Items!Row /\ Items!ReconciledFits(row.reconciled, row.method) /\ row.category = c.category
    BY <2>2 DEF Items!Call, Items!Row
  <2> HIDE DEF row
  <2> QED BY <2>1, <2>3, ItemAnswered, ItemRowWritten
<1> QED BY <1>1, <1>2

(* The UPDATE leaves a row with values for all columns.                    *)
LEMMA ItemPatched ==
  ASSUME NEW was \in Items!Row, NEW p \in Items!Patch
  PROVE  Items!Patched(was, p) \in Items!Row /\ Items!Patched(was, p).category = was.category
<1>1. p.method = {} \/ \E m \in Items!Method : p.method = {m}
  BY DEF Items!Patch, Items!Nullable
<1>2. p.reconciled = {} \/ \E b \in BOOLEAN : p.reconciled = {b}
  BY DEF Items!Patch, Items!Nullable
<1> DEFINE method == IF p.method = {} THEN was.method ELSE CHOOSE m \in p.method : TRUE
           reconciled == IF p.reconciled = {} THEN was.reconciled ELSE CHOOSE b \in p.reconciled : TRUE
<1>3. method \in Items!Method /\ reconciled \in BOOLEAN
  BY <1>1, <1>2 DEF Items!Row
<1>4. Items!Patched(was, p) = [was EXCEPT !.method = method, !.reconciled = reconciled]
  BY DEF Items!Patched
<1> HIDE DEF method, reconciled
<1> QED BY <1>3, <1>4 DEF Items!Row

(* The CHECK of the table decides on an update.                            *)
LEMMA ItemUpdated ==
  ASSUME ItemIInv, NEW r \in ItemRequest, Items!ItemUpdate(r)
  PROVE  ItemIInv'
<1> DEFINE c == itemArg[r]
           row == Items!Patched(item[c.item], c.patch)
<1>1. CASE Items!Refuse(r)
  BY <1>1, ItemRefused
<1>2. CASE ~Items!Refuse(r)
  <2>1. /\ Items!Exists(c.item) /\ Items!RowChecks(c.item, row)
        /\ item' = [item EXCEPT ![c.item] = row]
        /\ par' = par /\ counted' = counted /\ mapped' = mapped /\ category' = category /\ Items!Finish(r)
    BY <1>2 DEF Items!ItemUpdate
  <2>2. c.op = "update" /\ c \in Items!Call
    BY DEF Items!ItemUpdate, Items!At, ItemIInv, ItemCallsInv, Items!NoArg
  <2>3. c.item \in Item /\ c.patch \in Items!Patch
    BY <2>2 DEF Items!Call
  <2>4. item[c.item] \in Items!Row /\ Items!HasCategory(item[c.item].category)
    BY <2>1, <2>3 DEF ItemIInv, ItemShape, Items!Exists, Items!ReferencesResolve
  <2>5. row \in Items!Row /\ row.category = item[c.item].category
    BY <2>3, <2>4, ItemPatched
  <2>6. Items!ReconciledFits(row.reconciled, row.method)
    BY <2>1 DEF Items!RowChecks
  <2> HIDE DEF row
  <2> QED BY <2>1, <2>3, <2>4, <2>5, <2>6, ItemAnswered, ItemRowWritten
<1> QED BY <1>1, <1>2

(* No count line, product size or par is left behind.                      *)
LEMMA ItemRemoved ==
  ASSUME ItemIInv, NEW r \in ItemRequest, Items!ItemRemove(r)
  PROVE  ItemIInv'
<1> DEFINE i == itemArg[r].item
<1>1. CASE Items!Refuse(r)
  BY <1>1, ItemRefused
<1>2. CASE ~Items!Refuse(r)
  <2>1. /\ Items!Exists(i) /\ Items!MayDelete(i)
        /\ item' = [item EXCEPT ![i] = Items!NoItem] /\ par' = [par EXCEPT ![i] = Items!NoPar]
        /\ Items!Finish(r) /\ counted' = counted /\ mapped' = mapped /\ category' = category
    BY <1>2 DEF Items!ItemRemove
  <2>2. /\ IsFunctionOn(item, Item)' /\ \A j \in Item : item'[j] = IF j = i THEN Items!NoItem ELSE item[j]
        /\ IsFunctionOn(par, Item)' /\ \A j \in Item : par'[j] = IF j = i THEN Items!NoPar ELSE par[j]
    BY <2>1 DEF ItemIInv, ItemShape, IsFunctionOn
  <2>3. IsFunctionOn(itemArg, ItemRequest)' /\ ItemCallsInv'
    BY <2>1, ItemAnswered
  <2>4. ItemShape'
    BY <2>1, <2>2, <2>3 DEF ItemIInv, ItemShape, IsFunctionOn, IsSoundPar
  <2>5. Items!ReconciledIsCounted'
    BY <2>2 DEF ItemIInv, Items!ReconciledIsCounted, Items!Exists
  <2>6. counted[i] = {} /\ ~mapped[i]
    BY <2>1 DEF Items!MayDelete
  <2>7. Items!ReferencesResolve'
    BY <2>1, <2>2, <2>6 DEF ItemIInv, Items!ReferencesResolve, Items!Exists, Items!HasCategory
  <2>8. Items!NamesAreDistinct'
    BY <2>1 DEF ItemIInv, Items!NamesAreDistinct, Items!HasCategory
  <2> QED BY <2>3, <2>4, <2>5, <2>7, <2>8 DEF ItemIInv
<1> QED BY <1>1, <1>2

(* A par, a count line and a mapping need the item's row.                  *)
LEMMA ItemReferenced ==
  ASSUME ItemIInv,
         \/ \E r \in ItemRequest : Items!ParUpsert(r) \/ Items!CountLine(r)
         \/ \E i \in Item : Items!MapPackaging(i)
  PROVE  ItemIInv'
<1>1. ASSUME NEW r \in ItemRequest, Items!ParUpsert(r)
      PROVE  ItemIInv'
  <2> DEFINE i == itemArg[r].item
  <2>1. CASE Items!Refuse(r)
    BY <2>1, ItemRefused
  <2>2. CASE ~Items!Refuse(r)
    <3>1. /\ Items!Exists(i) /\ par' = [par EXCEPT ![i] = itemArg[r].par] /\ Items!Finish(r)
          /\ item' = item /\ counted' = counted /\ mapped' = mapped /\ category' = category
      BY <1>1, <2>2 DEF Items!ParUpsert
    <3>2. IsSoundPar(itemArg[r].par)
      BY <1>1 DEF Items!ParUpsert, Items!At, ItemIInv, ItemCallsInv
    <3>3. IsFunctionOn(par, Item)' /\ \A j \in Item : par'[j] = IF j = i THEN itemArg[r].par ELSE par[j]
      BY <3>1 DEF ItemIInv, ItemShape, IsFunctionOn
    <3>4. IsFunctionOn(itemArg, ItemRequest)' /\ ItemCallsInv'
      BY <3>1, ItemAnswered
    <3>5. ItemShape'
      BY <3>1, <3>2, <3>3, <3>4 DEF ItemIInv, ItemShape, IsFunctionOn, IsSoundPar
    <3>6. Items!ReferencesResolve'
      BY <3>1, <3>3 DEF ItemIInv, Items!ReferencesResolve, Items!Exists, Items!HasCategory
    <3> QED BY <3>1, <3>4, <3>5, <3>6 DEF ItemIInv, Items!ReconciledIsCounted, Items!NamesAreDistinct,
            Items!Exists, Items!HasCategory
  <2> QED BY <2>1, <2>2
<1>2. ASSUME NEW r \in ItemRequest, Items!CountLine(r)
      PROVE  ItemIInv'
  <2> DEFINE i == itemArg[r].item
  <2>1. CASE Items!Refuse(r)
    BY <2>1, ItemRefused
  <2>2. CASE ~Items!Refuse(r)
    <3>1. /\ Items!Exists(i) /\ counted' = [counted EXCEPT ![i] = {itemArg[r].shape}] /\ Items!Finish(r)
          /\ item' = item /\ par' = par /\ mapped' = mapped /\ category' = category
      BY <1>2, <2>2 DEF Items!CountLine
    <3>2. IsFunctionOn(counted, Item)' /\ \A j \in Item : j # i => counted'[j] = counted[j]
      BY <3>1 DEF ItemIInv, ItemShape, IsFunctionOn
    <3>3. IsFunctionOn(itemArg, ItemRequest)' /\ ItemCallsInv'
      BY <3>1, ItemAnswered
    <3>4. ItemShape'
      BY <3>1, <3>2, <3>3 DEF ItemIInv, ItemShape, IsFunctionOn, IsSoundPar
    <3>5. Items!ReferencesResolve'
      BY <3>1, <3>2 DEF ItemIInv, Items!ReferencesResolve, Items!Exists, Items!HasCategory
    <3> QED BY <3>1, <3>3, <3>4, <3>5 DEF ItemIInv, Items!ReconciledIsCounted, Items!NamesAreDistinct,
            Items!Exists, Items!HasCategory
  <2> QED BY <2>1, <2>2
<1>3. ASSUME NEW i \in Item, Items!MapPackaging(i)
      PROVE  ItemIInv'
  <2>1. /\ Items!Exists(i) /\ mapped' = [mapped EXCEPT ![i] = ~mapped[i]]
        /\ item' = item /\ par' = par /\ counted' = counted /\ category' = category /\ itemArg' = itemArg
    BY <1>3 DEF Items!MapPackaging
  <2>2. mapped' \in [Item -> BOOLEAN] /\ \A j \in Item : j # i => mapped'[j] = mapped[j]
    BY <2>1 DEF ItemIInv, ItemShape
  <2>3. ItemShape' /\ ItemCallsInv'
    BY <2>1, <2>2 DEF ItemIInv, ItemShape, ItemCallsInv, IsFunctionOn, IsSoundPar
  <2>4. Items!ReferencesResolve'
    BY <2>1, <2>2 DEF ItemIInv, Items!ReferencesResolve, Items!Exists, Items!HasCategory
  <2> QED BY <2>1, <2>3, <2>4 DEF ItemIInv, Items!ReconciledIsCounted, Items!NamesAreDistinct,
          Items!Exists, Items!HasCategory
<1> QED BY <1>1, <1>2, <1>3

(* Categories are named apart, and go when no item is in them.             *)
LEMMA CategoryChanged ==
  ASSUME ItemIInv, ItemAssumption, NEW r \in ItemRequest, Items!CategoryName(r) \/ Items!CategoryRemove(r)
  PROVE  ItemIInv'
<1> DEFINE c == itemArg[r].category
           n == itemArg[r].name
<1>1. CASE Items!Refuse(r)
  BY <1>1, ItemRefused
<1>2. ASSUME Items!CategoryName(r), ~Items!Refuse(r) PROVE ItemIInv'
  <2>1. /\ Items!NameIsFree(c, n) /\ category' = [category EXCEPT ![c] = n] /\ Items!Finish(r)
        /\ item' = item /\ par' = par /\ counted' = counted /\ mapped' = mapped
    BY <1>2 DEF Items!CategoryName
  <2>2. itemArg[r] \in Items!Call /\ itemArg[r].op = "name"
    BY <1>2 DEF Items!CategoryName, Items!At, ItemIInv, ItemCallsInv, Items!NoArg
  <2>3. c \in StockCategory /\ n \in StockName /\ n # Items!NoName
    BY <2>2, ItemAssumption DEF Items!Call, ItemAssumption, Items!CallsAreTyped
  <2>4. /\ category' \in [StockCategory -> StockName \cup {Items!NoName}]
        /\ \A d \in StockCategory : category'[d] = IF d = c THEN n ELSE category[d]
    BY <2>1, <2>3 DEF ItemIInv, ItemShape
  <2>5. IsFunctionOn(itemArg, ItemRequest)' /\ ItemCallsInv'
    BY <2>1, ItemAnswered
  <2>6. ItemShape'
    BY <2>1, <2>4, <2>5 DEF ItemIInv, ItemShape, IsFunctionOn, IsSoundPar
  <2>7. Items!ReferencesResolve'
    <3>1. \A i \in Item : item[i] # Items!NoItem => item[i].category \in StockCategory
      BY DEF ItemIInv, ItemShape, Items!Row
    <3> QED BY <3>1, <2>1, <2>3, <2>4 DEF ItemIInv, Items!ReferencesResolve, Items!Exists, Items!HasCategory
  <2>8. Items!NamesAreDistinct'
    BY <2>1, <2>4 DEF ItemIInv, Items!NamesAreDistinct, Items!HasCategory, Items!NameIsFree
  <2> QED BY <2>1, <2>5, <2>6, <2>7, <2>8 DEF ItemIInv, Items!ReconciledIsCounted, Items!Exists
<1>3. ASSUME Items!CategoryRemove(r), ~Items!Refuse(r) PROVE ItemIInv'
  <2>1. /\ Items!ItemsOf(c) = {} /\ category' = [category EXCEPT ![c] = Items!NoName] /\ Items!Finish(r)
        /\ item' = item /\ par' = par /\ counted' = counted /\ mapped' = mapped
    BY <1>3 DEF Items!CategoryRemove
  <2>4. /\ category' \in [StockCategory -> StockName \cup {Items!NoName}]
        /\ \A d \in StockCategory : category'[d] = IF d = c THEN Items!NoName ELSE category[d]
    BY <2>1 DEF ItemIInv, ItemShape
  <2>5. IsFunctionOn(itemArg, ItemRequest)' /\ ItemCallsInv'
    BY <2>1, ItemAnswered
  <2>6. ItemShape'
    BY <2>1, <2>4, <2>5 DEF ItemIInv, ItemShape, IsFunctionOn, IsSoundPar
  <2>7. Items!ReferencesResolve'
    <3>1. \A i \in Item : item[i] # Items!NoItem => item[i].category \in StockCategory /\ item[i].category # c
      BY <2>1 DEF ItemIInv, ItemShape, Items!Row, Items!ItemsOf, Items!Exists
    <3> QED BY <3>1, <2>1, <2>4 DEF ItemIInv, Items!ReferencesResolve, Items!Exists, Items!HasCategory
  <2>8. Items!NamesAreDistinct'
    BY <2>1, <2>4 DEF ItemIInv, Items!NamesAreDistinct, Items!HasCategory
  <2> QED BY <2>1, <2>5, <2>6, <2>7, <2>8 DEF ItemIInv, Items!ReconciledIsCounted, Items!Exists
<1> QED BY <1>1, <1>2, <1>3

(* Any step.                                                               *)
LEMMA ItemsKeep ==
  ASSUME ItemIInv, [Items!Next]_(Items!vars), ItemAssumption
  PROVE  ItemIInv'
<1>1. CASE UNCHANGED Items!vars
  BY <1>1 DEF Items!vars, ItemIInv, ItemShape, ItemCallsInv, IsFunctionOn, IsSoundPar,
     Items!ReconciledIsCounted, Items!ReferencesResolve, Items!NamesAreDistinct, Items!Exists, Items!HasCategory
<1>2. CASE Items!Next
  <2>1. \/ \E r \in ItemRequest :
             \/ Items!Start(r) \/ Items!ItemCreate(r) \/ Items!ItemUpdate(r) \/ Items!ItemRemove(r)
             \/ Items!ParUpsert(r) \/ Items!CountLine(r) \/ Items!CategoryName(r) \/ Items!CategoryRemove(r)
        \/ \E i \in Item : Items!MapPackaging(i)
    BY <1>2 DEF Items!Next
  <2> QED BY <2>1, ItemStarts, ItemCreated, ItemUpdated, ItemRemoved, ItemReferenced, CategoryChanged
<1> QED BY <1>1, <1>2

(* The tables start empty.                                                 *)
LEMMA ItemsStart ==
  ASSUME Items!Init, ItemAssumption
  PROVE  ItemIInv
<1>1. ItemShape
  BY DEF Items!Init, ItemShape, IsFunctionOn
<1>2. ItemCallsInv
  BY DEF Items!Init, ItemCallsInv, Items!NoArg
<1>3. Items!ReconciledIsCounted /\ Items!ReferencesResolve
  BY DEF Items!Init, Items!ReconciledIsCounted, Items!ReferencesResolve, Items!Exists
<1>4. Items!NamesAreDistinct
  BY DEF Items!Init, Items!NamesAreDistinct, Items!HasCategory
<1> QED BY <1>1, <1>2, <1>3, <1>4 DEF ItemIInv

-----------------------------------------------------------------------------
(* The journal.                                                            *)

JournalShape ==
  /\ IsFunctionOn(deposit, Deposit) /\ IsFunctionOn(rate, Date)
  /\ IsFunctionOn(journalPc, Request) /\ IsFunctionOn(journalArg, Request)
  /\ start \in Int /\ today \in Int /\ closed \subseteq Int

(* What a request may still write was checked, and days stay closed.       *)
JournalCallsInv ==
  \A q \in Request :
    /\ journalPc[q] \in {"read", "days", "write"} => journalArg[q] \in JournalCalls[q]
    /\ journalPc[q] \in {"days", "write"} /\ journalArg[q].op = "deposit" => Journal!DatesAreApart(journalArg[q])
    /\ journalPc[q] = "write" /\ journalArg[q].op \in {"deposit", "edit"} =>
         Journal!Dates(journalArg[q]) \subseteq closed

JournalIInv == JournalShape /\ JournalCallsInv /\ Journal!DepositsOfClosedDays

(* Rounding keeps the order of two amounts.                                *)
LEMMA RoundingIsMonotone ==
  ASSUME NEW g \in Int, NEW h \in Int, g <= h
  PROVE  /\ Journal!Thousands(g) \in Int /\ Journal!Thousands(h) \in Int
         /\ Journal!RoundedThousands(g) \in Int /\ Journal!RoundedThousands(h) \in Int
         /\ Journal!Thousands(g) <= Journal!Thousands(h)
         /\ Journal!RoundedThousands(g) <= Journal!RoundedThousands(h)
         /\ g >= 0 => Journal!Thousands(g) >= 0 /\ Journal!RoundedThousands(g) >= 0
BY DEF Journal!Thousands, Journal!RoundedThousands, Journal!HundredsDigit, Journal!RENT_ROUND_UP_HUNDREDS_DIGIT

(* Products of amounts.                                                    *)
LEMMA ProductIsMonotone ==
  ASSUME NEW x \in Int, NEW y \in Int, NEW r \in Nat, x <= y
  PROVE  /\ x * r \in Int /\ y * r \in Int /\ x * r <= y * r
         /\ x >= 0 => x * r >= 0
<1>1. (y - x) * r >= 0
  OBVIOUS
<1>2. (y - x) * r = y * r - x * r
  OBVIOUS
<1> QED BY <1>1, <1>2

(* No suggestion falls while the gross grows.                              *)
LEMMA SuggestionsGrow ==
  ASSUME Journal!AmountsAreTyped
  PROVE  Journal!SuggestionsNeverFall
<1> SUFFICES ASSUME NEW g \in Takings, NEW h \in Takings, g <= h
    PROVE /\ \A r \in Rate : /\ Journal!Rent(g, r) <= Journal!Rent(h, r)
                             /\ Journal!Commission(g, r) <= Journal!Commission(h, r)
          /\ \A a \in Amount, t \in Threshold : Journal!Chair(g, a, t) <= Journal!Chair(h, a, t)
          /\ \A r \in Rate : g <= 0 => Journal!Rent(g, r) = 0 /\ Journal!Commission(g, r) = 0
  BY DEF Journal!SuggestionsNeverFall
<1>1. g \in Int /\ h \in Int
  BY DEF Journal!AmountsAreTyped
<1>2. ASSUME NEW r \in Rate
      PROVE  Journal!Rent(g, r) <= Journal!Rent(h, r) /\ Journal!Commission(g, r) <= Journal!Commission(h, r)
  <2> DEFINE G == Journal!RoundedThousands(g)
             H == Journal!RoundedThousands(h)
             K == Journal!Thousands(g)
             L == Journal!Thousands(h)
  <2>1. /\ G \in Int /\ H \in Int /\ K \in Int /\ L \in Int /\ G <= H /\ K <= L
        /\ g >= 0 => G >= 0 /\ K >= 0
        /\ h >= 0 => H >= 0 /\ L >= 0
    BY <1>1, RoundingIsMonotone
  <2>2. r \in Nat
    BY DEF Journal!AmountsAreTyped
  <2> HIDE DEF G, H, K, L
  <2>3. G * 10 \in Int /\ H * 10 \in Int /\ G * 10 <= H * 10 /\ (H >= 0 => H * 10 >= 0)
    BY <2>1
  <2>4. /\ G * 10 * r \in Int /\ H * 10 * r \in Int /\ G * 10 * r <= H * 10 * r
        /\ H >= 0 => H * 10 * r >= 0
    BY <2>2, <2>3, ProductIsMonotone
  <2>5. /\ K * r \in Int /\ L * r \in Int /\ K * r <= L * r /\ r * K = K * r /\ r * L = L * r
        /\ L >= 0 => L * r >= 0
    BY <2>1, <2>2, ProductIsMonotone
  <2>6. Journal!Rent(g, r) = (IF g <= 0 THEN 0 ELSE G * 10 * r)
        /\ Journal!Rent(h, r) = (IF h <= 0 THEN 0 ELSE H * 10 * r)
    BY DEF Journal!Rent, G, H
  <2>7. Journal!Commission(g, r) = (IF g <= 0 THEN 0 ELSE r * K)
        /\ Journal!Commission(h, r) = (IF h <= 0 THEN 0 ELSE r * L)
    BY DEF Journal!Commission, K, L
  <2> QED BY <1>1, <2>1, <2>4, <2>5, <2>6, <2>7
<1>3. ASSUME NEW a \in Amount, NEW t \in Threshold
      PROVE  Journal!Chair(g, a, t) <= Journal!Chair(h, a, t)
  <2>1. a \in Nat /\ t \in Int
    BY DEF Journal!AmountsAreTyped
  <2> QED BY <1>1, <2>1 DEF Journal!Chair
<1>4. ASSUME NEW r \in Rate, g <= 0
      PROVE  Journal!Rent(g, r) = 0 /\ Journal!Commission(g, r) = 0
  BY <1>4 DEF Journal!Rent, Journal!Commission
<1> QED BY <1>2, <1>3, <1>4

(* A request goes on, or is answered.                                      *)
LEMMA JournalReads ==
  ASSUME JournalIInv, JournalAssumption, NEW q \in Request,
         Journal!Read(q) \/ Journal!ReadDays(q) \/ \E c \in JournalCalls[q] : Journal!Begin(q, c)
  PROVE  JournalIInv'
<1>1. /\ deposit' = deposit /\ rate' = rate /\ start' = start /\ today' = today /\ closed' = closed
      /\ \A p \in Request : p # q => journalPc'[p] = journalPc[p] /\ journalArg'[p] = journalArg[p]
      /\ IsFunctionOn(journalPc, Request)' /\ IsFunctionOn(journalArg, Request)'
  BY DEF JournalIInv, JournalShape, IsFunctionOn, Journal!Read, Journal!ReadDays, Journal!Begin,
     Journal!Finish, Journal!Unchanged
<1>2. JournalShape'
  BY <1>1 DEF JournalIInv, JournalShape, IsFunctionOn
<1>3. Journal!DepositsOfClosedDays'
  BY <1>1 DEF JournalIInv, Journal!DepositsOfClosedDays, Journal!RecordedDates, Journal!Recorded
<1>4. \/ journalPc'[q] = "done"
      \/ /\ journalPc'[q] = "read" /\ journalArg'[q] \in JournalCalls[q]
      \/ /\ journalArg'[q] = journalArg[q] /\ journalPc[q] \in {"read", "days"}
         /\ \/ /\ journalPc'[q] = "days" /\ journalPc[q] = "read"
               /\ journalArg[q].op = "deposit" => Journal!DatesAreApart(journalArg[q])
            \/ /\ journalPc'[q] = "write" /\ journalPc[q] = "read" /\ journalArg[q].op \notin {"deposit", "edit"}
            \/ /\ journalPc'[q] = "write" /\ journalPc[q] = "days"
               /\ Journal!Dates(journalArg[q]) \subseteq closed
  <2>1. CASE Journal!Read(q)
    BY <2>1 DEF JournalIInv, JournalShape, IsFunctionOn, Journal!Read, Journal!Finish
  <2>2. CASE Journal!ReadDays(q)
    BY <2>2 DEF JournalIInv, JournalShape, IsFunctionOn, Journal!ReadDays, Journal!Finish, Journal!AreClosed
  <2>3. CASE \E c \in JournalCalls[q] : Journal!Begin(q, c)
    BY <2>3 DEF JournalIInv, JournalShape, IsFunctionOn, Journal!Begin
  <2> QED BY <2>1, <2>2, <2>3
<1>5. JournalCallsInv'
  BY <1>1, <1>4 DEF JournalIInv, JournalCallsInv, Journal!Dates, Journal!DatesAreApart
<1> QED BY <1>2, <1>3, <1>5 DEF JournalIInv

(* A write that is answered, when it has left sound deposits.              *)
LEMMA JournalWritten ==
  ASSUME JournalIInv, NEW q \in Request, Journal!Finish(q), closed' = closed,
         IsFunctionOn(deposit, Deposit)' /\ IsFunctionOn(rate, Date)' /\ start' \in Int /\ today' = today,
         Journal!DepositsOfClosedDays'
  PROVE  JournalIInv'
<1>1. /\ \A p \in Request : p # q => journalPc'[p] = journalPc[p] /\ journalArg'[p] = journalArg[p]
      /\ IsFunctionOn(journalPc, Request)' /\ IsFunctionOn(journalArg, Request)' /\ journalPc'[q] = "done"
  BY DEF JournalIInv, JournalShape, IsFunctionOn, Journal!Finish
<1>2. JournalShape'
  BY <1>1 DEF JournalIInv, JournalShape
<1>3. JournalCallsInv'
  BY <1>1 DEF JournalIInv, JournalCallsInv, Journal!Dates, Journal!DatesAreApart
<1> QED BY <1>2, <1>3 DEF JournalIInv

(* The index admits one deposit for a day, and the day was found closed.   *)
LEMMA DepositsInserted ==
  ASSUME JournalIInv, JournalAssumption, NEW q \in Request, Journal!WriteDeposits(q)
  PROVE  JournalIInv'
<1> DEFINE rows == journalArg[q].rows
<1>1. /\ journalPc[q] = "write" /\ journalArg[q].op = "deposit" /\ journalArg[q] \in JournalCalls[q]
      /\ Journal!DatesAreApart(journalArg[q]) /\ Journal!Dates(journalArg[q]) \subseteq closed
  BY DEF JournalIInv, JournalCallsInv, Journal!WriteDeposits
<1>2. \A r \in rows : r.date \in Date /\ r # Journal!NoDeposit /\ r.date \in closed
  BY <1>1, JournalAssumption DEF JournalAssumption, Journal!CallsAreTyped, Journal!NoDeposit, Journal!Dates
<1>3. /\ closed' = closed /\ rate' = rate /\ start' = start /\ today' = today /\ Journal!Finish(q)
      /\ Journal!Insert(q)
  BY DEF Journal!WriteDeposits
<1>4. IsFunctionOn(deposit, Deposit)' /\ Journal!DepositsOfClosedDays'
  <2>1. CASE deposit' = deposit
    BY <1>3, <2>1 DEF JournalIInv, JournalShape, IsFunctionOn, Journal!DepositsOfClosedDays,
       Journal!RecordedDates, Journal!Recorded
  <2>2. CASE deposit' # deposit
    <3>1. PICK f \in [rows -> Deposit \ Journal!Recorded] :
            /\ \A r, s \in rows : f[r] = f[s] => r = s
            /\ deposit' = [d \in Deposit |-> IF \E r \in rows : f[r] = d
                             THEN CHOOSE r \in rows : f[r] = d ELSE deposit[d]]
      BY <1>3, <2>2 DEF Journal!Insert
    <3>2. \A d \in Journal!Recorded : deposit[d].date \notin Journal!Dates(journalArg[q])
      BY <1>3, <2>2 DEF Journal!Insert, Journal!FreeInIndex
    <3>3. \A d \in Deposit : \/ deposit'[d] = deposit[d]
                             \/ deposit'[d] \in rows /\ f[deposit'[d]] = d
      BY <3>1
    <3>4. \A d \in Deposit : deposit'[d] # Journal!NoDeposit =>
            \/ d \in Journal!Recorded /\ deposit'[d] = deposit[d]
            \/ deposit'[d] \in rows /\ f[deposit'[d]] = d
      BY <3>3 DEF Journal!Recorded
    <3>5. \A r \in rows : r.date \in Journal!Dates(journalArg[q])
      BY DEF Journal!Dates
    <3>6. ASSUME NEW d \in Deposit, NEW e \in Deposit,
                 deposit'[d] # Journal!NoDeposit, deposit'[e] # Journal!NoDeposit,
                 deposit'[d].date = deposit'[e].date
          PROVE  d = e /\ deposit'[d].date \in closed
      <4>1. CASE deposit'[d] \in rows /\ f[deposit'[d]] = d
        <5>1. deposit'[e] \in rows /\ f[deposit'[e]] = e
          BY <3>2, <3>4, <3>5, <3>6, <4>1
        <5>2. deposit'[d] = deposit'[e]
          BY <1>1, <3>6, <4>1, <5>1 DEF Journal!DatesAreApart
        <5> QED BY <1>2, <4>1, <5>1, <5>2
      <4>2. CASE d \in Journal!Recorded /\ deposit'[d] = deposit[d]
        <5>1. e \in Journal!Recorded /\ deposit'[e] = deposit[e]
          BY <3>2, <3>4, <3>5, <3>6, <4>2
        <5> QED BY <3>6, <4>2, <5>1 DEF JournalIInv, Journal!DepositsOfClosedDays, Journal!RecordedDates
      <4> QED BY <3>4, <3>6, <4>1, <4>2
    <3>7. IsFunctionOn(deposit, Deposit)'
      BY <3>1 DEF IsFunctionOn
    <3> QED BY <1>3, <3>6, <3>7 DEF Journal!DepositsOfClosedDays, Journal!RecordedDates, Journal!Recorded
  <2> QED BY <2>1, <2>2
<1> QED BY <1>3, <1>4, JournalWritten DEF JournalIInv, JournalShape

(* An edit moves a deposit to a closed day that the index finds free.      *)
LEMMA DepositEdited ==
  ASSUME JournalIInv, JournalAssumption, NEW q \in Request, Journal!WriteEdit(q)
  PROVE  JournalIInv'
<1> DEFINE c == journalArg[q]
           row == CHOOSE r \in c.rows : TRUE
<1>1. /\ journalPc[q] = "write" /\ c.op = "edit" /\ c \in JournalCalls[q] /\ Journal!Dates(c) \subseteq closed
  BY DEF JournalIInv, JournalCallsInv, Journal!WriteEdit
<1>2. row \in c.rows
  BY <1>1, JournalAssumption DEF JournalAssumption, Journal!CallsAreTyped
<1>3. row.date \in Journal!Dates(c) /\ row.date \in closed
  BY <1>1, <1>2 DEF Journal!Dates
<1>4. /\ closed' = closed /\ rate' = rate /\ start' = start /\ today' = today /\ Journal!Finish(q)
      /\ deposit' = IF c.id \in Journal!Recorded /\ Journal!FreeInIndex(Journal!Dates(c), {c.id})
                    THEN [deposit EXCEPT ![c.id] = row] ELSE deposit
  BY DEF Journal!WriteEdit
<1> HIDE DEF row
<1>5. IsFunctionOn(deposit, Deposit)' /\ Journal!DepositsOfClosedDays'
  <2>1. CASE deposit' = deposit
    BY <1>4, <2>1 DEF JournalIInv, JournalShape, IsFunctionOn, Journal!DepositsOfClosedDays,
       Journal!RecordedDates, Journal!Recorded
  <2>2. CASE deposit' # deposit
    <3>1. /\ c.id \in Journal!Recorded /\ Journal!FreeInIndex(Journal!Dates(c), {c.id})
          /\ deposit' = [deposit EXCEPT ![c.id] = row]
      BY <1>4, <2>2
    <3>2. /\ IsFunctionOn(deposit, Deposit)'
          /\ \A d \in Deposit : deposit'[d] = IF d = c.id THEN row ELSE deposit[d]
      BY <3>1 DEF JournalIInv, JournalShape, IsFunctionOn
    <3>3. \A d \in Journal!Recorded : d # c.id => deposit[d].date # row.date
      BY <1>3, <3>1 DEF Journal!FreeInIndex
    <3> QED BY <1>3, <1>4, <3>2, <3>3 DEF JournalIInv, Journal!DepositsOfClosedDays, Journal!RecordedDates,
            Journal!Recorded
  <2> QED BY <2>1, <2>2
<1> QED BY <1>4, <1>5, JournalWritten DEF JournalIInv, JournalShape

(* Removals, and what is not a deposit.                                    *)
LEMMA JournalWrites ==
  ASSUME JournalIInv, JournalAssumption, NEW q \in Request,
         Journal!WriteRemove(q) \/ Journal!WriteStart(q) \/ Journal!WriteRate(q) \/ Journal!WriteName(q)
  PROVE  JournalIInv'
<1>1. Journal!Finish(q) /\ closed' = closed /\ today' = today
  BY DEF Journal!WriteRemove, Journal!WriteStart, Journal!WriteRate, Journal!WriteName
<1>2. IsFunctionOn(rate, Date)'
  BY DEF Journal!WriteRemove, Journal!WriteStart, Journal!WriteRate, Journal!WriteName, JournalIInv, JournalShape,
     IsFunctionOn
<1>3. start' \in Int
  <2>1. CASE Journal!WriteStart(q)
    BY <2>1, JournalAssumption DEF Journal!WriteStart, JournalIInv, JournalCallsInv, JournalAssumption,
       Journal!CallsAreTyped
  <2>2. CASE start' = start
    BY <2>2 DEF JournalIInv, JournalShape
  <2> QED BY <2>1, <2>2 DEF Journal!WriteRemove, Journal!WriteRate, Journal!WriteName
<1>4. /\ IsFunctionOn(deposit, Deposit)'
      /\ \A d \in Deposit : deposit'[d] = deposit[d] \/ deposit'[d] = Journal!NoDeposit
  BY DEF Journal!WriteRemove, Journal!WriteStart, Journal!WriteRate, Journal!WriteName, JournalIInv, JournalShape,
     IsFunctionOn
<1>5. Journal!DepositsOfClosedDays'
  BY <1>1, <1>4 DEF JournalIInv, Journal!DepositsOfClosedDays, Journal!RecordedDates, Journal!Recorded
<1> QED BY <1>1, <1>2, <1>3, <1>4, <1>5, JournalWritten

(* Any step.                                                               *)
LEMMA JournalKeeps ==
  ASSUME JournalIInv, JournalAssumption, [Journal!Next]_(Journal!vars)
  PROVE  JournalIInv'
<1>1. CASE /\ UNCHANGED <<deposit, rate, start, journalPc, journalArg>>
           /\ closed \subseteq closed' /\ closed' \subseteq Int /\ today' \in Int
  BY <1>1 DEF JournalIInv, JournalShape, IsFunctionOn, JournalCallsInv, Journal!Dates, Journal!DatesAreApart,
     Journal!DepositsOfClosedDays, Journal!RecordedDates, Journal!Recorded
<1>2. CASE \E q \in Request : Journal!Step(q) \/ \E c \in JournalCalls[q] : Journal!Begin(q, c)
  BY <1>2, JournalReads, DepositsInserted, DepositEdited, JournalWrites DEF Journal!Step
<1>3. CASE \/ Journal!NewDay \/ Journal!Morning \/ (\E t \in Date : Journal!CloseDay(t))
           \/ UNCHANGED Journal!vars
  <2>1. Date \subseteq Int /\ today \in Int /\ closed \subseteq Int
    BY JournalAssumption DEF JournalAssumption, Journal!CallsAreTyped, JournalIInv, JournalShape
  <2> QED BY <1>1, <1>3, <2>1 DEF Journal!NewDay, Journal!Morning, Journal!CloseDay, Journal!vars
<1> QED BY <1>2, <1>3 DEF Journal!Next

(* The journal starts without deposits.                                    *)
LEMMA JournalStarts == ASSUME Journal!Init PROVE JournalIInv
BY DEF Journal!Init, JournalIInv, JournalShape, IsFunctionOn, JournalCallsInv, Journal!DepositsOfClosedDays,
   Journal!RecordedDates, Journal!Recorded

(* Days that ask for a deposit.                                            *)
LEMMA MissingDaysWait ==
  ASSUME JournalIInv, JournalAssumption, [Journal!Next]_(Journal!vars)
  PROVE  \A t \in Journal!MissingDays : t \notin Journal!MissingDays' =>
           t \in Journal!RecordedDates' \/ start' > start
<1>1. closed \subseteq closed' /\ today' \in Int /\ today <= today' /\ start' \in Int
  <2>1. start \in Int /\ today \in Int
    BY DEF JournalIInv, JournalShape
  <2>2. closed \subseteq closed' /\ (today' = today \/ today' = today + 1)
    BY DEF Journal!Next, Journal!vars, Journal!Step, Journal!Begin, Journal!Read, Journal!ReadDays,
       Journal!WriteDeposits, Journal!WriteEdit, Journal!WriteRemove, Journal!WriteStart, Journal!WriteRate,
       Journal!WriteName, Journal!NewDay, Journal!Morning, Journal!CloseDay, Journal!Unchanged
  <2>3. start' \in Int
    BY JournalKeeps DEF JournalIInv, JournalShape
  <2> QED BY <2>1, <2>2, <2>3
<1>2. start \in Int /\ today \in Int /\ closed \subseteq Int
  BY DEF JournalIInv, JournalShape
<1> QED BY <1>1, <1>2 DEF Journal!MissingDays, Journal!ServerToday

(* Rates of days gone by.                                                  *)
LEMMA PastRatesStand ==
  ASSUME JournalIInv, JournalAssumption, [Journal!Next]_(Journal!vars)
  PROVE  \A t \in Date, g \in Takings : t < today => Journal!SuggestFor(g, t)' = Journal!SuggestFor(g, t)
<1>1. Date \subseteq Int /\ today \in Int
  BY JournalAssumption DEF JournalAssumption, Journal!CallsAreTyped, JournalIInv, JournalShape
<1>2. \A s \in Date : s < today => rate'[s] = rate[s]
  <2>1. CASE rate' = rate
    BY <2>1
  <2>2. CASE \E q \in Request : Journal!WriteRate(q)
    BY <1>1, <2>2 DEF Journal!WriteRate, Journal!ServerToday
  <2> QED BY <2>1, <2>2 DEF Journal!Next, Journal!vars, Journal!Step, Journal!Begin, Journal!Read, Journal!ReadDays,
       Journal!WriteDeposits, Journal!WriteEdit, Journal!WriteRemove, Journal!WriteStart,
       Journal!WriteName, Journal!NewDay, Journal!Morning, Journal!CloseDay, Journal!Unchanged
<1>3. ASSUME NEW t \in Date, t < today
      PROVE  Journal!RateInForce(t)' = Journal!RateInForce(t)
  <2> DEFINE days == {u \in Date : u <= t /\ rate[u] # {} /\ \A v \in Date : u < v /\ v <= t => rate[v] = {}}
  <2>1. \A u \in Date : u <= t => rate'[u] = rate[u]
    BY <1>1, <1>2, <1>3
  <2>2. {u \in Date : u <= t /\ rate'[u] # {} /\ \A v \in Date : u < v /\ v <= t => rate'[v] = {}} = days
    BY <2>1
  <2>3. {rate'[s] : s \in days} = {rate[s] : s \in days}
    BY <2>1
  <2> QED BY <2>2, <2>3 DEF Journal!RateInForce
<1> QED BY <1>3 DEF Journal!SuggestFor

(* The invariant of the journal holds in the shop.                         *)
LEMMA JournalStays == RecordsSpec => []JournalIInv
<1>1. RecordsInit => JournalIInv
  BY JournalStarts DEF RecordsInit
<1>2. JournalIInv /\ [RecordsNext]_records => JournalIInv'
  BY EachPartSteps, JournalKeeps, JournalAssumption
<1> QED BY <1>1, <1>2, PTL DEF RecordsSpec

-----------------------------------------------------------------------------
(* Weeks.                                                                  *)

(* Why a week holds together, for any number of administrators and weeks:  *)
(* a transaction that has deleted a week's rows holds the week's row until *)
(* it commits, so what it deleted is all there is.                         *)

(* The days as they may be saved by members that were active.              *)
SoundDays(rows) ==
  /\ \A s \in rows : Schedule!HoursAreValid(s.hours)
  /\ \A s, t \in rows : s.day = t.day /\ s.staff = t.staff => s = t

WeekShape ==
  /\ weeks \subseteq Week /\ IsFunctionOn(shifts, Week) /\ IsFunctionOn(notes, Week) /\ IsFunctionOn(lock, Week)
  /\ IsFunctionOn(weekPc, Request) /\ IsFunctionOn(weekArg, Request) /\ IsFunctionOn(gone, Request)

Begun == {"check", "find", "week", "delete", "insert"}
SavesInv ==
  \A q \in Request :
    /\ weekPc[q] \in Begun => weekArg[q] \in WeekCalls[q]
    /\ weekPc[q] \in Begun \ {"check"} => SoundDays(weekArg[q].shifts)

HoldsWeek(q) == weekPc[q] \in {"delete", "insert"}
LockInv ==
  \A q \in Request :
    /\ HoldsWeek(q) => lock[weekArg[q].week] = {q}
    /\ weekPc[q] = "insert" => gone[q] = [shifts |-> shifts[weekArg[q].week], notes |-> notes[weekArg[q].week]]

SoundWeeks == \A w \in weeks : SoundDays(shifts[w])
WeekInv == WeekShape /\ SavesInv /\ LockInv /\ SoundWeeks /\ Schedule!SavedWeekIsOneVersion

(* Saved weeks are sound, and what is shown of one is what is active of    *)
(* it, or of the last one before it.                                       *)
LEMMA SoundWeeksAreSavable ==
  ASSUME WeekInv, Schedule!CallsAreTyped
  PROVE  Schedule!ShownWeekIsSavable
<1> SUFFICES ASSUME NEW w \in Week, Schedule!Editable(w) PROVE Schedule!Accepts(Schedule!WeekView(w))
  BY DEF Schedule!ShownWeekIsSavable
<1>1. ~Schedule!KeepInactive(w)
  BY DEF Schedule!KeepInactive
<1>2. Schedule!SourceWeek(w) \subseteq weeks /\ \A u, v \in Schedule!SourceWeek(w) : u = v
  <2>1. weeks \subseteq Int /\ w \in Int
    BY DEF WeekInv, WeekShape, Schedule!CallsAreTyped
  <2> QED BY <2>1 DEF Schedule!SourceWeek
<1>3. \A s \in Schedule!WeekView(w).shifts : s.staff \in active /\ \E v \in Schedule!SourceWeek(w) : s \in shifts[v]
  BY <1>1 DEF Schedule!WeekView
<1>4. \A v \in Schedule!SourceWeek(w) : SoundDays(shifts[v])
  BY <1>2 DEF WeekInv, SoundWeeks
<1> QED BY <1>2, <1>3, <1>4 DEF Schedule!Accepts, SoundDays

(* Before its row is free, and while members come and go, nothing that is  *)
(* stored changes.                                                         *)
LEMMA WeekWaits ==
  ASSUME WeekInv, Schedule!CallsAreTyped, NEW q \in Request,
         \/ Schedule!Check(q) \/ Schedule!FindWeek(q) \/ Schedule!WriteWeek(q) \/ Schedule!DeleteRows(q)
         \/ \E c \in WeekCalls[q] : Schedule!Begin(q, c)
  PROVE  WeekInv'
<1>1. /\ weeks' = weeks /\ shifts' = shifts /\ notes' = notes
      /\ \A r \in Request : r # q => weekPc'[r] = weekPc[r] /\ weekArg'[r] = weekArg[r] /\ gone'[r] = gone[r]
      /\ IsFunctionOn(weekPc, Request)' /\ IsFunctionOn(weekArg, Request)' /\ IsFunctionOn(gone, Request)'
  BY DEF WeekInv, WeekShape, IsFunctionOn, Schedule!Check, Schedule!FindWeek, Schedule!WriteWeek, Schedule!DeleteRows,
       Schedule!Begin, Schedule!Finish, Schedule!At, Schedule!Stored
<1>2. SoundWeeks' /\ Schedule!SavedWeekIsOneVersion'
  BY <1>1 DEF WeekInv, SoundWeeks, Schedule!SavedWeekIsOneVersion
<1>3. CASE lock' = lock /\ ~HoldsWeek(q) /\ weekPc'[q] \notin {"delete", "insert"}
  <2>1. WeekShape'
    BY <1>1, <1>3 DEF WeekInv, WeekShape, IsFunctionOn
  <2>4. LockInv'
    BY <1>1, <1>3 DEF WeekInv, LockInv, HoldsWeek
  <2>2. /\ weekPc'[q] \in Begun => weekArg'[q] \in WeekCalls[q]
        /\ weekPc'[q] \in Begun \ {"check"} => SoundDays(weekArg'[q].shifts)
    <3>1. CASE Schedule!Check(q)
      BY <3>1 DEF Schedule!Check, Schedule!Finish, Schedule!At, WeekInv, WeekShape, IsFunctionOn, SavesInv, Begun,
           Schedule!Accepts, SoundDays
    <3>2. CASE Schedule!FindWeek(q)
      BY <3>2 DEF Schedule!FindWeek, Schedule!At, WeekInv, WeekShape, IsFunctionOn, SavesInv, Begun
    <3>3. CASE Schedule!WriteWeek(q)
      BY <3>3, <1>3 DEF Schedule!WriteWeek, Schedule!Finish, Schedule!At, WeekInv, WeekShape, IsFunctionOn, SavesInv,
           Begun
    <3>4. CASE Schedule!DeleteRows(q)
      BY <3>4, <1>3 DEF Schedule!DeleteRows, HoldsWeek
    <3>5. CASE \E c \in WeekCalls[q] : Schedule!Begin(q, c)
      BY <3>5 DEF Schedule!Begin, Schedule!At, WeekInv, WeekShape, IsFunctionOn, SavesInv, Begun
    <3> QED BY <3>1, <3>2, <3>3, <3>4, <3>5
  <2>3. SavesInv'
    BY <1>1, <2>2 DEF WeekInv, SavesInv
  <2> QED BY <1>2, <2>1, <2>3, <2>4 DEF WeekInv
<1>4. CASE /\ Schedule!WriteWeek(q) /\ lock' = [lock EXCEPT ![weekArg[q].week] = {q}]
           /\ Schedule!At(q, "delete") /\ weekArg' = weekArg /\ gone' = gone
  <2>1. /\ weekPc[q] = "week" /\ lock[weekArg[q].week] = {}
        /\ weekArg[q] \in WeekCalls[q] /\ SoundDays(weekArg[q].shifts)
    BY <1>4 DEF Schedule!WriteWeek, Schedule!RowIsFree, WeekInv, SavesInv, Begun
  <2>2. weekArg[q].week \in Week
    BY <2>1 DEF Schedule!CallsAreTyped
  <2>3. /\ IsFunctionOn(lock, Week)' /\ lock'[weekArg[q].week] = {q}
        /\ \A w \in Week : w # weekArg[q].week => lock'[w] = lock[w]
    BY <1>4, <2>2 DEF WeekInv, WeekShape, IsFunctionOn
  <2>4. weekPc'[q] = "delete"
    BY <1>4 DEF Schedule!At, WeekInv, WeekShape, IsFunctionOn
  <2>5. WeekShape'
    BY <1>1, <2>3 DEF WeekInv, WeekShape, IsFunctionOn
  <2>6. SavesInv'
    BY <1>1, <1>4, <2>1, <2>4 DEF WeekInv, SavesInv, Begun
  <2>7. ASSUME NEW r \in Request, r # q, HoldsWeek(r)
        PROVE  weekArg[r].week \in Week /\ weekArg[r].week # weekArg[q].week
    <3>1. weekArg[r].week \in Week
      BY <2>7 DEF HoldsWeek, WeekInv, SavesInv, Begun, Schedule!CallsAreTyped
    <3>2. lock[weekArg[r].week] # {}
      BY <2>7 DEF WeekInv, LockInv
    <3> QED BY <3>1, <3>2, <2>1
  <2>8. LockInv'
    BY <1>1, <1>4, <2>3, <2>4, <2>7 DEF WeekInv, LockInv, HoldsWeek
  <2> QED BY <1>2, <2>5, <2>6, <2>8 DEF WeekInv
<1>5. CASE Schedule!DeleteRows(q)
  <2>1. /\ weekPc[q] = "delete" /\ weekPc'[q] = "insert" /\ weekArg' = weekArg /\ lock' = lock
        /\ gone'[q] = [shifts |-> shifts[weekArg[q].week], notes |-> notes[weekArg[q].week]]
    BY <1>5 DEF Schedule!DeleteRows, Schedule!At, WeekInv, WeekShape, IsFunctionOn
  <2>2. WeekShape'
    BY <1>1, <2>1 DEF WeekInv, WeekShape, IsFunctionOn
  <2>3. SavesInv'
    BY <1>1, <2>1 DEF WeekInv, SavesInv, Begun
  <2>4. LockInv'
    BY <1>1, <2>1 DEF WeekInv, LockInv, HoldsWeek
  <2> QED BY <1>2, <2>2, <2>3, <2>4 DEF WeekInv
<1>6. \/ lock' = lock /\ ~HoldsWeek(q) /\ weekPc'[q] \notin {"delete", "insert"}
      \/ /\ Schedule!WriteWeek(q) /\ lock' = [lock EXCEPT ![weekArg[q].week] = {q}]
         /\ Schedule!At(q, "delete") /\ weekArg' = weekArg /\ gone' = gone
      \/ Schedule!DeleteRows(q)
  BY DEF Schedule!Check, Schedule!FindWeek, Schedule!WriteWeek, Schedule!Begin, Schedule!Finish, Schedule!At,
       HoldsWeek, WeekInv, WeekShape, IsFunctionOn
<1> QED BY <1>3, <1>4, <1>5, <1>6

(* A commit leaves nothing of the week but its own rows.                   *)
LEMMA WeekCommits ==
  ASSUME WeekInv, Schedule!CallsAreTyped, NEW q \in Request, Schedule!Commit(q)
  PROVE  WeekInv'
<1> DEFINE c == weekArg[q]
<1>1. /\ weekPc[q] = "insert" /\ lock' = [lock EXCEPT ![c.week] = {}] /\ Schedule!Finish(q)
      /\ c \in WeekCalls[q] /\ SoundDays(c.shifts) /\ lock[c.week] = {q}
      /\ gone[q].shifts = shifts[c.week] /\ gone[q].notes = notes[c.week]
  <2>1. weekPc[q] = "insert" /\ lock' = [lock EXCEPT ![c.week] = {}] /\ Schedule!Finish(q)
    BY DEF Schedule!Commit, Schedule!ReleaseLock
  <2>2. c \in WeekCalls[q] /\ SoundDays(c.shifts)
    BY <2>1 DEF WeekInv, SavesInv, Begun
  <2>3. lock[c.week] = {q} /\ gone[q] = [shifts |-> shifts[c.week], notes |-> notes[c.week]]
    BY <2>1 DEF WeekInv, LockInv, HoldsWeek
  <2> QED BY <2>1, <2>2, <2>3
<1>2. c.week \in Week
  BY <1>1 DEF Schedule!CallsAreTyped
<1>3. /\ weeks' = weeks \cup {c.week}
      /\ shifts' = [shifts EXCEPT ![c.week] = {} \cup c.shifts]
      /\ notes' = [notes EXCEPT ![c.week] = {} \cup c.notes]
  <2>1. shifts[c.week] \ gone[q].shifts = {} /\ notes[c.week] \ gone[q].notes = {}
    BY <1>1
  <2>2. ~Schedule!InsertConflicts(c, [shifts |-> {}, notes |-> {}])
    BY DEF Schedule!InsertConflicts
  <2> QED BY <2>1, <2>2 DEF Schedule!Commit
<1>4. /\ IsFunctionOn(shifts, Week)' /\ IsFunctionOn(notes, Week)' /\ IsFunctionOn(lock, Week)'
      /\ weeks' \subseteq Week
      /\ \A w \in Week : /\ shifts'[w] = IF w = c.week THEN c.shifts ELSE shifts[w]
                         /\ notes'[w] = IF w = c.week THEN c.notes ELSE notes[w]
                         /\ w # c.week => lock'[w] = lock[w]
  BY <1>1, <1>2, <1>3 DEF WeekInv, WeekShape, IsFunctionOn
<1>5. /\ \A r \in Request : r # q => weekPc'[r] = weekPc[r] /\ weekArg'[r] = weekArg[r] /\ gone'[r] = gone[r]
      /\ IsFunctionOn(weekPc, Request)' /\ IsFunctionOn(weekArg, Request)' /\ IsFunctionOn(gone, Request)'
      /\ weekPc'[q] = "done"
  BY <1>1 DEF WeekInv, WeekShape, IsFunctionOn, Schedule!Finish, Schedule!At
<1>6. WeekShape'
  BY <1>4, <1>5 DEF WeekShape
<1>7. SavesInv'
  BY <1>5 DEF WeekInv, SavesInv, Begun
<1>8. ASSUME NEW r \in Request, r # q, HoldsWeek(r)
      PROVE  weekArg[r].week \in Week /\ weekArg[r].week # c.week
  <2>1. weekArg[r].week \in Week
    BY <1>8 DEF HoldsWeek, WeekInv, SavesInv, Begun, Schedule!CallsAreTyped
  <2>2. lock[weekArg[r].week] = {r}
    BY <1>8 DEF WeekInv, LockInv
  <2> QED BY <2>1, <2>2, <1>1, <1>8
<1>9. LockInv'
  BY <1>4, <1>5, <1>8 DEF WeekInv, LockInv, HoldsWeek
<1>10. SoundWeeks'
  BY <1>1, <1>3, <1>4 DEF WeekInv, WeekShape, SoundWeeks
<1>11. Schedule!SavedWeekIsOneVersion'
  BY <1>1, <1>2, <1>3, <1>4 DEF WeekInv, WeekShape, Schedule!SavedWeekIsOneVersion
<1> QED BY <1>6, <1>7, <1>9, <1>10, <1>11 DEF WeekInv

(* Any step.                                                               *)
LEMMA WeekSteps ==
  ASSUME WeekInv, Schedule!CallsAreTyped, [Schedule!Next]_(Schedule!vars)
  PROVE  WeekInv'
<1>1. CASE UNCHANGED <<Schedule!Stored, lock, weekPc, weekArg, gone>>
  BY <1>1 DEF Schedule!Stored, WeekInv, WeekShape, IsFunctionOn, SavesInv, LockInv, HoldsWeek, SoundWeeks,
     Schedule!SavedWeekIsOneVersion
<1>2. ASSUME NEW q \in Request, Schedule!Step(q) \/ \E c \in WeekCalls[q] : Schedule!Begin(q, c)
      PROVE  WeekInv'
  BY <1>2, WeekWaits, WeekCommits DEF Schedule!Step
<1> QED BY <1>1, <1>2 DEF Schedule!Next, Schedule!vars, Schedule!Stored, Schedule!SundayComes, Schedule!SetActive

(* Two administrators who save a week at once never leave a mixture of     *)
(* their shifts, and what is shown of a week may be saved as it is.        *)
THEOREM WeeksHoldTogether ==
  ASSUME Schedule!CallsAreTyped
  PROVE  Schedule!Spec => []Schedule!ScheduleInv
<1>1. Schedule!Init => WeekInv
  BY DEF Schedule!Init, WeekInv, WeekShape, IsFunctionOn, SavesInv, Begun, LockInv, HoldsWeek, SoundWeeks,
     Schedule!SavedWeekIsOneVersion
<1>2. WeekInv /\ [Schedule!Next]_(Schedule!vars) => WeekInv'
  BY WeekSteps
<1>3. WeekInv => Schedule!ScheduleInv
  BY SoundWeeksAreSavable DEF WeekInv, Schedule!ScheduleInv
<1> QED BY <1>1, <1>2, <1>3, PTL DEF Schedule!Spec

-----------------------------------------------------------------------------
(* Payslips.                                                               *)

(* Of two dates of the shop one is not after the other, and a rate that    *)
(* starts between two dates is in force on the date it starts.             *)
LEMMA RatesOfThePeriod ==
  ASSUME PayrollAssumption
  PROVE  Payroll!RatesShownAreInForce
<1> SUFFICES ASSUME NEW from \in WorkDate, NEW to \in WorkDate, from <= to
    PROVE  Payroll!PersonalCommissionRates(from, to) = UNION {Payroll!RateInForce(d) : d \in from .. to}
  BY DEF Payroll!RatesShownAreInForce
<1>1. from \in Int /\ to \in Int /\ WorkDate \subseteq Int
  BY DEF PayrollAssumption
<1>2. ASSUME NEW t \in Payroll!PersonalCommissionRates(from, to)
      PROVE  \E d \in from .. to : t \in Payroll!RateInForce(d)
  <2>1. t \in WorkDate /\ t \in Int /\ t <= to /\ commission[t] # {}
    BY <1>1 DEF Payroll!PersonalCommissionRates
  <2>2. CASE t > from
    <3>1. t \in from .. to /\ t \in Payroll!RateInForce(t)
      BY <1>1, <2>1, <2>2 DEF Payroll!RateInForce, Payroll!UpTo
    <3> QED BY <3>1
  <2>3. CASE t \in Payroll!Baseline(from)
    <3>1. from \in from .. to /\ t \in Payroll!RateInForce(from)
      BY <1>1, <2>3 DEF Payroll!RateInForce, Payroll!Baseline
    <3> QED BY <3>1
  <2> QED BY <2>2, <2>3 DEF Payroll!PersonalCommissionRates
<1>3. ASSUME NEW d \in from .. to, NEW t \in Payroll!RateInForce(d)
      PROVE  t \in Payroll!PersonalCommissionRates(from, to)
  <2>1. d \in Int /\ from <= d /\ d <= to
    BY <1>1
  <2>2. t \in Payroll!UpTo(d) /\ \A u \in Payroll!UpTo(d) : u <= t
    BY DEF Payroll!RateInForce
  <2>3. t \in WorkDate /\ t \in Int /\ t <= d /\ commission[t] # {}
    BY <1>1, <2>2 DEF Payroll!UpTo
  <2>4. t <= to
    BY <1>1, <2>1, <2>3
  <2>5. CASE t <= from
    <3>1. ASSUME NEW u \in Payroll!UpTo(from)
          PROVE  u \in Payroll!UpTo(d)
      <4>1. u \in WorkDate /\ u \in Int /\ u <= from /\ commission[u] # {}
        BY <1>1 DEF Payroll!UpTo
      <4>2. u <= d
        BY <1>1, <2>1, <4>1
      <4> QED BY <4>1, <4>2 DEF Payroll!UpTo
    <3>2. t \in Payroll!UpTo(from)
      BY <2>3, <2>5 DEF Payroll!UpTo
    <3>3. t \in Payroll!Baseline(from)
      BY <2>2, <3>1, <3>2 DEF Payroll!Baseline
    <3> QED BY <2>3, <2>4, <3>3 DEF Payroll!PersonalCommissionRates
  <2>6. CASE t > from
    BY <2>3, <2>4, <2>6 DEF Payroll!PersonalCommissionRates
  <2> QED BY <1>1, <2>3, <2>5, <2>6
<1> QED BY <1>2, <1>3

-----------------------------------------------------------------------------
(* Signing in.                                                             *)

(* The throttle counts keys as everyone does.                              *)
LEMMA SameCardinality == \A S : Access!Cardinality(S) = Cardinality(S)
BY DEF Access!Cardinality, Cardinality

(* A bucket that is full is blocked while it lives, another never is.      *)
IsSoundBucket(b) ==
  /\ b.failures <= MaxFailures
  /\ b.blocked = IF b.failures = MaxFailures THEN b.expires ELSE 0

(* The order in which keys were entered: none is before itself, and what   *)
(* is before one of two is before the other.                               *)
IsOrdered(m) ==
  \A k \in Access!Key : \A b \in m[k] :
    /\ k \notin b.before
    /\ \A o \in b.before : \A c \in m[o] : c.before \cap Access!Entered(m) \subseteq b.before

IsThrottle(m) ==
  /\ m \in [Access!Key -> SUBSET Access!Bucket]
  /\ \A k \in Access!Key : \A b \in m[k] : IsSoundBucket(b) /\ m[k] = {b}
  /\ IsOrdered(m)
  /\ IsFiniteSet(Access!Entered(m)) /\ Cardinality(Access!Entered(m)) <= MaxBuckets

(* Whatever keys are kept, one of them was entered before the others.      *)
LEMMA OneWasFirst ==
  ASSUME NEW m, IsThrottle(m), NEW K \in SUBSET Access!Entered(m), K # {}
  PROVE  \E k \in K : Access!Earlier(m, k) \cap K = {}
<1> DEFINE E == Access!Entered(m)
           T == {Access!Earlier(m, k) : k \in K}
<1>1. IsFiniteSet(E)
  BY DEF IsThrottle
<1>2. \A k \in K : Access!Earlier(m, k) \subseteq E
  BY DEF Access!Earlier
<1>3. T \subseteq FiniteSubsetsOf(E)
  <2>1. ASSUME NEW k \in K
        PROVE  Access!Earlier(m, k) \in FiniteSubsetsOf(E)
    BY <1>1, <1>2, FS_Subset DEF FiniteSubsetsOf
  <2> QED BY <2>1
<1>4. IsWellFoundedOn(StrictSubsetOrdering(E), FiniteSubsetsOf(E))
  BY FS_StrictSubsetOrderingWellFounded
<1>5. PICK x \in T : \A y \in T : ~(<<y, x>> \in StrictSubsetOrdering(E))
  <2>1. T # {}
    OBVIOUS
  <2> HIDE DEF T, E
  <2> QED BY <1>3, <1>4, <2>1, WFMin
<1>6. PICK k \in K : x = Access!Earlier(m, k)
  OBVIOUS
<1>7. ASSUME NEW o \in Access!Earlier(m, k) \cap K
      PROVE  FALSE
  <2>1. PICK b \in m[k] : o \in b.before
    BY DEF Access!Earlier
  <2>2. Access!Earlier(m, o) \subseteq Access!Earlier(m, k)
    BY <2>1, <1>6 DEF Access!Earlier, IsThrottle, IsOrdered, Access!Entered
  <2>3. o \notin Access!Earlier(m, o)
    BY DEF Access!Earlier, IsThrottle, IsOrdered, Access!Entered
  <2>4. <<Access!Earlier(m, o), x>> \in StrictSubsetOrdering(E)
    BY <1>2, <1>6, <2>2, <2>3 DEF StrictSubsetOrdering
  <2> QED BY <1>5, <2>4
<1> QED BY <1>7

(* Making room leaves room for one.                                        *)
LEMMA RoomIsMade ==
  ASSUME NEW m, IsThrottle(m), Access!CallsAreTyped
  PROVE  /\ Cardinality(Access!Entered(Access!WithRoom(m))) < MaxBuckets
         /\ IsFiniteSet(Access!Entered(Access!WithRoom(m)))
<1> DEFINE E == Access!Entered(m)
           K == Access!Entered(Access!WithRoom(m))
<1>1. IsFiniteSet(E) /\ Cardinality(E) \in Nat /\ MaxBuckets \in Nat \ {0}
  BY FS_CardinalityType DEF IsThrottle, Access!CallsAreTyped
<1>2. CASE Cardinality(E) < MaxBuckets
  <2>1. Access!WithRoom(m) = m
    BY <1>2, SameCardinality DEF Access!WithRoom
  <2> QED BY <1>1, <1>2, <2>1
<1>3. CASE ~(Cardinality(E) < MaxBuckets)
  <2>1. K = {k \in E : Access!StaysIn(m, k)}
    <3>1. Access!WithRoom(m) = [k \in Access!Key |-> IF Access!StaysIn(m, k) THEN m[k] ELSE {}]
      BY <1>3, SameCardinality DEF Access!WithRoom
    <3>2. K = {k \in Access!Key : Access!StaysIn(m, k) /\ m[k] # {}}
      BY <3>1 DEF Access!Entered
    <3> QED BY <3>2 DEF Access!Entered
  <2>2. IsFiniteSet(K)
    BY <1>1, <2>1, FS_Subset
  <2>3. CASE K = {}
    BY <1>1, <2>2, <2>3, FS_EmptySet
  <2>4. CASE K # {}
    <3>1. PICK k \in K : Access!Earlier(m, k) \cap K = {}
      <4>1. K \in SUBSET E
        BY <2>1
      <4> QED BY <2>4, <4>1, OneWasFirst
    <3> DEFINE F == Access!Earlier(m, k)
    <3>2. F \subseteq E /\ IsFiniteSet(F) /\ Cardinality(F) \in Nat
      BY <1>1, FS_Subset, FS_CardinalityType DEF Access!Earlier
    <3>3. K \subseteq E \ F
      BY <2>1, <3>1
    <3>4. Cardinality(E \ F) = Cardinality(E) - Cardinality(F)
      <4>1. E \cap F = F
        BY <3>2
      <4> HIDE DEF E, F
      <4> QED BY <1>1, <4>1, FS_Difference
    <3>5. IsFiniteSet(E \ F) /\ Cardinality(E \ F) \in Nat
      <4> HIDE DEF E, F
      <4> QED BY <1>1, FS_Difference, FS_CardinalityType
    <3>6. Cardinality(K) <= Cardinality(E \ F)
      <4> HIDE DEF E, F, K
      <4> QED BY <3>3, <3>5, FS_Subset
    <3>7. Cardinality(E) < MaxBuckets + Cardinality(F)
      <4>1. Access!StaysIn(m, k)
        BY <2>1
      <4> QED BY <4>1, SameCardinality DEF Access!StaysIn
    <3>8. Cardinality(K) \in Nat
      BY <2>2, FS_CardinalityType
    <3> HIDE DEF E, F, K
    <3> QED BY <1>1, <2>2, <3>2, <3>4, <3>5, <3>6, <3>7, <3>8 DEF E, F, K
  <2> QED BY <2>3, <2>4
<1> QED BY <1>2, <1>3

(* A bucket less, or older, and the throttle is sound: each key keeps its  *)
(* bucket's place or is forgotten.                                         *)
LEMMA ThrottleShrinks ==
  ASSUME NEW m, IsThrottle(m), NEW n \in [Access!Key -> SUBSET Access!Bucket],
         \A k \in Access!Key : \A b \in n[k] :
           /\ IsSoundBucket(b) /\ n[k] = {b}
           /\ \E c \in m[k] : c.before = b.before,
         MaxBuckets \in Nat
  PROVE  IsThrottle(n)
<1>1. Access!Entered(n) \subseteq Access!Entered(m)
  BY DEF Access!Entered
<1>2. IsFiniteSet(Access!Entered(n)) /\ Cardinality(Access!Entered(n)) <= MaxBuckets
  <2>1. IsFiniteSet(Access!Entered(m)) /\ Cardinality(Access!Entered(m)) <= MaxBuckets
    BY DEF IsThrottle
  <2>2. Cardinality(Access!Entered(n)) <= Cardinality(Access!Entered(m)) /\ IsFiniteSet(Access!Entered(n))
    BY <1>1, <2>1, FS_Subset
  <2>3. Cardinality(Access!Entered(n)) \in Nat /\ Cardinality(Access!Entered(m)) \in Nat
    BY <2>1, <2>2, FS_CardinalityType
  <2> QED BY <2>1, <2>2, <2>3
<1>3. IsOrdered(n)
  <2> SUFFICES ASSUME NEW k \in Access!Key, NEW b \in n[k]
               PROVE  /\ k \notin b.before
                      /\ \A o \in b.before : \A c \in n[o] : c.before \cap Access!Entered(n) \subseteq b.before
    BY DEF IsOrdered
  <2>1. PICK d \in m[k] : d.before = b.before
    OBVIOUS
  <2>2. /\ k \notin d.before
        /\ \A o \in d.before : \A c \in m[o] : c.before \cap Access!Entered(m) \subseteq d.before
    BY DEF IsThrottle, IsOrdered
  <2>3. ASSUME NEW o \in b.before, NEW c \in n[o]
        PROVE  c.before \cap Access!Entered(n) \subseteq b.before
    <3>1. o \in Access!Key
      BY DEF Access!Bucket
    <3>2. PICK e \in m[o] : e.before = c.before
      BY <2>3, <3>1
    <3> QED BY <1>1, <2>1, <2>2, <2>3, <3>2
  <2> QED BY <2>1, <2>2, <2>3
<1> QED BY <1>2, <1>3 DEF IsThrottle

(* What lives of a sound throttle is sound.                                *)
LEMMA LiveIsSound ==
  ASSUME NEW m, IsThrottle(m), Access!CallsAreTyped
  PROVE  IsThrottle(Access!Live(m))
<1> DEFINE n == Access!Live(m)
<1>1. n \in [Access!Key -> SUBSET Access!Bucket]
  BY DEF IsThrottle, Access!Live
<1>2. ASSUME NEW k \in Access!Key, NEW b \in n[k]
      PROVE  IsSoundBucket(b) /\ n[k] = {b} /\ \E c \in m[k] : c.before = b.before
  <2>1. n[k] = {c \in m[k] : c.expires > 0}
    BY DEF Access!Live
  <2>2. b \in m[k]
    BY <2>1
  <2>3. IsSoundBucket(b) /\ m[k] = {b}
    BY <2>2 DEF IsThrottle
  <2> QED BY <2>1, <2>2, <2>3
<1> HIDE DEF n
<1>3. MaxBuckets \in Nat
  BY DEF Access!CallsAreTyped
<1>4. IsThrottle(n)
  BY <1>1, <1>2, <1>3, ThrottleShrinks
<1> QED BY <1>4 DEF n

(* So is what a success leaves.                                            *)
LEMMA ResetIsSound ==
  ASSUME NEW m, IsThrottle(m), NEW key, Access!CallsAreTyped
  PROVE  IsThrottle(Access!Delete(m, key))
<1> DEFINE n == Access!Delete(m, key)
<1>1. n \in [Access!Key -> SUBSET Access!Bucket]
  BY DEF IsThrottle, Access!Delete
<1>2. ASSUME NEW k \in Access!Key, NEW b \in n[k]
      PROVE  IsSoundBucket(b) /\ n[k] = {b} /\ \E c \in m[k] : c.before = b.before
  <2>1. n[k] = m[k]
    BY <1>2 DEF Access!Delete, IsThrottle
  <2>2. b \in m[k]
    BY <2>1
  <2>3. IsSoundBucket(b) /\ m[k] = {b}
    BY <2>2 DEF IsThrottle
  <2> QED BY <2>1, <2>2, <2>3
<1> HIDE DEF n
<1>3. MaxBuckets \in Nat
  BY DEF Access!CallsAreTyped
<1>4. IsThrottle(n)
  BY <1>1, <1>2, <1>3, ThrottleShrinks
<1> QED BY <1>4 DEF n

(* Time blocks no one and unblocks the full with the living.               *)
LEMMA TickIsSound ==
  ASSUME NEW m, IsThrottle(m), Access!CallsAreTyped
  PROVE  IsThrottle(Access!Ticked(m))
<1> DEFINE n == Access!Ticked(m)
<1>0. Cooldown \in Nat /\ MaxBuckets \in Nat
  BY DEF Access!CallsAreTyped
<1>1. ASSUME NEW b \in Access!Bucket
      PROVE  /\ Access!Aged(b) \in Access!Bucket /\ Access!Aged(b).before = b.before
             /\ IsSoundBucket(b) => IsSoundBucket(Access!Aged(b))
  <2>1. /\ b.failures \in Nat /\ b.blocked \in 0 .. Cooldown /\ b.expires \in 0 .. Cooldown
        /\ b = [failures |-> b.failures, blocked |-> b.blocked, expires |-> b.expires, before |-> b.before]
    BY DEF Access!Bucket
  <2>3. Access!Less(b.blocked) \in 0 .. Cooldown /\ Access!Less(b.expires) \in 0 .. Cooldown
    BY <1>0, <2>1 DEF Access!Less
  <2>4. Access!Aged(b) \in Access!Bucket
    BY <2>1, <2>3 DEF Access!Bucket, Access!Aged
  <2>5. IsSoundBucket(b) => IsSoundBucket(Access!Aged(b))
    BY <2>1 DEF IsSoundBucket, Access!Less, Access!Aged
  <2> QED BY <2>1, <2>4, <2>5 DEF Access!Aged
<1>2. n = [k \in Access!Key |-> {Access!Aged(b) : b \in m[k]}]
  BY DEF Access!Ticked
<1> HIDE DEF n
<1>3. \A k \in Access!Key : \A b \in m[k] : b \in Access!Bucket /\ IsSoundBucket(b) /\ m[k] = {b}
  BY DEF IsThrottle
<1>4. n \in [Access!Key -> SUBSET Access!Bucket]
  BY <1>1, <1>2, <1>3
<1>5. ASSUME NEW k \in Access!Key, NEW b \in n[k]
      PROVE  IsSoundBucket(b) /\ n[k] = {b} /\ \E c \in m[k] : c.before = b.before
  <2>1. PICK c \in m[k] : b = Access!Aged(c)
    BY <1>2
  <2>2. c \in Access!Bucket /\ IsSoundBucket(c) /\ m[k] = {c}
    BY <1>3
  <2> QED BY <1>1, <1>2, <2>1, <2>2
<1>6. IsThrottle(n)
  BY <1>0, <1>4, <1>5, ThrottleShrinks
<1> QED BY <1>6 DEF n

(* Forgetting the first keys leaves the others as they are.                *)
LEMMA RoomIsSound ==
  ASSUME NEW m, IsThrottle(m), Access!CallsAreTyped
  PROVE  IsThrottle(Access!WithRoom(m))
<1> DEFINE n == Access!WithRoom(m)
<1>1. ASSUME NEW k \in Access!Key
      PROVE  n[k] = m[k] \/ n[k] = {}
  BY DEF Access!WithRoom
<1>2. n \in [Access!Key -> SUBSET Access!Bucket]
  BY DEF IsThrottle, Access!WithRoom
<1>3. ASSUME NEW k \in Access!Key, NEW b \in n[k]
      PROVE  IsSoundBucket(b) /\ n[k] = {b} /\ \E c \in m[k] : c.before = b.before
  BY <1>1, <1>3 DEF IsThrottle
<1> HIDE DEF n
<1>4. MaxBuckets \in Nat
  BY DEF Access!CallsAreTyped
<1>5. IsThrottle(n)
  BY <1>2, <1>3, <1>4, ThrottleShrinks
<1> QED BY <1>5 DEF n

(* A count within the limit makes a sound bucket.                          *)
LEMMA CountedIsSound ==
  ASSUME Access!CallsAreTyped, NEW n \in 1 .. MaxFailures, NEW keys \in SUBSET Access!Key
  PROVE  LET b == Access!Counted(n, keys) IN
         b \in Access!Bucket /\ IsSoundBucket(b) /\ b.before = keys
BY DEF Access!CallsAreTyped, Access!Counted, Access!Bucket, IsSoundBucket

(* A new key is the last one, behind all that are there.                   *)
LEMMA PutIsSound ==
  ASSUME NEW m, IsThrottle(m), NEW key \in Access!Key, m[key] = {}, Access!CallsAreTyped,
         Cardinality(Access!Entered(m)) < MaxBuckets
  PROVE  IsThrottle(Access!PutLast(m, key))
<1> DEFINE n == Access!PutLast(m, key)
           E == Access!Entered(m)
           less(b) == [b EXCEPT !.before = @ \ {key}]
           new == Access!Counted(1, E)
<1>0. MaxBuckets \in Nat /\ MaxFailures \in Nat \ {0} /\ E \in SUBSET Access!Key
  BY DEF Access!CallsAreTyped, Access!Entered
<1>1. new \in Access!Bucket /\ IsSoundBucket(new) /\ new.before = E
  BY <1>0, CountedIsSound
<1>2. ASSUME NEW b \in Access!Bucket
      PROVE  /\ less(b) \in Access!Bucket /\ less(b).before = b.before \ {key}
             /\ IsSoundBucket(b) => IsSoundBucket(less(b))
  BY DEF Access!Bucket, IsSoundBucket
<1>3. n = [o \in Access!Key |-> IF o = key THEN {new} ELSE {less(b) : b \in m[o]}]
  BY DEF Access!PutLast
<1>4. \A k \in Access!Key : \A b \in m[k] : b \in Access!Bucket /\ IsSoundBucket(b) /\ m[k] = {b}
  BY DEF IsThrottle
<1> HIDE DEF n, less, new
<1>5. n \in [Access!Key -> SUBSET Access!Bucket]
  BY <1>1, <1>2, <1>3, <1>4
<1>6. ASSUME NEW k \in Access!Key, NEW b \in n[k]
      PROVE  IsSoundBucket(b) /\ n[k] = {b}
  <2>1. CASE k = key
    BY <1>1, <1>3, <1>6, <2>1
  <2>2. CASE k # key
    <3>1. PICK c \in m[k] : b = less(c)
      BY <1>3, <1>6, <2>2
    <3>2. c \in Access!Bucket /\ IsSoundBucket(c) /\ m[k] = {c}
      BY <1>4
    <3> QED BY <1>2, <1>3, <2>2, <3>1, <3>2
  <2> QED BY <2>1, <2>2
<1>7. Access!Entered(n) = E \cup {key}
  <2>1. \A k \in Access!Key : n[k] # {} <=> k = key \/ m[k] # {}
    BY <1>3
  <2> QED BY <2>1 DEF Access!Entered
<1>8. IsFiniteSet(Access!Entered(n)) /\ Cardinality(Access!Entered(n)) <= MaxBuckets
  <2>1. IsFiniteSet(E) /\ key \notin E
    BY DEF IsThrottle, Access!Entered
  <2>2. Cardinality(E) \in Nat
    BY <2>1, FS_CardinalityType
  <2>3. IsFiniteSet(E \cup {key}) /\ Cardinality(E \cup {key}) = Cardinality(E) + 1
    BY <2>1, FS_AddElement
  <2> HIDE DEF E
  <2> QED BY <1>0, <1>7, <2>2, <2>3 DEF E
<1>9. IsOrdered(n)
  <2>1. ASSUME NEW k \in Access!Key, NEW b \in n[k]
        PROVE  /\ k \notin b.before
               /\ \A o \in b.before : \A c \in n[o] : c.before \cap Access!Entered(n) \subseteq b.before
    <3>1. ASSUME NEW o \in Access!Key, o # key, NEW c \in n[o]
          PROVE  /\ key \notin c.before
                 /\ \E d \in m[o] : c.before = d.before \ {key}
      BY <1>2, <1>3, <1>4, <3>1
    <3>2. CASE k = key
      <4>1. b.before = E
        BY <1>1, <1>3, <2>1, <3>2
      <4>2. key \notin E
        BY DEF Access!Entered
      <4>3. ASSUME NEW o \in E, NEW c \in n[o]
            PROVE  c.before \cap Access!Entered(n) \subseteq E
        BY <1>0, <1>7, <3>1, <4>2, <4>3
      <4> QED BY <3>2, <4>1, <4>2, <4>3
    <3>3. CASE k # key
      <4>1. PICK d \in m[k] : b.before = d.before \ {key}
        BY <2>1, <3>1, <3>3
      <4>2. /\ k \notin d.before /\ d.before \subseteq Access!Key
            /\ \A o \in d.before : \A c \in m[o] : c.before \cap E \subseteq d.before
        BY DEF IsThrottle, IsOrdered, Access!Bucket
      <4>3. ASSUME NEW o \in b.before, NEW c \in n[o]
            PROVE  c.before \cap Access!Entered(n) \subseteq b.before
        <5>1. o \in d.before /\ o # key /\ o \in Access!Key
          BY <4>1, <4>2, <4>3
        <5>2. PICK e \in m[o] : c.before = e.before \ {key}
          BY <3>1, <4>3, <5>1
        <5>3. e.before \cap E \subseteq d.before
          BY <4>2, <5>1
        <5> QED BY <1>7, <4>1, <5>2, <5>3
      <4> QED BY <4>1, <4>2, <4>3
    <3> QED BY <3>2, <3>3
  <2> QED BY <2>1 DEF IsOrdered
<1>10. IsThrottle(n)
  BY <1>5, <1>6, <1>8, <1>9 DEF IsThrottle
<1> QED BY <1>10 DEF n

(* A failure is counted unless the key is blocked, so none counts past     *)
(* the limit.                                                              *)
LEMMA FailureIsSound ==
  ASSUME NEW m0, IsThrottle(m0), NEW key \in Access!Key, Access!CallsAreTyped
  PROVE  IsThrottle(Access!Failed(m0, key))
<1> DEFINE m == Access!Live(m0)
<1>1. IsThrottle(m)
  BY LiveIsSound
<1>2. CASE Access!IsBlocked(m0, key)
  BY <1>1, <1>2 DEF Access!Failed
<1>3. CASE ~Access!IsBlocked(m0, key) /\ m[key] = {}
  <2> DEFINE r == Access!WithRoom(m)
  <2>1. IsThrottle(r) /\ Cardinality(Access!Entered(r)) < MaxBuckets
    BY <1>1, RoomIsSound, RoomIsMade
  <2>2. r[key] = {}
    BY <1>3 DEF Access!WithRoom
  <2>3. IsThrottle(Access!PutLast(r, key))
    <3> HIDE DEF r
    <3> QED BY <2>1, <2>2, PutIsSound
  <2> QED BY <1>3, <2>3 DEF Access!Failed, Access!Set
<1>4. CASE ~Access!IsBlocked(m0, key) /\ m[key] # {}
  <2>0. Cooldown \in Nat \ {0} /\ MaxFailures \in Nat \ {0} /\ MaxBuckets \in Nat
    BY DEF Access!CallsAreTyped
  <2>1. PICK b : m[key] = {b} /\ b \in Access!Bucket /\ IsSoundBucket(b)
    BY <1>1, <1>4 DEF IsThrottle
  <2>2. b.expires > 0 /\ ~(b.blocked > 0)
    BY <1>4, <2>1 DEF Access!IsBlocked, Access!Live
  <2>3. b.failures + 1 \in 1 .. MaxFailures /\ b.before \in SUBSET Access!Key
    BY <2>0, <2>1, <2>2 DEF IsSoundBucket, Access!Bucket
  <2> DEFINE c == Access!Counted(b.failures + 1, b.before)
             n == [m EXCEPT ![key] = {c}]
  <2>4. c \in Access!Bucket /\ IsSoundBucket(c) /\ c.before = b.before
    BY <2>3, CountedIsSound
  <2>5. Access!Failed(m0, key) = n
    BY <1>4, <2>1 DEF Access!Failed, Access!Set
  <2> HIDE DEF c
  <2>6. m \in [Access!Key -> SUBSET Access!Bucket]
    BY <1>1 DEF IsThrottle
  <2> HIDE DEF m
  <2>7. n \in [Access!Key -> SUBSET Access!Bucket]
    BY <2>4, <2>6
  <2>8. ASSUME NEW k \in Access!Key, NEW d \in n[k]
        PROVE  IsSoundBucket(d) /\ n[k] = {d} /\ \E e \in m[k] : e.before = d.before
    <3>1. CASE k = key
      BY <2>1, <2>4, <2>6, <2>8, <3>1
    <3>2. CASE k # key
      BY <1>1, <2>6, <2>8, <3>2 DEF IsThrottle
    <3> QED BY <3>1, <3>2
  <2> HIDE DEF n
  <2>9. IsThrottle(n)
    BY <1>1, <2>0, <2>7, <2>8, ThrottleShrinks
  <2> QED BY <2>5, <2>9
<1> QED BY <1>2, <1>3, <1>4

(* What a request on its way is about, and what it has seen.               *)
IsOnItsWay(q) ==
  /\ accessPc[q] \notin {"idle", "done"} => accessArg[q] \in AccessCalls[q]
  /\ accessPc[q] = "key" => accessArg[q].op = "select"
  /\ accessPc[q] = "verify" => accessArg[q].op # "clear" /\ (accessSeen[q].account # {} => accessSeen[q].user # {})
  /\ accessPc[q] = "default" => accessArg[q].op \in {"password", "pin"}
  /\ accessPc[q] \in {"default", "append"} /\ accessArg[q].op \in {"password", "pin"} => accessSeen[q].user # {}
  /\ accessPc[q] = "append" /\ accessArg[q].op \in {"password", "pin"} =>
       accessSeen[q].member \in {Access!None} \cup UNION {Access!LinkedTo(u) : u \in accessSeen[q].user}

AccessIInv == Access!TypeOK /\ IsThrottle(buckets) /\ \A q \in Request : IsOnItsWay(q)

(* Only the request that moves has a new place.                            *)
LEMMA OneRequestMoves ==
  ASSUME NEW q \in Request, \A p \in Request : IsOnItsWay(p),
         \A p \in Request \ {q} :
           accessPc'[p] = accessPc[p] /\ accessArg'[p] = accessArg[p] /\ accessSeen'[p] = accessSeen[p],
         UNCHANGED person, IsOnItsWay(q)'
  PROVE  \A p \in Request : IsOnItsWay(p)'
<1> SUFFICES ASSUME NEW p \in Request, p # q
             PROVE  IsOnItsWay(p)'
  OBVIOUS
<1> QED BY DEF IsOnItsWay, Access!LinkedTo

(* An answered request has forgotten what it was about.                    *)
LEMMA RequestFinishes ==
  ASSUME AccessIInv, Access!CallsAreTyped, NEW q \in Request, NEW a \in Access!Answer,
         Access!Finish(q, a), UNCHANGED person
  PROVE  /\ accessPc' \in [Request -> Access!Label] /\ accessArg' \in [Request -> Access!Call]
         /\ answer' \in [Request -> Access!Answer] /\ accessSeen' \in [Request -> Access!Seen]
         /\ \A p \in Request : IsOnItsWay(p)'
<1>1. /\ accessPc \in [Request -> Access!Label] /\ accessArg \in [Request -> Access!Call]
      /\ answer \in [Request -> Access!Answer] /\ accessSeen \in [Request -> Access!Seen]
  BY DEF AccessIInv, Access!TypeOK
<1>2. Access!NoArg \in Access!Call
  <2>1. (CHOOSE s \in Secret : TRUE) \in Secret /\ (CHOOSE d \in Device : TRUE) \in Device
    BY DEF Access!CallsAreTyped
  <2> QED BY <2>1 DEF Access!NoArg, Access!Call, Access!Op
<1>3. Access!Nothing \in Access!Seen
  BY DEF Access!Nothing, Access!Seen
<1>4. /\ accessPc' = [accessPc EXCEPT ![q] = "done"] /\ answer' = [answer EXCEPT ![q] = a]
      /\ accessArg' = [accessArg EXCEPT ![q] = Access!NoArg]
      /\ accessSeen' = [accessSeen EXCEPT ![q] = Access!Nothing]
  BY DEF Access!Finish
<1>5. /\ accessPc' \in [Request -> Access!Label] /\ accessArg' \in [Request -> Access!Call]
      /\ answer' \in [Request -> Access!Answer] /\ accessSeen' \in [Request -> Access!Seen]
  BY <1>1, <1>2, <1>3, <1>4 DEF Access!Label
<1>6. IsOnItsWay(q)'
  <2>1. accessPc'[q] = "done"
    BY <1>1, <1>4
  <2> QED BY <2>1 DEF IsOnItsWay
<1>7. \A p \in Request : IsOnItsWay(p)'
  <2>1. \A p \in Request : IsOnItsWay(p)
    BY DEF AccessIInv
  <2>2. \A p \in Request \ {q} :
          accessPc'[p] = accessPc[p] /\ accessArg'[p] = accessArg[p] /\ accessSeen'[p] = accessSeen[p]
    BY <1>1, <1>4
  <2> QED BY <1>6, <2>1, <2>2, OneRequestMoves
<1> QED BY <1>5, <1>7

(* The bucket of a request that verifies is a key.                         *)
LEMMA KeysAreKeys ==
  ASSUME AccessIInv, Access!CallsAreTyped, NEW q \in Request, accessPc[q] = "verify"
  PROVE  Access!KeyOf(q) \in Access!Key
<1>1. /\ accessArg[q] \in AccessCalls[q] /\ accessArg[q].op # "clear"
      /\ accessArg[q] \in Access!Call /\ accessSeen[q] \in Access!Seen
  BY DEF AccessIInv, Access!TypeOK, IsOnItsWay
<1>2. accessArg[q].device \in Device /\ accessSeen[q].user \subseteq StaffUser
  BY <1>1 DEF Access!Call, Access!Seen
<1>3. accessArg[q].who \in StaffUser \cup Unknown \cup Member
  BY <1>1 DEF Access!CallsAreTyped, Access!Call, Access!Op
<1>4. accessSeen[q].user # {} => (CHOOSE u \in accessSeen[q].user : TRUE) \in StaffUser
  BY <1>2
<1> QED BY <1>2, <1>3, <1>4 DEF Access!KeyOf, Access!Key

(* A call starts with nothing seen.                                        *)
LEMMA AccessBegins ==
  ASSUME AccessIInv, Access!CallsAreTyped, NEW q \in Request, NEW c \in AccessCalls[q], Access!Begin(q, c)
  PROVE  AccessIInv'
<1>1. c \in Access!Call
  BY DEF Access!CallsAreTyped
<1>2. Access!TypeOK'
  BY <1>1 DEF AccessIInv, Access!TypeOK, Access!Begin, Access!Label
<1>3. IsOnItsWay(q)'
  <2>1. accessPc'[q] = (IF c.op = "clear" THEN "append" ELSE "find") /\ accessArg'[q] = c
    BY DEF AccessIInv, Access!TypeOK, Access!Begin
  <2> QED BY <2>1 DEF IsOnItsWay
<1>4. \A p \in Request : IsOnItsWay(p)'
  <2>1. \A p \in Request \ {q} :
          accessPc'[p] = accessPc[p] /\ accessArg'[p] = accessArg[p] /\ accessSeen'[p] = accessSeen[p]
    BY DEF AccessIInv, Access!TypeOK, Access!Begin
  <2>2. UNCHANGED person /\ \A p \in Request : IsOnItsWay(p)
    BY DEF Access!Begin, AccessIInv
  <2> QED BY <1>3, <2>1, <2>2, OneRequestMoves
<1>5. UNCHANGED buckets
  BY DEF Access!Begin
<1> QED BY <1>2, <1>4, <1>5 DEF AccessIInv

(* An attempt is throttled, or goes on with the account's row.             *)
LEMMA AttemptIsAdmitted ==
  ASSUME AccessIInv, Access!CallsAreTyped, NEW q \in Request, accessArg[q] \in AccessCalls[q],
         accessArg[q].op # "clear", accessPc[q] \notin {"idle", "done"},
         NEW users \in SUBSET StaffUser, Access!Admit(q, users), UNCHANGED <<account, person, selected>>
  PROVE  AccessIInv'
<1>1. IsThrottle(buckets')
  BY LiveIsSound DEF Access!Admit, AccessIInv
<1>2. buckets' \in [Access!Key -> SUBSET Access!Bucket]
  BY <1>1 DEF IsThrottle
<1>3. CASE Access!Finish(q, "throttled")
  BY <1>1, <1>2, <1>3, RequestFinishes DEF AccessIInv, Access!TypeOK, Access!Answer
<1>4. CASE /\ accessSeen' = [accessSeen EXCEPT ![q] = [user |-> users, account |-> {account[u] : u \in users},
                                                      member |-> @.member]]
           /\ Access!Go(q, "verify")
  <2>1. account \in [StaffUser -> Access!Account] /\ accessSeen \in [Request -> Access!Seen]
    BY DEF AccessIInv, Access!TypeOK
  <2> DEFINE rows == {account[u] : u \in users}
  <2>2. rows \subseteq Access!Account
    BY <2>1
  <2>3. rows # {} => users # {}
    OBVIOUS
  <2>4. accessSeen[q] \in Access!Seen
    BY <2>1
  <2>5. accessSeen' = [accessSeen EXCEPT ![q] = [user |-> users, account |-> rows, member |-> accessSeen[q].member]]
    BY <1>4, <2>1, <2>4 DEF Access!Seen
  <2> HIDE DEF rows
  <2>6. accessSeen' \in [Request -> Access!Seen]
    BY <2>1, <2>2, <2>4, <2>5 DEF Access!Seen
  <2>7. accessPc' = [accessPc EXCEPT ![q] = "verify"] /\ UNCHANGED <<accessArg, answer>>
    BY <1>4 DEF Access!Go
  <2>8. Access!TypeOK'
    BY <1>2, <2>6, <2>7 DEF AccessIInv, Access!TypeOK, Access!Label
  <2>9. IsOnItsWay(q)'
    <3>1. /\ accessPc'[q] = "verify" /\ accessArg'[q] = accessArg[q]
          /\ accessSeen'[q].user = users /\ accessSeen'[q].account = rows
      BY <2>1, <2>5, <2>7 DEF AccessIInv, Access!TypeOK
    <3> QED BY <2>3, <3>1 DEF IsOnItsWay
  <2>10. \A p \in Request : IsOnItsWay(p)'
    <3>1. \A p \in Request \ {q} :
            accessPc'[p] = accessPc[p] /\ accessArg'[p] = accessArg[p] /\ accessSeen'[p] = accessSeen[p]
      BY <2>1, <2>5, <2>7 DEF AccessIInv, Access!TypeOK
    <3>2. \A p \in Request : IsOnItsWay(p)
      BY DEF AccessIInv
    <3> QED BY <2>9, <3>1, <3>2, OneRequestMoves
  <2> QED BY <1>1, <2>8, <2>10 DEF AccessIInv
<1> QED BY <1>3, <1>4 DEF Access!Admit

(* What a request does with its row: the rest of the state it leaves.      *)
LEMMA RequestGoes ==
  ASSUME AccessIInv, NEW q \in Request, NEW label \in Access!Label, Access!Go(q, label),
         NEW s \in Access!Seen, accessSeen' = [accessSeen EXCEPT ![q] = s], UNCHANGED <<account, person, selected>>,
         IsThrottle(buckets'),
         accessPc'[q] = label /\ accessSeen'[q] = s /\ accessArg'[q] = accessArg[q] => IsOnItsWay(q)'
  PROVE  AccessIInv'
<1>1. accessPc' = [accessPc EXCEPT ![q] = label] /\ UNCHANGED <<accessArg, answer>>
  BY DEF Access!Go
<1>2. Access!TypeOK'
  BY <1>1 DEF AccessIInv, Access!TypeOK, IsThrottle
<1>3. IsOnItsWay(q)'
  BY <1>1 DEF AccessIInv, Access!TypeOK
<1>4. \A p \in Request \ {q} :
        accessPc'[p] = accessPc[p] /\ accessArg'[p] = accessArg[p] /\ accessSeen'[p] = accessSeen[p]
  BY <1>1 DEF AccessIInv, Access!TypeOK
<1>5. \A p \in Request : IsOnItsWay(p)
  BY DEF AccessIInv
<1>6. \A p \in Request : IsOnItsWay(p)'
  BY <1>3, <1>4, <1>5, OneRequestMoves
<1> QED BY <1>2, <1>6 DEF AccessIInv

(* Another member in what a request has seen.                              *)
LEMMA MemberSeen ==
  ASSUME NEW r \in Access!Seen, NEW m
  PROVE  [r EXCEPT !.member = m] = [user |-> r.user, account |-> r.account, member |-> m]
BY DEF Access!Seen

(* A selection goes on with an active member.                              *)
LEMMA CashierFound ==
  ASSUME AccessIInv, Access!CallsAreTyped, NEW q \in Request, Access!SelectFind(q)
  PROVE  AccessIInv'
<1>1. /\ accessPc[q] = "find" /\ accessArg[q].op = "select" /\ accessArg[q] \in AccessCalls[q]
      /\ UNCHANGED <<account, person, selected, buckets>>
  BY DEF Access!SelectFind, AccessIInv, IsOnItsWay
<1> DEFINE m == accessArg[q].who
<1>2. m \in Member /\ accessSeen[q] \in Access!Seen
  BY <1>1 DEF Access!CallsAreTyped, AccessIInv, Access!TypeOK
<1>3. CASE Access!Finish(q, "bad")
  BY <1>1, <1>3, RequestFinishes DEF AccessIInv, Access!TypeOK, Access!Answer
<1>4. CASE /\ accessSeen' = [accessSeen EXCEPT ![q].member = m]
           /\ Access!Go(q, IF Access!RequiresPin(q, m) THEN "key" ELSE "append")
  <2> DEFINE s == [user |-> accessSeen[q].user, account |-> accessSeen[q].account, member |-> m]
             label == IF Access!RequiresPin(q, m) THEN "key" ELSE "append"
  <2>1. accessSeen' = [accessSeen EXCEPT ![q] = s]
    BY <1>2, <1>4, MemberSeen
  <2>2. s \in Access!Seen /\ label \in Access!Label
    BY <1>2 DEF Access!Seen, Access!Label
  <2>3. accessPc'[q] = label /\ accessArg'[q] = accessArg[q] => IsOnItsWay(q)'
    BY <1>1 DEF IsOnItsWay
  <2> HIDE DEF s, label
  <2>4. Access!Go(q, label)
    BY <1>4 DEF label
  <2> QED BY <1>1, <2>1, <2>2, <2>3, <2>4, RequestGoes DEF AccessIInv
<1> QED BY <1>3, <1>4 DEF Access!SelectFind

(* A wrong secret is counted, a right one clears the bucket.               *)
LEMMA SecretVerified ==
  ASSUME AccessIInv, Access!CallsAreTyped, NEW q \in Request, Access!Verified(q)
  PROVE  AccessIInv'
<1>1. /\ accessPc[q] = "verify" /\ UNCHANGED <<account, person, selected>>
      /\ accessArg[q] \in AccessCalls[q] /\ accessArg[q] \in Access!Call /\ accessArg[q].op # "clear"
      /\ accessSeen[q].account # {} => accessSeen[q].user # {}
  BY DEF Access!Verified, AccessIInv, IsOnItsWay, Access!TypeOK
<1>2. Access!KeyOf(q) \in Access!Key
  BY <1>1, KeysAreKeys
<1>3. CASE buckets' = Access!Failed(buckets, Access!KeyOf(q)) /\ Access!Finish(q, "unauthorized")
  <2>1. IsThrottle(buckets')
    BY <1>2, <1>3, FailureIsSound DEF AccessIInv
  <2> QED BY <1>1, <1>3, <2>1, RequestFinishes DEF AccessIInv, Access!TypeOK, Access!Answer, IsThrottle
<1>4. CASE /\ Access!Matches(q) /\ buckets' = Access!ResetBucket(q) /\ UNCHANGED accessSeen
           /\ Access!Go(q, IF accessArg[q].op = "select" THEN "append" ELSE "default")
  <2> DEFINE label == IF accessArg[q].op = "select" THEN "append" ELSE "default"
  <2>1. IsThrottle(buckets')
    BY <1>4, ResetIsSound DEF Access!ResetBucket, AccessIInv
  <2>2. accessSeen[q].user # {}
    BY <1>1, <1>4 DEF Access!Matches
  <2>3. accessSeen[q] \in Access!Seen /\ accessSeen' = [accessSeen EXCEPT ![q] = accessSeen[q]]
    BY <1>4 DEF AccessIInv, Access!TypeOK
  <2>4. label \in Access!Label
    BY DEF Access!Label
  <2>5. accessPc'[q] = label /\ accessSeen'[q] = accessSeen[q] /\ accessArg'[q] = accessArg[q] => IsOnItsWay(q)'
    BY <1>1, <2>2 DEF IsOnItsWay, Access!Call, Access!Op
  <2> HIDE DEF label
  <2>6. Access!Go(q, label)
    BY <1>4 DEF label
  <2> QED BY <1>1, <2>1, <2>3, <2>4, <2>5, <2>6, RequestGoes
<1> QED BY <1>1, <1>3, <1>4 DEF Access!Verified

(* The default cashier is a member the account is linked to.               *)
LEMMA DefaultFound ==
  ASSUME AccessIInv, Access!CallsAreTyped, NEW q \in Request, Access!SignInDefault(q)
  PROVE  AccessIInv'
<1>1. /\ accessPc[q] = "default" /\ UNCHANGED <<account, person, selected, buckets>> /\ Access!Go(q, "append")
      /\ accessArg[q] \in AccessCalls[q] /\ accessArg[q].op \in {"password", "pin"} /\ accessSeen[q].user # {}
      /\ accessSeen[q] \in Access!Seen
  BY DEF Access!SignInDefault, AccessIInv, IsOnItsWay, Access!TypeOK
<1> DEFINE m == IF Access!Linked(q) = {} THEN Access!None ELSE CHOOSE n \in Access!Linked(q) : TRUE
           s == [user |-> accessSeen[q].user, account |-> accessSeen[q].account, member |-> m]
<1>2. m \in {Access!None} \cup UNION {Access!LinkedTo(u) : u \in accessSeen[q].user}
  <2>1. Access!Linked(q) \subseteq UNION {Access!LinkedTo(u) : u \in accessSeen[q].user}
    BY DEF Access!Linked, Access!ActiveOf
  <2> QED BY <2>1
<1>3. accessSeen' = [accessSeen EXCEPT ![q].member = m]
  BY DEF Access!SignInDefault
<1>4. UNION {Access!LinkedTo(u) : u \in accessSeen[q].user} \subseteq Member
  BY DEF Access!LinkedTo
<1> HIDE DEF m
<1>5. accessSeen' = [accessSeen EXCEPT ![q] = s]
  BY <1>1, <1>3, MemberSeen DEF s
<1>6. s \in Access!Seen /\ "append" \in Access!Label
  BY <1>1, <1>2, <1>4 DEF Access!Seen, Access!Label
<1>7. accessPc'[q] = "append" /\ accessSeen'[q] = s /\ accessArg'[q] = accessArg[q] => IsOnItsWay(q)'
  <2>1. UNION {Access!LinkedTo(u) : u \in accessSeen[q].user} =
          UNION {Access!LinkedTo(u)' : u \in accessSeen[q].user}
    BY <1>1 DEF Access!LinkedTo
  <2> QED BY <1>1, <1>2, <2>1 DEF IsOnItsWay
<1> HIDE DEF s
<1> QED BY <1>1, <1>5, <1>6, <1>7, RequestGoes DEF AccessIInv

(* A selection is made by the account that signed in, or by the session.   *)
LEMMA SelectionAppended ==
  ASSUME AccessIInv, Access!CallsAreTyped, NEW q \in Request, Access!AppendSelection(q)
  PROVE  AccessIInv'
<1>1. /\ accessPc[q] = "append" /\ UNCHANGED <<account, person, buckets>>
      /\ selected' = Access!Appended(q) /\ Access!Finish(q, Access!AnswerOf(q))
  BY DEF Access!AppendSelection
<1>2. /\ accessArg[q] \in AccessCalls[q] /\ accessArg[q] \in Access!Call /\ accessSeen[q] \in Access!Seen
      /\ accessArg[q].op \in {"password", "pin"} => accessSeen[q].user # {}
  BY <1>1 DEF AccessIInv, IsOnItsWay, Access!TypeOK
<1>3. Access!SelectedBy(q) \in StaffUser
  <2>1. CASE accessArg[q].op \in {"password", "pin"}
    <3>1. (CHOOSE u \in accessSeen[q].user : TRUE) \in StaffUser
      BY <1>2, <2>1 DEF Access!Seen
    <3> QED BY <2>1, <3>1 DEF Access!SelectedBy
  <2>2. CASE accessArg[q].op \notin {"password", "pin"}
    BY <1>2, <2>2 DEF Access!SelectedBy, Access!CallsAreTyped, Access!Call, Access!Op
  <2> QED BY <2>1, <2>2
<1>4. Access!SelectionOf(q) \subseteq Access!Selection
  BY <1>2, <1>3 DEF Access!SelectionOf, Access!Selection, Access!Seen
<1>5. selected' \in [Device -> SUBSET Access!Selection]
  BY <1>1, <1>4 DEF Access!Appended, AccessIInv, Access!TypeOK
<1>6. Access!AnswerOf(q) \in Access!Answer
  BY DEF Access!AnswerOf, Access!Answer
<1> QED BY <1>1, <1>5, <1>6, RequestFinishes DEF AccessIInv, Access!TypeOK

(* The first accounts and links are sound.                                 *)
LEMMA AccessStarts ==
  ASSUME AccessAssumption, AccessInit
  PROVE  AccessIInv
<1>1. PICK f \in FirstAccess : Access!InitWith(f.accounts, f.members)
  BY DEF AccessInit
<1>2. Access!StartsTyped(f.accounts, f.members) /\ Access!CallsAreTyped
  BY DEF AccessAssumption
<1>3. Access!NoArg \in Access!Call
  <2>1. (CHOOSE s \in Secret : TRUE) \in Secret /\ (CHOOSE d \in Device : TRUE) \in Device
    BY <1>2 DEF Access!CallsAreTyped
  <2> QED BY <2>1 DEF Access!NoArg, Access!Call, Access!Op
<1>4. Access!Nothing \in Access!Seen
  BY DEF Access!Nothing, Access!Seen
<1>5. Access!TypeOK
  BY <1>1, <1>2, <1>3, <1>4 DEF Access!InitWith, Access!StartsTyped, Access!TypeOK, Access!Label, Access!Answer
<1>6. \A q \in Request : IsOnItsWay(q)
  BY <1>1 DEF Access!InitWith, IsOnItsWay
<1>7. IsThrottle(buckets)
  <2>1. buckets = [k \in Access!Key |-> {}] /\ MaxBuckets \in Nat
    BY <1>1, <1>2 DEF Access!InitWith, Access!CallsAreTyped
  <2>2. Access!Entered(buckets) = {}
    BY <2>1 DEF Access!Entered
  <2> QED BY <2>1, <2>2, FS_EmptySet DEF IsThrottle, IsOrdered
<1> QED BY <1>5, <1>6, <1>7 DEF AccessIInv

(* Administrators link a member at most once, and never unlink it.         *)
LEMMA LinksOnlyGrow ==
  ASSUME NEW u, \A m \in Member : person[m].user \subseteq person'[m].user
  PROVE  Access!LinkedTo(u) \subseteq Access!LinkedTo(u)'
BY DEF Access!LinkedTo

(* Administrators change rows under requests that have read them.          *)
LEMMA RosterChanges ==
  ASSUME AccessIInv, Access!CallsAreTyped, UNCHANGED <<selected, buckets, accessPc, accessArg, accessSeen, answer>>,
         account' \in [StaffUser -> Access!Account], person' \in [Member -> Access!Row],
         \A m \in Member : person[m].user \subseteq person'[m].user
  PROVE  AccessIInv'
<1>1. Access!TypeOK' /\ IsThrottle(buckets)'
  BY DEF AccessIInv, Access!TypeOK, IsThrottle, IsOrdered, IsSoundBucket, Access!Entered
<1>2. ASSUME NEW q \in Request
      PROVE  IsOnItsWay(q)'
  <2>1. IsOnItsWay(q)
    BY DEF AccessIInv
  <2>2. UNION {Access!LinkedTo(u) : u \in accessSeen[q].user} \subseteq
          UNION {Access!LinkedTo(u)' : u \in accessSeen[q].user}
    BY LinksOnlyGrow
  <2> QED BY <2>1, <2>2 DEF IsOnItsWay
<1> QED BY <1>1, <1>2 DEF AccessIInv

(* Every step keeps it.                                                    *)
LEMMA AccessKeeps ==
  ASSUME AccessIInv, Access!CallsAreTyped, [Access!Next]_(Access!vars)
  PROVE  AccessIInv'
<1>1. ASSUME NEW q \in Request, NEW c \in AccessCalls[q], Access!Begin(q, c)
      PROVE  AccessIInv'
  BY <1>1, AccessBegins
<1>2. ASSUME NEW q \in Request, Access!SignInFind(q)
      PROVE  AccessIInv'
  <2>1. /\ accessPc[q] = "find" /\ accessArg[q].op \in {"password", "pin"}
        /\ accessArg[q] \in AccessCalls[q]
        /\ Access!Admit(q, {accessArg[q].who} \cap StaffUser) /\ UNCHANGED <<account, person, selected>>
    BY <1>2 DEF Access!SignInFind, AccessIInv, IsOnItsWay
  <2>2. {accessArg[q].who} \cap StaffUser \in SUBSET StaffUser
    OBVIOUS
  <2> QED BY <2>1, <2>2, AttemptIsAdmitted
<1>3. ASSUME NEW q \in Request, Access!SelectFind(q)
      PROVE  AccessIInv'
  BY <1>3, CashierFound
<1>4. ASSUME NEW q \in Request, Access!AuthorizeFind(q)
      PROVE  AccessIInv'
  <2>1. /\ accessPc[q] = "key" /\ accessArg[q].op = "select" /\ accessArg[q] \in AccessCalls[q]
        /\ Access!Admit(q, person[accessArg[q].who].user) /\ UNCHANGED <<account, person, selected>>
    BY <1>4 DEF Access!AuthorizeFind, AccessIInv, IsOnItsWay
  <2>2. accessArg[q].who \in Member
    BY <2>1 DEF Access!CallsAreTyped
  <2>3. person[accessArg[q].who] \in Access!Row
    BY <2>2 DEF AccessIInv, Access!TypeOK
  <2>4. person[accessArg[q].who].user \in SUBSET StaffUser
    BY <2>3 DEF Access!Row
  <2> QED BY <2>1, <2>4, AttemptIsAdmitted
<1>5. ASSUME NEW q \in Request, Access!Verified(q)
      PROVE  AccessIInv'
  BY <1>5, SecretVerified
<1>6. ASSUME NEW q \in Request, Access!SignInDefault(q)
      PROVE  AccessIInv'
  BY <1>6, DefaultFound
<1>7. ASSUME NEW q \in Request, Access!SignInUndefaulted(q)
      PROVE  AccessIInv'
  <2>1. Access!Finish(q, "session") /\ UNCHANGED <<account, person, selected, buckets>>
    BY <1>7 DEF Access!SignInUndefaulted
  <2> QED BY <2>1, RequestFinishes DEF AccessIInv, Access!TypeOK, Access!Answer
<1>8. ASSUME NEW q \in Request, Access!AppendSelection(q)
      PROVE  AccessIInv'
  BY <1>8, SelectionAppended
<1>9. ASSUME NEW r \in Rotation, Access!Rotate(r[1], r[2])
      PROVE  AccessIInv'
  <2>1. account \in [StaffUser -> Access!Account] /\ r[1] \in StaffUser /\ r[2] \in Secret
    BY DEF AccessIInv, Access!TypeOK, Access!CallsAreTyped
  <2>2. account' \in [StaffUser -> Access!Account]
    <3>1. \/ account' = [account EXCEPT ![r[1]].password = r[2]]
          \/ account' = [account EXCEPT ![r[1]].pin = {r[2]}]
      BY <1>9 DEF Access!Rotate
    <3>2. \A a \in Access!Account, s \in Secret :
            [a EXCEPT !.password = s] \in Access!Account /\ [a EXCEPT !.pin = {s}] \in Access!Account
      BY DEF Access!Account
    <3>3. account[r[1]] \in Access!Account
      BY <2>1
    <3> QED BY <2>1, <3>1, <3>2, <3>3
  <2>3. UNCHANGED <<person, selected, buckets, accessPc, accessArg, accessSeen, answer>>
    BY <1>9 DEF Access!Rotate
  <2> QED BY <2>2, <2>3, RosterChanges DEF AccessIInv, Access!TypeOK
<1>10. ASSUME NEW m \in Toggled, Access!SetActive(m)
       PROVE  AccessIInv'
  <2>1. person \in [Member -> Access!Row]
    BY DEF AccessIInv, Access!TypeOK
  <2>2. /\ person' = [person EXCEPT ![m].active = ~@]
        /\ UNCHANGED <<account, selected, buckets, accessPc, accessArg, accessSeen, answer>>
    BY <1>10 DEF Access!SetActive
  <2>3. \A r \in Access!Row : [r EXCEPT !.active = ~@] \in Access!Row /\ [r EXCEPT !.active = ~@].user = r.user
    BY DEF Access!Row
  <2>4. person' \in [Member -> Access!Row] /\ \A n \in Member : person[n].user = person'[n].user
    BY <2>1, <2>2, <2>3
  <2> QED BY <2>2, <2>4, RosterChanges DEF AccessIInv, Access!TypeOK
<1>11. ASSUME NEW m \in Member, NEW u \in StaffUser, Access!Link(m, u)
       PROVE  AccessIInv'
  <2>1. person \in [Member -> Access!Row]
    BY DEF AccessIInv, Access!TypeOK
  <2>2. /\ person' = [person EXCEPT ![m].user = {u}] /\ person[m].user = {}
        /\ UNCHANGED <<account, selected, buckets, accessPc, accessArg, accessSeen, answer>>
    BY <1>11 DEF Access!Link
  <2>3. \A r \in Access!Row : [r EXCEPT !.user = {u}] \in Access!Row
    BY DEF Access!Row
  <2>4. person' \in [Member -> Access!Row] /\ \A n \in Member : person[n].user \subseteq person'[n].user
    BY <2>1, <2>2, <2>3
  <2> QED BY <2>2, <2>4, RosterChanges DEF AccessIInv, Access!TypeOK
<1>12. ASSUME Access!Tick
       PROVE  AccessIInv'
  <2>1. IsThrottle(buckets')
    BY <1>12, TickIsSound DEF Access!Tick, AccessIInv
  <2>2. UNCHANGED <<account, person, selected, accessPc, accessArg, accessSeen, answer>>
    BY <1>12 DEF Access!Tick
  <2>3. Access!TypeOK'
    BY <2>1, <2>2 DEF IsThrottle, AccessIInv, Access!TypeOK
  <2>4. \A q \in Request : IsOnItsWay(q)'
    BY <2>2 DEF AccessIInv, IsOnItsWay, Access!LinkedTo
  <2> QED BY <2>1, <2>3, <2>4 DEF AccessIInv
<1>13. ASSUME NEW q \in Request, Access!Again(q)
       PROVE  AccessIInv'
  <2>1. /\ accessPc[q] = "done" /\ accessPc' = [accessPc EXCEPT ![q] = "idle"]
        /\ answer' = [answer EXCEPT ![q] = Access!None]
        /\ UNCHANGED <<account, person, selected, buckets, accessArg, accessSeen>>
    BY <1>13 DEF Access!Again
  <2>2. Access!TypeOK'
    BY <2>1 DEF AccessIInv, Access!TypeOK, Access!Label, Access!Answer
  <2>3. \A p \in Request : IsOnItsWay(p)'
    <3>1. accessPc'[q] = "idle" /\ \A p \in Request \ {q} : accessPc'[p] = accessPc[p]
      BY <2>1 DEF AccessIInv, Access!TypeOK
    <3>2. IsOnItsWay(q)'
      BY <3>1 DEF IsOnItsWay
    <3>3. \A p \in Request : IsOnItsWay(p)
      BY DEF AccessIInv
    <3> QED BY <2>1, <3>1, <3>2, <3>3, OneRequestMoves
  <2> QED BY <2>1, <2>2, <2>3 DEF AccessIInv
<1>14. CASE UNCHANGED Access!vars
  <2>1. UNCHANGED <<account, person, selected, buckets, accessPc, accessArg, accessSeen, answer>>
    BY <1>14 DEF Access!vars
  <2> QED BY <2>1, RosterChanges DEF AccessIInv, Access!TypeOK
<1> QED BY <1>1, <1>2, <1>3, <1>4, <1>5, <1>6, <1>7, <1>8, <1>9, <1>10, <1>11, <1>12, <1>13, <1>14
        DEF Access!Next, Access!Step

(* What the invariant says of the throttle.                                *)
LEMMA ThrottleHolds ==
  ASSUME AccessIInv, Access!CallsAreTyped
  PROVE  Access!AccessInv
<1>1. ASSUME NEW k \in Access!Key, NEW b \in buckets[k]
      PROVE  /\ b.failures <= MaxFailures
             /\ b.expires > 0 => (b.blocked > 0 <=> b.failures = MaxFailures)
  <2>1. b \in Access!Bucket /\ IsSoundBucket(b)
    BY DEF AccessIInv, IsThrottle
  <2> QED BY <2>1 DEF IsSoundBucket, Access!Bucket
<1>2. Access!RoomIsKept
  BY SameCardinality DEF AccessIInv, IsThrottle, Access!RoomIsKept
<1> QED BY <1>1, <1>2 DEF Access!AccessInv, Access!CountsStopAtTheLimit, AccessIInv

(* The member that a sign-in appends is one that its account is linked to. *)
LEMMA SignInNames ==
  ASSUME AccessIInv, Access!CallsAreTyped, NEW q \in Request, NEW d \in Device,
         accessPc[q] = "append", Access!AppendSelection(q), accessArg[q].op \in {"password", "pin"},
         d = accessArg[q].device
  PROVE  Access!ActiveCashier(d)' \subseteq UNION {Access!LinkedTo(u) : u \in accessSeen[q].user}
<1>1. selected' = [selected EXCEPT ![d] = {[member |-> accessSeen[q].member, by |-> Access!SelectedBy(q)]}]
  BY DEF Access!AppendSelection, Access!Appended, Access!SelectionOf
<1>2. selected'[d] = {[member |-> accessSeen[q].member, by |-> Access!SelectedBy(q)]}
  BY <1>1 DEF AccessIInv, Access!TypeOK
<1>3. accessSeen[q].member \in {Access!None} \cup UNION {Access!LinkedTo(u) : u \in accessSeen[q].user}
  BY DEF AccessIInv, IsOnItsWay
<1>4. Access!None \notin Member
  BY DEF Access!CallsAreTyped
<1>5. Access!ActiveCashier(d)' \subseteq {accessSeen[q].member} \cap Member
  BY <1>2 DEF Access!ActiveCashier, Access!ActiveOf
<1> QED BY <1>3, <1>4, <1>5

(* So it always holds.                                                     *)
LEMMA AccessStays == RecordsSpec => []AccessIInv
<1>1. RecordsInit => AccessIInv
  BY AccessStarts, AccessAssumption DEF RecordsInit
<1>2. AccessIInv /\ [RecordsNext]_records => AccessIInv'
  BY EachPartSteps, AccessKeeps, AccessAssumption DEF AccessAssumption
<1> QED BY <1>1, <1>2, PTL DEF RecordsSpec

-----------------------------------------------------------------------------
(* The catalog, for any requests, sizes, categories and forms.             *)

(* The catalog's invariant with the shapes of the rows and of what the     *)
(* requests hold between their check and their write.                      *)
CatalogShape ==
  /\ sizes \in [Size -> Catalog!SizeRow] /\ sold \subseteq Size
  /\ IsFunctionOn(categories, Category)
  /\ IsFunctionOn(catalogPc, Request) /\ IsFunctionOn(catalogArg, Request)
  /\ \A q \in Request : catalogPc[q] \in {"check", "write"} => catalogArg[q] \in CatalogCalls[q]

CatalogIInv == CatalogShape /\ Catalog!CatalogInv

(* A row with a place is a row.                                            *)
LEMMA PlacedIsNotAbsent ==
  ASSUME NEW r \in Catalog!SizeRow, r.weight # 0
  PROVE  r # Catalog!Absent
<1>1. Catalog!Absent.weight = 0
  BY DEF Catalog!Absent
<1> QED BY <1>1

(* A form's row: a place is ten times a position, which is not zero.       *)
LEMMA RowOfForm ==
  ASSUME NEW ss \in Seq(Catalog!SizeInput), NEW k \in DOMAIN ss
  PROVE  Catalog!Row(ss[k], k * 10) \in Catalog!SizeRow /\ Catalog!Row(ss[k], k * 10) # Catalog!Absent
<1>1. ss[k] \in Catalog!SizeInput /\ k \in Nat /\ k # 0
  OBVIOUS
<1> DEFINE w == k * 10
<1>2. w \in Int /\ w # 0
  BY <1>1
<1>3. ss[k].name \in Name /\ ss[k].spelling \in Spelling
  BY <1>1 DEF Catalog!SizeInput
<1> HIDE DEF w
<1>4. Catalog!Row(ss[k], w) \in Catalog!SizeRow /\ Catalog!Row(ss[k], w).weight = w
  BY <1>2, <1>3 DEF Catalog!Row, Catalog!SizeRow
<1>5. Catalog!Row(ss[k], w) # Catalog!Absent
  BY <1>2, <1>4, PlacedIsNotAbsent
<1> QED BY <1>4, <1>5 DEF w

(* updateProduct rewrites the sizes its form supplies, adds new ones, and  *)
(* leaves the rest: no size goes.                                          *)
LEMMA UpdateEffect ==
  ASSUME sizes \in [Size -> Catalog!SizeRow], NEW ss \in Seq(Catalog!SizeInput), NEW ids \in [DOMAIN ss -> Size],
         \A k \in DOMAIN ss : IF ss[k].id = {} THEN ids[k] \notin Catalog!Sizes ELSE ids[k] \in ss[k].id
  PROVE  /\ Catalog!Updated(ss, ids) \in [Size -> Catalog!SizeRow]
         /\ Catalog!Sizes \subseteq Catalog!Existing(Catalog!Updated(ss, ids), Catalog!Absent)
         /\ \A s \in Catalog!Sizes \ Catalog!Supplied(ss) : Catalog!Updated(ss, ids)[s] = sizes[s]
<1>1. ASSUME NEW i \in Size
      PROVE  /\ Catalog!Updated(ss, ids)[i] \in Catalog!SizeRow
             /\ i \in Catalog!Sizes => Catalog!Updated(ss, ids)[i] # Catalog!Absent
             /\ i \in Catalog!Sizes \ Catalog!Supplied(ss) => Catalog!Updated(ss, ids)[i] = sizes[i]
  <2>1. CASE \E k \in DOMAIN ss : ids[k] = i
    <3> DEFINE c == CHOOSE k \in DOMAIN ss : ids[k] = i
    <3>1. c \in DOMAIN ss /\ ids[c] = i
      BY <2>1
    <3>2. Catalog!Updated(ss, ids)[i] = Catalog!Row(ss[c], c * 10)
      BY <2>1 DEF Catalog!Updated
    <3> HIDE DEF c
    <3>3. i \in Catalog!Sizes => i \in Catalog!Supplied(ss)
      <4> SUFFICES ASSUME i \in Catalog!Sizes PROVE i \in Catalog!Supplied(ss)
        OBVIOUS
      <4>1. i \in ss[c].id
        BY <3>1
      <4>2. ss[c] \in Catalog!ToSet(ss)
        BY <3>1 DEF Catalog!ToSet
      <4> QED BY <4>1, <4>2 DEF Catalog!Supplied
    <3> QED BY <3>1, <3>2, <3>3, RowOfForm
  <2>2. CASE ~\E k \in DOMAIN ss : ids[k] = i
    <3>1. Catalog!Updated(ss, ids)[i] = sizes[i]
      BY <2>2 DEF Catalog!Updated
    <3> QED BY <3>1 DEF Catalog!Sizes, Catalog!Existing
  <2> QED BY <2>1, <2>2
<1>2. Catalog!Updated(ss, ids) = [i \in Size |-> Catalog!Updated(ss, ids)[i]]
  BY DEF Catalog!Updated
<1>3. Catalog!Sizes \subseteq Size
  BY DEF Catalog!Sizes, Catalog!Existing
<1> QED BY <1>1, <1>2, <1>3 DEF Catalog!Existing

(* A step of a request that leaves the rows alone.                         *)
LEMMA ShapeRest ==
  ASSUME CatalogShape, NEW q \in Request, catalogPc[q] \in {"check", "write"}, Catalog!Finish(q)
  PROVE  /\ IsFunctionOn(catalogPc', Request) /\ IsFunctionOn(catalogArg', Request)
         /\ \A r \in Request : catalogPc'[r] \in {"check", "write"} => catalogArg'[r] \in CatalogCalls[r]
BY DEF CatalogShape, IsFunctionOn, Catalog!Finish

(* reorderSizes changes weights: a size has its name and its spelling, and *)
(* none goes.                                                              *)
LEMMA ReorderEffect ==
  ASSUME Catalog!FormsAreTyped, CatalogIInv, NEW q \in Request, Catalog!ReorderSizes(q)
  PROVE  /\ sizes' \in [Size -> Catalog!SizeRow] /\ Catalog!Sizes' = Catalog!Sizes
         /\ \A i \in Size : sizes'[i].name = sizes[i].name /\ sizes'[i].spelling = sizes[i].spelling
<1> DEFINE chosen == catalogArg[q].order
           place(i) == CHOOSE k \in DOMAIN chosen : chosen[k] = i
<1>1. chosen \in Seq(Size)
  BY DEF Catalog!FormsAreTyped, CatalogIInv, CatalogShape, Catalog!ReorderSizes
<1>2. CASE ~(Catalog!ToSet(chosen) \subseteq Catalog!Sizes)
  BY <1>2 DEF Catalog!ReorderSizes, CatalogIInv, CatalogShape, Catalog!Sizes
<1>3. CASE Catalog!ToSet(chosen) \subseteq Catalog!Sizes
  <2> HIDE DEF place
  <2>1. ASSUME NEW i \in Catalog!ToSet(chosen)
        PROVE  /\ i \in Catalog!Sizes /\ place(i) \in Nat /\ place(i) # 0
    <3>1. \E k \in DOMAIN chosen : chosen[k] = i
      BY <2>1 DEF Catalog!ToSet
    <3>2. place(i) \in DOMAIN chosen
      BY <3>1 DEF place
    <3> QED BY <1>1, <1>3, <2>1, <3>2
  <2>2. sizes' = [i \in Size |-> IF i \in Catalog!ToSet(chosen)
                                 THEN [sizes[i] EXCEPT !.weight = 10 * place(i)] ELSE sizes[i]]
    BY <1>3 DEF Catalog!ReorderSizes, place
  <2>3. ASSUME NEW i \in Size
        PROVE  /\ sizes'[i] \in Catalog!SizeRow
               /\ sizes'[i].name = sizes[i].name /\ sizes'[i].spelling = sizes[i].spelling
               /\ sizes'[i] # Catalog!Absent <=> sizes[i] # Catalog!Absent
    <3>1. sizes[i] \in Catalog!SizeRow
      BY DEF CatalogIInv, CatalogShape
    <3>2. CASE i \in Catalog!ToSet(chosen)
      <4> DEFINE w == 10 * place(i)
      <4>1. w \in Int /\ w # 0
        BY <2>1, <3>2
      <4>2. sizes'[i] = [sizes[i] EXCEPT !.weight = w]
        BY <2>2, <3>2
      <4> HIDE DEF w
      <4>3. /\ sizes'[i] \in Catalog!SizeRow /\ sizes'[i].weight = w
            /\ sizes'[i].name = sizes[i].name /\ sizes'[i].spelling = sizes[i].spelling
        BY <3>1, <4>1, <4>2 DEF Catalog!SizeRow
      <4>4. sizes[i] # Catalog!Absent
        BY <2>1, <3>2 DEF Catalog!Sizes, Catalog!Existing
      <4> QED BY <4>1, <4>3, <4>4, PlacedIsNotAbsent
    <3>3. CASE i \notin Catalog!ToSet(chosen)
      BY <2>2, <3>1, <3>3
    <3> QED BY <3>2, <3>3
  <2>4. sizes' \in [Size -> Catalog!SizeRow]
    BY <2>2, <2>3
  <2> QED BY <2>3, <2>4 DEF Catalog!Sizes, Catalog!Existing, CatalogIInv, CatalogShape
<1> QED BY <1>2, <1>3

(* Every step of a request or an order keeps the invariant.                *)
LEMMA CatalogFormStep ==
  ASSUME Catalog!FormsAreTyped, CatalogIInv, [Catalog!Next]_(Catalog!vars)
  PROVE  CatalogIInv'
<1>0. /\ CatalogShape /\ sold \subseteq Catalog!Sizes
      /\ Catalog!SpellingsAreDistinct /\ Catalog!CategoryNamesAreDistinct
      /\ sizes \in [Size -> Catalog!SizeRow]
  BY DEF CatalogIInv, Catalog!CatalogInv, Catalog!SoldSizesAreKept, CatalogShape
<1>1. CASE UNCHANGED Catalog!vars
  BY <1>1 DEF Catalog!vars, CatalogIInv, CatalogShape, IsFunctionOn, Catalog!CatalogInv, Catalog!SoldSizesAreKept,
       Catalog!SpellingsAreDistinct,
     Catalog!CategoryNamesAreDistinct, Catalog!Sizes, Catalog!Existing
<1>2. ASSUME UNCHANGED <<sizes, sold, categories>>
      PROVE  Catalog!CatalogInv'
  BY <1>2 DEF CatalogIInv, Catalog!CatalogInv, Catalog!SoldSizesAreKept, Catalog!SpellingsAreDistinct,
       Catalog!CategoryNamesAreDistinct,
     Catalog!Sizes, Catalog!Existing
<1>3. ASSUME NEW q \in Request, NEW c \in CatalogCalls[q], Catalog!Begin(q, c)
      PROVE  CatalogIInv'
  <2>1. CatalogShape'
    BY <1>0, <1>3 DEF Catalog!Begin, Catalog!Rows, CatalogShape, IsFunctionOn
  <2> QED BY <1>2, <1>3, <2>1 DEF CatalogIInv, Catalog!Begin, Catalog!Rows
<1>4. ASSUME NEW q \in Request, Catalog!Check(q)
      PROVE  CatalogIInv'
  <2>1. CatalogShape'
    BY <1>0, <1>4 DEF Catalog!Check, Catalog!Finish, Catalog!Rows, CatalogShape, IsFunctionOn
  <2> QED BY <1>2, <1>4, <2>1 DEF CatalogIInv, Catalog!Check, Catalog!Rows
<1>5. ASSUME NEW q \in Request, catalogPc[q] = "write", Catalog!Finish(q), UNCHANGED <<sold, categories>>,
             sizes' \in [Size -> Catalog!SizeRow], sold \subseteq Catalog!Sizes', Catalog!SpellingsAreDistinct'
      PROVE  CatalogIInv'
  <2>1. CatalogShape'
    BY <1>0, <1>5, ShapeRest DEF CatalogShape, IsFunctionOn
  <2>2. Catalog!SoldSizesAreKept' /\ Catalog!CategoryNamesAreDistinct'
    BY <1>0, <1>5 DEF Catalog!SoldSizesAreKept, Catalog!CategoryNamesAreDistinct, Catalog!Existing
  <2> QED BY <1>5, <2>1, <2>2 DEF CatalogIInv, Catalog!CatalogInv
<1>6. ASSUME NEW q \in Request, Catalog!UpdateProduct(q)
      PROVE  CatalogIInv'
  <2> DEFINE ss == catalogArg[q].sizes
  <2>1. catalogPc[q] = "write" /\ Catalog!Finish(q) /\ UNCHANGED <<sold, categories>>
    BY <1>6 DEF Catalog!UpdateProduct
  <2>2. CASE sizes' = sizes
    BY <1>0, <1>5, <2>1, <2>2 DEF Catalog!SpellingsAreDistinct, Catalog!Sizes, Catalog!Existing
  <2>3. CASE sizes' # sizes
    <3>1. PICK ids \in [DOMAIN ss -> Size] :
            /\ \A k \in DOMAIN ss : IF ss[k].id = {} THEN ids[k] \notin Catalog!Sizes ELSE ids[k] \in ss[k].id
            /\ sizes' = Catalog!Updated(ss, ids) /\ Catalog!FitsSizeIndex(Catalog!Updated(ss, ids), Catalog!Absent)
      BY <1>6, <2>3 DEF Catalog!UpdateProduct
    <3>2. ss \in Seq(Catalog!SizeInput)
      BY <1>0, <1>6 DEF Catalog!FormsAreTyped, CatalogShape, Catalog!UpdateProduct
    <3>3. sizes' \in [Size -> Catalog!SizeRow] /\ Catalog!Sizes \subseteq Catalog!Sizes'
      BY <1>0, <3>1, <3>2, UpdateEffect DEF Catalog!Sizes
    <3>4. Catalog!SpellingsAreDistinct'
      BY <3>1 DEF Catalog!SpellingsAreDistinct, Catalog!FitsSizeIndex, Catalog!Sizes
    <3> QED BY <1>0, <1>5, <2>1, <3>3, <3>4
  <2> QED BY <2>2, <2>3
<1>7. ASSUME NEW q \in Request, Catalog!RemoveSize(q)
      PROVE  CatalogIInv'
  <2> DEFINE s == catalogArg[q].size
  <2>1. catalogPc[q] = "write" /\ Catalog!Finish(q) /\ UNCHANGED <<sold, categories>>
    BY <1>7 DEF Catalog!RemoveSize
  <2>2. CASE sizes' = sizes
    BY <1>0, <1>5, <2>1, <2>2 DEF Catalog!SpellingsAreDistinct, Catalog!Sizes, Catalog!Existing
  <2>3. CASE sizes' # sizes
    <3>1. s \notin sold /\ sizes' = [sizes EXCEPT ![s] = Catalog!Absent]
      BY <1>7, <2>3 DEF Catalog!RemoveSize, Catalog!IsReferenced
    <3>2. Catalog!Absent \in Catalog!SizeRow
      BY DEF Catalog!Absent, Catalog!SizeRow
    <3>3. /\ sizes' \in [Size -> Catalog!SizeRow]
          /\ \A i \in Size : sizes'[i] = IF i = s THEN Catalog!Absent ELSE sizes[i]
      BY <1>0, <3>1, <3>2
    <3>4. Catalog!Sizes' = Catalog!Sizes \ {s}
      BY <1>0, <3>3 DEF Catalog!Sizes, Catalog!Existing
    <3>5. Catalog!Sizes \subseteq Size
      BY <1>0 DEF Catalog!Sizes, Catalog!Existing
    <3>6. Catalog!SpellingsAreDistinct'
      BY <1>0, <3>3, <3>4, <3>5 DEF Catalog!SpellingsAreDistinct
    <3> QED BY <1>0, <1>5, <2>1, <3>1, <3>3, <3>4, <3>6
  <2> QED BY <2>2, <2>3
<1>8. ASSUME NEW q \in Request, Catalog!ReorderSizes(q)
      PROVE  CatalogIInv'
  <2>1. catalogPc[q] = "write" /\ Catalog!Finish(q) /\ UNCHANGED <<sold, categories>>
    BY <1>8 DEF Catalog!ReorderSizes
  <2>2. /\ sizes' \in [Size -> Catalog!SizeRow] /\ Catalog!Sizes' = Catalog!Sizes /\ Catalog!Sizes \subseteq Size
        /\ \A i \in Size : sizes'[i].name = sizes[i].name /\ sizes'[i].spelling = sizes[i].spelling
    BY <1>0, <1>8, ReorderEffect DEF Catalog!Sizes, Catalog!Existing
  <2>3. Catalog!SpellingsAreDistinct'
    BY <1>0, <2>2 DEF Catalog!SpellingsAreDistinct
  <2> QED BY <1>0, <1>5, <2>1, <2>2, <2>3
<1>9. ASSUME NEW q \in Request, Catalog!WriteCategory(q)
      PROVE  CatalogIInv'
  <2>1. catalogPc[q] = "write" /\ Catalog!Finish(q) /\ UNCHANGED <<sizes, sold>>
    BY <1>9 DEF Catalog!WriteCategory
  <2>2. IsFunctionOn(categories', Category) /\ Catalog!CategoryNamesAreDistinct'
    <3>1. CASE categories' = categories
      BY <1>0, <3>1 DEF CatalogShape, IsFunctionOn, Catalog!CategoryNamesAreDistinct, Catalog!Existing
    <3>2. CASE categories' # categories
      BY <1>0, <1>9, <3>2 DEF Catalog!WriteCategory, Catalog!FitsNameIndex, Catalog!CategoryNamesAreDistinct,
           CatalogShape, IsFunctionOn
    <3> QED BY <3>1, <3>2
  <2>3. CatalogShape'
    BY <1>0, <2>1, <2>2, ShapeRest DEF CatalogShape
  <2>4. Catalog!SoldSizesAreKept' /\ Catalog!SpellingsAreDistinct'
    BY <1>0, <2>1 DEF Catalog!SoldSizesAreKept, Catalog!SpellingsAreDistinct, Catalog!Sizes, Catalog!Existing
  <2> QED BY <2>2, <2>3, <2>4 DEF CatalogIInv, Catalog!CatalogInv
<1>10. ASSUME NEW s \in Size, Catalog!Sell(s)
       PROVE  CatalogIInv'
  <2>1. CatalogShape'
    BY <1>0, <1>10 DEF Catalog!Sell, CatalogShape, IsFunctionOn
  <2>2. Catalog!CatalogInv'
    BY <1>0, <1>10 DEF Catalog!Sell, Catalog!CatalogInv, Catalog!SoldSizesAreKept, Catalog!SpellingsAreDistinct,
         Catalog!CategoryNamesAreDistinct,
       Catalog!Sizes, Catalog!Existing
  <2> QED BY <2>1, <2>2 DEF CatalogIInv
<1> QED BY <1>1, <1>3, <1>4, <1>6, <1>7, <1>8, <1>9, <1>10 DEF Catalog!Next, Catalog!Step

(* The inductive invariant holds: no form, removal or order can break it.  *)
LEMMA CatalogInvariant ==
  ASSUME Catalog!FormsAreTyped
  PROVE  Catalog!Spec => []CatalogIInv
<1>1. Catalog!Init => CatalogIInv
  <2> SUFFICES ASSUME Catalog!Init PROVE CatalogIInv
    OBVIOUS
  <2>1. CatalogShape
    BY DEF Catalog!Init, CatalogShape, IsFunctionOn, Catalog!FormsAreTyped
  <2>2. Catalog!SoldSizesAreKept /\ Catalog!SpellingsAreDistinct
    BY DEF Catalog!Init, Catalog!FormsAreTyped, Catalog!FitsSizeIndex, Catalog!SoldSizesAreKept,
         Catalog!SpellingsAreDistinct, Catalog!Sizes
  <2>3. Catalog!CategoryNamesAreDistinct
    BY DEF Catalog!Init, Catalog!CategoryNamesAreDistinct, Catalog!Existing
  <2> QED BY <2>1, <2>2, <2>3 DEF CatalogIInv, Catalog!CatalogInv
<1>2. CatalogIInv /\ [Catalog!Next]_(Catalog!vars) => CatalogIInv'
  BY CatalogFormStep
<1> QED BY <1>1, <1>2, PTL DEF Catalog!Spec

(* CatalogInv holds of any product and any forms: what is checked before   *)
(* it is written stays true where the foreign key or an index decides.     *)
THEOREM CatalogStaysConsistent ==
  ASSUME Catalog!FormsAreTyped
  PROVE  Catalog!Spec => []Catalog!CatalogInv
<1>1. CatalogIInv => Catalog!CatalogInv
  BY DEF CatalogIInv
<1> QED BY <1>1, CatalogInvariant, PTL

(* A form leaves alone every size it does not name, also one that another  *)
(* administrator added after the form was read.                            *)
THEOREM FormsLeaveOthers ==
  ASSUME Catalog!FormsAreTyped
  PROVE  Catalog!Spec => Catalog!OthersAreLeft
<1>1. ASSUME CatalogIInv, [Catalog!Next]_(Catalog!vars),
             NEW q \in Request, catalogPc[q] = "write", catalogPc'[q] = "done",
             catalogArg[q].op = "updateProduct", NEW s \in Catalog!Sizes \ Catalog!Supplied(catalogArg[q].sizes)
      PROVE  sizes'[s] = sizes[s]
  <2> DEFINE ss == catalogArg[q].sizes
  <2>1. Catalog!UpdateProduct(q)
    <3>1. ASSUME NEW r \in Request, Catalog!Finish(r) PROVE r = q
      BY <1>1, <3>1 DEF Catalog!Finish, CatalogIInv, CatalogShape, IsFunctionOn
    <3>2. ASSUME NEW r \in Request, NEW c \in CatalogCalls[r], Catalog!Begin(r, c) PROVE FALSE
      BY <1>1, <3>2 DEF Catalog!Begin, CatalogIInv, CatalogShape, IsFunctionOn
    <3>3. ASSUME NEW r \in Request, Catalog!Check(r) PROVE FALSE
      BY <1>1, <3>3 DEF Catalog!Check, Catalog!Finish, CatalogIInv, CatalogShape, IsFunctionOn
    <3>4. \A t \in Size : ~Catalog!Sell(t)
      BY <1>1 DEF Catalog!Sell
    <3>5. catalogPc' # catalogPc
      BY <1>1
    <3>6. PICK r \in Request : \/ Catalog!UpdateProduct(r) \/ Catalog!RemoveSize(r)
                               \/ Catalog!ReorderSizes(r) \/ Catalog!WriteCategory(r)
      BY <1>1, <3>2, <3>3, <3>4, <3>5 DEF Catalog!Next, Catalog!Step, Catalog!vars
    <3>7. r = q
      BY <3>1, <3>6 DEF Catalog!UpdateProduct, Catalog!RemoveSize, Catalog!ReorderSizes, Catalog!WriteCategory
    <3> QED BY <1>1, <3>6, <3>7 DEF Catalog!RemoveSize, Catalog!ReorderSizes, Catalog!WriteCategory
  <2>2. CASE sizes' # sizes
    <3>1. PICK ids \in [DOMAIN ss -> Size] :
            /\ \A k \in DOMAIN ss : IF ss[k].id = {} THEN ids[k] \notin Catalog!Sizes ELSE ids[k] \in ss[k].id
            /\ sizes' = Catalog!Updated(ss, ids)
      BY <2>1, <2>2 DEF Catalog!UpdateProduct
    <3>2. ss \in Seq(Catalog!SizeInput) /\ sizes \in [Size -> Catalog!SizeRow]
      BY <1>1 DEF Catalog!FormsAreTyped, CatalogIInv, CatalogShape
    <3> QED BY <1>1, <3>1, <3>2, UpdateEffect
  <2> QED BY <2>2
<1>2. CatalogIInv /\ [Catalog!Next]_(Catalog!vars) =>
        [\A q \in Request : catalogPc[q] = "write" /\ catalogPc'[q] = "done" /\ catalogArg[q].op = "updateProduct" =>
           \A s \in Catalog!Sizes \ Catalog!Supplied(catalogArg[q].sizes) : sizes'[s] = sizes[s]]_(Catalog!vars)
  BY <1>1
<1> QED BY <1>2, CatalogInvariant, PTL DEF Catalog!Spec, Catalog!OthersAreLeft

-----------------------------------------------------------------------------
(* Whatever the catalog and the orders do, an order charges each line      *)
(* the price that was in force when it was added, and its total is what    *)
(* its lines say.                                                          *)
THEOREM LinesOfTheShop == RecordsSpec => []LinesInv
<1>1. Lines!Spec => []Lines!LinesInv
  BY LineAssumption, Lines!ChargesAreRight
<1> QED BY <1>1, RunsLines, PTL DEF LinesInv

(* No later change of the catalog changes what a line was sold as.         *)
THEOREM SnapshotsOfTheShop == RecordsSpec => SnapshotsAreKept
<1>1. Lines!Spec => Lines!SnapshotsAreKept
  BY LineAssumption, Lines!SnapshotsStay
<1> QED BY <1>1, RunsLines, PTL DEF SnapshotsAreKept

(* However many requests count, correct and close: corrections form        *)
(* chains that never fork, and the sheet of a day shows the last count.    *)
THEOREM CountsOfTheShop == RecordsSpec => []CountsInv
<1>1. Counts!Spec => []Counts!CountsInv
  BY CountAssumption, Counts!CountsAgree
<1> QED BY <1>1, RunsCounts, PTL DEF CountsInv

(* Stock items refer to rows that are there, a reconciled item is          *)
(* counted, names stay distinct, and less stock is never less urgent.      *)
THEOREM ItemsOfTheShop == RecordsSpec => []ItemsInv
<1>1. RecordsInit => ItemIInv
  BY ItemsStart, ItemAssumption DEF RecordsInit
<1>2. ItemIInv /\ [RecordsNext]_records => ItemIInv'
  BY EachPartSteps, ItemAssumption, ItemsKeep
<1>3. ItemIInv => ItemsInv
  <2>1. ParQuantity \subseteq Nat
    BY ItemAssumption DEF ItemAssumption, Items!CallsAreTyped
  <2> QED BY <2>1, SoundParsRank DEF ItemIInv, ItemsInv, Items!ItemsInv
<1> QED BY <1>1, <1>2, <1>3, PTL DEF RecordsSpec

(* Users and staff members stay linked one to one, whatever requests       *)
(* read and write in between.                                              *)
THEOREM AccountsOfTheShop == RecordsSpec => []AccountsInv
<1>1. ASSUME NEW r \in FirstRoster
      PROVE  Accounts!SpecWith(r.users, r.members) => []Accounts!AccountsInv
  BY AccountAssumption, Accounts!AccountsStayLinked
<1> QED BY <1>1, RunsAccounts DEF AccountsInv

(* A ledger has at most one deposit for a day, and only for closed days,   *)
(* in whatever order requests check and write; and what it suggests        *)
(* grows with the gross.                                                   *)
THEOREM JournalOfTheShop == RecordsSpec => []JournalInv
<1>1. JournalIInv => JournalInv
  BY JournalAssumption, SuggestionsGrow DEF JournalAssumption, JournalIInv, JournalInv, Journal!JournalInv
<1> QED BY <1>1, JournalStays, PTL

(* A day without its deposit stays on the list of missing days until a     *)
(* deposit is recorded or the ledger starts later.                         *)
THEOREM MissingDaysOfTheShop == RecordsSpec => MissingUntilRecorded
<1>1. JournalIInv /\ [RecordsNext]_records =>
        [\A t \in Journal!MissingDays : t \notin Journal!MissingDays' =>
           t \in Journal!RecordedDates' \/ start' > start]_(Journal!vars)
  BY EachPartSteps, MissingDaysWait, JournalAssumption
<1> QED BY <1>1, JournalStays, PTL DEF RecordsSpec, MissingUntilRecorded, Journal!MissingUntilRecorded

(* A saved week is one version of one save, and can be saved again.        *)
THEOREM ScheduleOfTheShop == RecordsSpec => []ScheduleInv
<1>1. Schedule!Spec => []Schedule!ScheduleInv
  BY ScheduleAssumption, WeeksHoldTogether
<1> QED BY <1>1, RunsSchedule, PTL DEF ScheduleInv

(* A size that was sold stays, sizes of a product are spelled apart, and   *)
(* categories have distinct names, under any edits at once.                *)
THEOREM CatalogOfTheShop == RecordsSpec => []CatalogInv
<1>1. Catalog!Spec => []Catalog!CatalogInv
  BY CatalogAssumption, CatalogStaysConsistent
<1> QED BY <1>1, RunsCatalog, PTL DEF CatalogInv

(* An employment that ends has its reason, its type is in the history,     *)
(* and the labels of active fields are distinct.                           *)
THEOREM EmploymentOfTheShop == RecordsSpec => []EmploymentInv
<1>1. RecordsInit => EmploymentIInv
  BY EmploymentStarts DEF RecordsInit
<1>2. EmploymentIInv /\ [RecordsNext]_records => EmploymentIInv'
  BY EachPartSteps, EmploymentAssumption, EmploymentKeeps
<1>3. EmploymentIInv => EmploymentInv
  BY DEF EmploymentIInv
<1> QED BY <1>1, <1>2, <1>3, PTL DEF RecordsSpec

(* The commission rates that a payslip shows are those that were in        *)
(* force on a day of its period, and no others.                            *)
THEOREM RatesOfThePayslip == RecordsSpec => []Payroll!RatesShownAreInForce
BY RatesOfThePeriod, PayrollAssumption, PTL

(* However many attempts run at once on however many devices: no account   *)
(* is tried past the limit, a full bucket is blocked, and the throttle     *)
(* never remembers more keys than it has room for.                         *)
THEOREM AccessOfTheShop == RecordsSpec => []AccessInv
<1>1. AccessIInv => AccessInv
  BY ThrottleHolds, AccessAssumption DEF AccessInv, AccessAssumption
<1> QED BY <1>1, AccessStays, PTL

(* A session's first selection is a member of the account that signed in,  *)
(* whatever administrators link and deactivate meanwhile.                  *)
THEOREM SignInOfTheShop == RecordsSpec => SignInNamesItsMember
<1>1. AccessIInv /\ [RecordsNext]_records =>
        [\A q \in Request, d \in Device :
           /\ accessPc[q] = "append" /\ Access!AppendSelection(q) /\ accessArg[q].op \in {"password", "pin"}
           /\ d = accessArg[q].device
           => Access!ActiveCashier(d)' \subseteq UNION {Access!LinkedTo(u) : u \in accessSeen[q].user}]_(Access!vars)
  BY SignInNames, AccessAssumption DEF AccessAssumption
<1> QED BY <1>1, AccessStays, PTL DEF RecordsSpec, SignInNamesItsMember, Access!SignInNamesItsMember

(* A request about one thing leaves the others: links, PIN rotations,      *)
(* the rows of other forms, and what was suggested for days gone by.       *)
THEOREM OthersOfTheShop == RecordsSpec => OthersAreKept
<1>1. ASSUME NEW r \in FirstRoster
      PROVE  Accounts!SpecWith(r.users, r.members) => Accounts!LinksAreKept /\ Accounts!RotationsAreKept
  BY AccountAssumption, Accounts!LinksAndRotationsStay
<1>2. RecordsSpec => Accounts!LinksAreKept /\ Accounts!RotationsAreKept
  BY <1>1, RunsAccounts
<1>3. Catalog!Spec => Catalog!OthersAreLeft
  BY CatalogAssumption, FormsLeaveOthers
<1>4. RecordsSpec => Catalog!OthersAreLeft
  BY <1>3, RunsCatalog
<1>5. RecordsSpec => Journal!PastSuggestionsStand
  <2>1. JournalIInv /\ [RecordsNext]_records =>
          [\A t \in Date, g \in Takings : t < today => Journal!SuggestFor(g, t)' = Journal!SuggestFor(g, t)]_(Journal!vars)
    BY EachPartSteps, PastRatesStand, JournalAssumption
  <2> QED BY <2>1, JournalStays, PTL DEF RecordsSpec, Journal!PastSuggestionsStand
<1> QED BY <1>2, <1>4, <1>5 DEF OthersAreKept

=============================================================================
