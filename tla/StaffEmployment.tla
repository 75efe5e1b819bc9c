--------------------------- MODULE StaffEmployment ---------------------------
(***************************************************************************)
(* StaffEmploymentService: the employment record of one staff member, the  *)
(* history of its type, and the fields administrators define for all       *)
(* members with the values they hold.  A request reads what it validates   *)
(* against, then writes in one transaction: others run in between, and the *)
(* constraints of the tables have the last word.                           *)
(***************************************************************************)
EXTENDS Naturals, Sequences, FiniteSets, SequencesExt

CONSTANTS
  Request, \* requests of administrators
  Field,   \* ids of custom field definitions
  Label,   \* labels up to case
  Choice,  \* options of a CHOICE field
  Calls    \* by request: the calls it may be

EmploymentType == {"REGULAR", "TRAINEE"}
(* DATE and NUMBER behave as TEXT does: a value either fits or not.        *)
FieldType == {"TEXT", "CHOICE"}

(* A column given in a request is {} when left out, {{}} for null and      *)
(* {{v}} for v.                                                            *)
Given(column, old) == IF column = {} THEN old ELSE UNION column
Nullable(S) == {{}} \cup {{v} : v \in S}
Column(S) == Nullable(Nullable(S))

CallsAreTyped ==
  \A q \in Request : \A c \in Calls[q] :
    /\ c.op = "update" => c.type \in Column(EmploymentType)
    /\ c.op = "redefine" => c.field \in Field

VARIABLES
  profile,     \* the employment profile: type, end, reason, each of at most one value
  history,     \* types recorded by staff_employment_type_changes, in order
  definition,  \* custom field definitions by id
  value,       \* the member's custom field values by id, of at most one text
  pc, arg, seen

vars == <<profile, history, definition, value, pc, arg, seen>>
Tables == <<profile, history, definition, value>>

NoDefinition == [label |-> "", type |-> "TEXT", choices |-> {}, archived |-> TRUE, order |-> 0]
IsDefined(f) == definition[f] # NoDefinition
NoCall == [op |-> "none"]
NothingSeen == <<>>

Init ==
  /\ profile = [type |-> {}, end |-> {}, reason |-> {}] /\ history = <<>>
  /\ definition = [f \in Field |-> NoDefinition] /\ value = [f \in Field |-> {}]
  /\ pc = [q \in Request |-> "idle"] /\ arg = [q \in Request |-> NoCall]
  /\ seen = [q \in Request |-> NothingSeen]

Begin(q, c) ==
  /\ pc[q] = "idle" /\ pc' = [pc EXCEPT ![q] = "read"] /\ arg' = [arg EXCEPT ![q] = c]
  /\ UNCHANGED <<Tables, seen>>

Answer(q) ==
  /\ pc' = [pc EXCEPT ![q] = "done"] /\ arg' = [arg EXCEPT ![q] = NoCall]
  /\ seen' = [seen EXCEPT ![q] = NothingSeen]

Proceed(q, read) ==
  /\ pc' = [pc EXCEPT ![q] = "write"] /\ seen' = [seen EXCEPT ![q] = read] /\ UNCHANGED arg

-----------------------------------------------------------------------------
(* update                                                                  *)

MayUpdate(c) ==
  /\ ~(profile.type # {} /\ c.type = {{}})
  /\ Given(c.end, profile.end) = {} <=> Given(c.reason, profile.reason) = {}

UpdateRead(q) ==
  /\ pc[q] = "read" /\ arg[q].op = "update"
  /\ IF MayUpdate(arg[q]) THEN Proceed(q, profile) ELSE Answer(q)
  /\ UNCHANGED Tables

(* Mutant: a first type is not a change.                                   *)
ChangedFromAnother(c, read) == c.type # {} /\ read.type # {} /\ Given(c.type, {}) # read.type

(* changed: a type was given, and not the one that was read.               *)
TypeChanged(c, read) == c.type # {} /\ Given(c.type, {}) # read.type

(* Only the columns given are written, to the row as it is by now.         *)
Written(c) ==
  [type |-> Given(c.type, profile.type), end |-> Given(c.end, profile.end),
   reason |-> Given(c.reason, profile.reason)]

(* staff_employment_profiles_end_reason_check                              *)
EndHasReason(row) == row.end = {} <=> row.reason = {}

UpdateWrite(q) ==
  LET row == Written(arg[q]) IN
  /\ pc[q] = "write" /\ arg[q].op = "update"
  /\ IF EndHasReason(row)
     THEN /\ profile' = row
          /\ \/ \E type \in Given(arg[q].type, {}) :
                  TypeChanged(arg[q], seen[q]) /\ history' = Append(history, type)
             \/ /\ ~TypeChanged(arg[q], seen[q]) \/ Given(arg[q].type, {}) = {}
                /\ UNCHANGED history
     ELSE UNCHANGED <<profile, history>>
  /\ Answer(q) /\ UNCHANGED <<definition, value>>

-----------------------------------------------------------------------------
(* createDefinition, updateDefinition and reorder                          *)

Orders == {definition[f].order : f \in {g \in Field : IsDefined(g)}}
LastOrder == CHOOSE n \in Orders \cup {0} : \A k \in Orders : k <= n

(* validateDefinition                                                      *)
ChoicesFit(type, choices) == type = "CHOICE" => choices # {}
ChoicesOf(type, choices) == IF type = "CHOICE" THEN choices ELSE {}

CreateRead(q) ==
  /\ pc[q] = "read" /\ arg[q].op = "define"
  /\ IF ChoicesFit(arg[q].type, arg[q].choices) THEN Proceed(q, LastOrder + 1) ELSE Answer(q)
  /\ UNCHANGED Tables

(* staff_custom_field_definitions_active_label_key                         *)
LabelIsFree(f, row) ==
  row.archived \/
    \A g \in Field \ {f} : IsDefined(g) /\ ~definition[g].archived => definition[g].label # row.label

Store(f, row) ==
  definition' = IF LabelIsFree(f, row) THEN [definition EXCEPT ![f] = row] ELSE definition

CreateWrite(q) ==
  /\ pc[q] = "write" /\ arg[q].op = "define"
  /\ \E f \in Field : ~IsDefined(f) /\
       Store(f, [label |-> arg[q].label, type |-> arg[q].type, archived |-> FALSE, order |-> seen[q],
                 choices |-> ChoicesOf(arg[q].type, arg[q].choices)])
  /\ Answer(q) /\ UNCHANGED <<profile, history, value>>

(* A field's type is locked once it has values.                            *)
MayRedefine(c) ==
  /\ IsDefined(c.field)
  /\ ~(c.type # definition[c.field].type /\ value[c.field] # {})
  /\ ChoicesFit(c.type, c.choices)

RedefineRead(q) ==
  /\ pc[q] = "read" /\ arg[q].op = "redefine"
  /\ IF MayRedefine(arg[q]) THEN Proceed(q, NothingSeen) ELSE Answer(q)
  /\ UNCHANGED Tables

RedefineWrite(q) ==
  LET c == arg[q] IN
  /\ pc[q] = "write" /\ c.op = "redefine"
  /\ Store(c.field, [label |-> c.label, type |-> c.type, archived |-> c.archived,
                     order |-> definition[c.field].order, choices |-> ChoicesOf(c.type, c.choices)])
  /\ Answer(q) /\ UNCHANGED <<profile, history, value>>

(* reorder counts the fields; no request deletes one afterwards.           *)
Reorder(q) ==
  /\ pc[q] = "read" /\ arg[q].op = "reorder"
  /\ definition' = IF \A f \in ToSet(arg[q].order) : IsDefined(f)
                   THEN [f \in Field |-> IF f \in ToSet(arg[q].order)
                           THEN [definition[f] EXCEPT
                                             !.order = CHOOSE i \in DOMAIN arg[q].order : arg[q].order[i] = f]
                           ELSE definition[f]]
                   ELSE definition
  /\ Answer(q) /\ UNCHANGED <<profile, history, value>>

-----------------------------------------------------------------------------
(* saveValues, of one value; an empty one is deleted.                      *)

Fits(d, text) == d.type = "CHOICE" => text \in d.choices
(* "A value whose choice option was later removed stays valid until it is  *)
(* changed".                                                               *)
MaySave(c) ==
  /\ IsDefined(c.field) /\ ~definition[c.field].archived
  /\ c.text \subseteq value[c.field] \/ \A t \in c.text : Fits(definition[c.field], t)

SaveRead(q) ==
  /\ pc[q] = "read" /\ arg[q].op = "value"
  /\ IF MaySave(arg[q]) THEN Proceed(q, NothingSeen) ELSE Answer(q)
  /\ UNCHANGED Tables

SaveWrite(q) ==
  /\ pc[q] = "write" /\ arg[q].op = "value"
  /\ value' = [value EXCEPT ![arg[q].field] = arg[q].text]
  /\ Answer(q) /\ UNCHANGED <<profile, history, definition>>

-----------------------------------------------------------------------------

Next ==
  \E q \in Request :
    \/ \E c \in Calls[q] : Begin(q, c)
    \/ UpdateRead(q) \/ UpdateWrite(q)
    \/ CreateRead(q) \/ CreateWrite(q) \/ RedefineRead(q) \/ RedefineWrite(q) \/ Reorder(q)
    \/ SaveRead(q) \/ SaveWrite(q)
Spec == Init /\ [][Next]_vars

-----------------------------------------------------------------------------

(* Types, labels and texts.                                                *)
TypeOK ==
  /\ profile.type \subseteq EmploymentType /\ ToSet(history) \subseteq EmploymentType
  /\ \A f \in Field : definition[f].type \in FieldType /\ definition[f].choices \subseteq Choice

(* An end date and its reason are there together, whatever two requests    *)
(* that each gave one of them read (update, and the CHECK of the table).   *)
EndsHaveReasons == EndHasReason(profile)

(* The type of a member was recorded in its history, although whether it   *)
(* changed is decided from what was read before the transaction.           *)
TypeIsRecorded == profile.type \subseteq ToSet(history)

(* No two active fields have one label up to case, also when an archived   *)
(* field is taken back into use while another takes its label.             *)
ActiveLabelsAreDistinct ==
  \A f, g \in Field :
    f # g /\ IsDefined(f) /\ IsDefined(g) /\ ~definition[f].archived /\ ~definition[g].archived
      => definition[f].label # definition[g].label

(* The parts above, for the run of all tables.                             *)
EmploymentInv == EndsHaveReasons /\ TypeIsRecorded /\ ActiveLabelsAreDistinct
==============================================================================
