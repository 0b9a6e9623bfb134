------------------------------- MODULE Forms -------------------------------
(***************************************************************************)
(* The create and edit form of one model served from a GORM table, as one  *)
(* browser uses it: what a control shows of a record, what the browser     *)
(* posts of a control, how a posted value becomes the data a write gets,   *)
(* how a refused save shows the form again, and what lands in the columns. *)
(* Other writers (another browser, a job of the host application) change   *)
(* and remove rows between any two steps.                                  *)
(*                                                                         *)
(* A value is one string through every layer; what changes on the way is   *)
(* the point: "" is an empty control, Nil is Go's nil, "null" a database   *)
(* NULL, and "x" something typed into a number control that the column     *)
(* cannot take.  Auditing and the flash message of a save are in           *)
(* AdminWrites and BrowserSession.                                         *)
(***************************************************************************)
EXTENDS Naturals, FiniteSets

CONSTANTS
    Rows,           \* the primary keys the table may use
    Targets,        \* the primary keys of the related model
    Layouts,        \* the declarations of the model that are checked
    MaxTyped,       \* how many times the visitor changes a control
    MaxElsewhere    \* how many times another writer changes the table

VARIABLES
    layout,     \* the declaration in force
    table,      \* [Rows -> a row or Absent]
    step,       \* "away", "open", "sent", "checked" or "writing": where the form is
    form,       \* the page: what it edits, its controls, its messages
    loaded,     \* the record the POST handler read
    data,       \* the values it parsed, by field
    current,    \* the record that Update read again
    origin,     \* history: the column a control was rendered from
    touched,    \* history: the controls the visitor changed since
    omitted,    \* history: [Rows -> the columns last saved from an empty control]
    overtaken,  \* history: whether the record changed since Update read it
    left        \* what is left of the two bounds

history == <<origin, touched, omitted>>
vars == <<layout, table, step, form, loaded, data, current, history, overtaken, left>>

Nil == "nil"
Invalid == "invalid"
Absent == [absent |-> TRUE]
NoRow == "none"

(***************************************************************************)
(* The declaration of a model: kind gives the type of each column, flat    *)
(* is FormFieldNames, sets the fields of DeclaredFieldsets ({} when there  *)
(* are none), default the columns with a database default.                 *)
(***************************************************************************)
Fields == DOMAIN layout.kind
FormFields == IF layout.sets = {} THEN layout.flat ELSE layout.sets
IsReadOnly(f) == f \in layout.readOnly
Controls == {f \in FormFields : ~IsReadOnly(f)}
Posted == Controls \ layout.disabled
IsRelation(f) == layout.kind[f] = "relation"

Zero(kind) ==
    CASE kind \in {"pointer", "relation"} -> "null"
      [] kind = "number" -> "0"
      [] kind = "switch" -> "off"
      [] OTHER -> ""

\* The options of a select.
Choices == {"a", "b"}

Column(kind) ==
    CASE kind = "text" -> {"", "a", "b"}
      [] kind = "number" -> {"0", "1"}
      [] kind = "pointer" -> {"null", "0", "1"}
      [] kind = "switch" -> {"off", "on"}
      [] kind = "choice" -> {"", "retired"} \union Choices
      [] kind = "moment" -> {"", "12:00", "12:00:30", "12:00Z"}
      [] kind = "relation" -> {"null"} \union Targets

RowSet == {r \in [Fields -> UNION {Column(layout.kind[f]) : f \in Fields}] :
              \A f \in Fields : r[f] \in Column(layout.kind[f])}

HasDefault(f) == f \in DOMAIN layout.default

Kinds == {"text", "number", "pointer", "switch", "choice", "moment", "relation"}

\* A declaration names fields of the model and gives a default the type of its
\* column.  FormFieldNames may be left over beside fieldsets, which replace it,
\* and name what is not in them.
ASSUME LayoutAssumption ==
    \A l \in Layouts :
        /\ \A f \in DOMAIN l.kind : l.kind[f] \in Kinds
        /\ "absent" \notin DOMAIN l.kind
        /\ l.flat \union l.sets \subseteq DOMAIN l.kind
        /\ \A f \in DOMAIN l.default : f \in DOMAIN l.kind /\ l.default[f] \in Column(l.kind[f])

\* Names of absent things name nothing else.
ASSUME NameAssumption ==
    NoRow \notin Rows /\ Targets \intersect {"", Nil, Invalid, "null", "x"} = {}

(***************************************************************************)
(* What a control shows of a column.  A nullable column reaches inputValue *)
(* as a Go pointer, whose address a number input discards; a moment is     *)
(* written to the minute and as the clock of its own zone, "12:00Z" of     *)
(* another than the server's (a driver may return all moments in one),     *)
(* which the server then reads as one of its own; a select shows a value   *)
(* only among its options, and a relation's options are empty when its     *)
(* target cannot be viewed or its listing fails.                           *)
(***************************************************************************)
Shown(f, value, listed) ==
    LET kind == layout.kind[f]
    IN  CASE kind = "pointer" -> ""
          [] kind = "moment" -> IF value = "" THEN "" ELSE "12:00"
          [] kind = "choice" -> IF value \in Choices THEN value ELSE ""
          [] kind = "relation" ->
                IF listed /\ layout.viewable /\ value \in Targets THEN value ELSE ""
          [] OTHER -> value

\* What the visitor can put in a control: a select offers its options only.
Entries(f, listed) ==
    LET kind == layout.kind[f]
    IN  CASE kind = "text" -> {"", "a", "b"}
          [] kind \in {"number", "pointer"} -> {"", "0", "1", "x"}
          [] kind = "switch" -> {"off", "on"}
          [] kind = "choice" -> Choices
          [] kind = "moment" -> {"", "12:00"}
          [] kind = "relation" -> IF listed /\ layout.viewable THEN Targets ELSE {}

\* What an empty form shows: nothing, and every switch off.
Blank(f) == IF layout.kind[f] = "switch" THEN "off" ELSE ""

(***************************************************************************)
(* From the posted form to the data of a write.  A disabled control posts  *)
(* nothing; a switch is read by its presence.                              *)
(***************************************************************************)
Raw(f) == IF f \in layout.disabled THEN Blank(f) ELSE form.control[f]

ParseFormValue(f, raw) == IF raw = "" THEN Nil ELSE raw

\* As the handler would be without the read-only test of parseFormData.
ParseEverything ==
    [f \in FormFields |-> IF f \in Controls THEN ParseFormValue(f, Raw(f)) ELSE Nil]

ParseFormData == [f \in Controls |-> ParseFormValue(f, Raw(f))]

\* A test for nil alone.
IsZeroNilOnly(f, datum) == datum = Nil

\* isZero: nil, the empty string, the number 0 and false are all missing.
IsZero(f, datum) ==
    datum \in {Nil, IF layout.kind[f] = "pointer" THEN "0" ELSE Zero(layout.kind[f])}

FieldErrors(f, datum) ==
    \/ f \in layout.required /\ IsZero(f, datum)
    \/ datum \in layout.rejected[f]

\* BaseModelAdmin.Validate walks FormFieldNames, whatever the fieldsets are;
\* validateWritable then drops the complaints about read-only fields.
Validate(d) ==
    {f \in layout.flat :
        /\ ~IsReadOnly(f)
        /\ FieldErrors(f, IF f \in DOMAIN d THEN d[f] ELSE Nil)}

(***************************************************************************)
(* From the data to the columns.                                           *)
(***************************************************************************)
Convert(f, datum) ==
    CASE datum = Nil -> Zero(layout.kind[f])
      [] datum = "x" -> Invalid
      [] OTHER -> datum

Unconvertible(d) == {f \in DOMAIN d : Convert(f, d[f]) = Invalid}

Assigned(row, d) ==
    [f \in Fields |-> IF f \in DOMAIN d THEN Convert(f, d[f]) ELSE row[f]]

\* Left to the insert alone.
ExplicitZerosNever(d) == {}

\* GORM's insert replaces a zero value by the column's default, so the zeros
\* that were submitted are written again in the same transaction.
ExplicitZeros(d) == {f \in DOMAIN d : HasDefault(f) /\ d[f] # Nil}

Inserted(d) ==
    LET new == Assigned([f \in Fields |-> Zero(layout.kind[f])], d)
    IN  [f \in Fields |->
            IF HasDefault(f) /\ new[f] = Zero(layout.kind[f]) /\ f \notin ExplicitZeros(d)
            THEN layout.default[f] ELSE new[f]]

(***************************************************************************)
(* Rendering the form.                                                     *)
(***************************************************************************)
Closed == [row |-> NoRow, control |-> [f \in {} |-> ""], errs |-> {},
           refused |-> FALSE, listed |-> TRUE, asNew |-> FALSE]

Rendered(row, source, errs, refused, listed) ==
    [row |-> row, errs |-> errs, refused |-> refused, listed |-> listed, asNew |-> FALSE,
     control |-> [f \in FormFields |-> source[f]]]

FromRecord(row, listed) ==
    [f \in FormFields |->
        IF row = NoRow THEN Blank(f) ELSE Shown(f, table[row][f], listed)]

\* Every control from the record again.
FromRecordAgain(listed) ==
    [f \in FormFields |->
        IF loaded' = Absent THEN Blank(f) ELSE Shown(f, loaded'[f], listed)]

\* What a refused form shows: the submitted value where there is one, and
\* for a relation the record's own (computeRelationOptions sees only obj).
FromSubmission(listed) ==
    [f \in FormFields |->
        CASE IsRelation(f) \/ f \notin DOMAIN data' ->
                IF loaded' = Absent THEN Blank(f) ELSE Shown(f, loaded'[f], listed)
          [] OTHER -> IF data'[f] = Nil THEN Blank(f) ELSE data'[f]]

Refuse(errs, listed) ==
    /\ form' = Rendered(form.row, FromSubmission(listed), errs, TRUE, listed)
    /\ step' = "open"
    /\ current' = Absent /\ overtaken' = FALSE
    /\ touched' = {f \in touched : ~IsRelation(f)}
    /\ origin' = IF origin = Absent THEN Absent
                 ELSE [f \in Fields |-> IF IsRelation(f) THEN loaded'[f] ELSE origin[f]]

Leave ==
    /\ step' = "away"
    /\ form' = Closed
    /\ loaded' = Absent
    /\ data' = [f \in {} |-> Nil]
    /\ current' = Absent /\ overtaken' = FALSE
    /\ origin' = Absent
    /\ touched' = {}

(***************************************************************************)
(* The browser.                                                            *)
(***************************************************************************)
Missing(f, value) == f \in layout.required /\ value = Zero(layout.kind[f])
Accepted(f, value) == ~Missing(f, value) /\ value \notin layout.rejected[f]

Valid(row) == \A f \in Controls : Accepted(f, row[f])

Init ==
    /\ layout \in Layouts
    /\ \E first \in Rows :
         table \in {[r \in Rows |-> IF r = first THEN row ELSE Absent] :
                        row \in {s \in RowSet : Valid(s)}}
    /\ step = "away"
    /\ form = Closed
    /\ loaded = Absent
    /\ data = [f \in {} |-> Nil]
    /\ current = Absent /\ overtaken = FALSE
    /\ origin = Absent
    /\ touched = {}
    /\ omitted = [r \in Rows |-> {}]
    /\ left = [typed |-> MaxTyped, elsewhere |-> MaxElsewhere]

\* handleCreateGet and handleEditGet: a fresh form, possibly with a relation
\* whose listing failed (its error is ignored).
Open(row, listed) ==
    /\ step = "away"
    /\ row # NoRow => table[row] # Absent
    /\ form' = Rendered(row, FromRecord(row, listed), {}, FALSE, listed)
    /\ origin' = IF row = NoRow THEN Absent ELSE table[row]
    /\ touched' = {}
    /\ step' = "open"
    /\ UNCHANGED <<layout, table, loaded, data, current, omitted, overtaken, left>>

Type(f, entry) ==
    /\ step = "open"
    /\ left.typed > 0
    /\ f \in Posted
    /\ entry \in Entries(f, form.listed)
    /\ entry # form.control[f]
    /\ form' = [form EXCEPT !.control[f] = entry]
    /\ touched' = touched \union {f}
    /\ left' = [left EXCEPT !.typed = @ - 1]
    /\ UNCHANGED <<layout, table, step, loaded, data, current, origin, omitted, overtaken>>

Submit(asNew) ==
    /\ step = "open"
    /\ asNew => form.row # NoRow
    /\ step' = "sent"
    /\ form' = [form EXCEPT !.asNew = asNew]
    /\ UNCHANGED <<layout, table, loaded, data, current, history, overtaken, left>>

Close ==
    /\ step = "open"
    /\ Leave
    /\ UNCHANGED <<layout, table, omitted, left>>

(***************************************************************************)
(* The POST handlers, up to the write: read the record, parse, validate.   *)
(* A record that is gone answers "not found"; a "save as new" without the  *)
(* permission to create answers "forbidden".                               *)
(***************************************************************************)
Check(listed) ==
    /\ step = "sent"
    /\ IF form.row # NoRow /\ table[form.row] = Absent
       THEN Leave
       ELSE /\ loaded' = IF form.row = NoRow THEN Absent ELSE table[form.row]
            /\ data' = ParseFormData
            /\ LET errs == Validate(data')
               IN  IF errs # {}
                   THEN Refuse(errs, listed)
                   ELSE /\ step' = IF form.asNew /\ ~layout.creatable THEN "denied" ELSE "checked"
                        /\ UNCHANGED <<form, current, origin, touched, overtaken>>
    /\ UNCHANGED <<layout, table, omitted, left>>

Deny ==
    /\ step = "denied"
    /\ Leave
    /\ UNCHANGED <<layout, table, omitted, left>>

(***************************************************************************)
(* Create and Update.  A value its column cannot take, a constraint the    *)
(* database enforces and a record removed since it was read all refuse     *)
(* the save with a message; the others under a field, these under "".      *)
(***************************************************************************)
Creating == form.row = NoRow \/ form.asNew

\* Under the name of the key instead.
NonFieldUnderKey == {"ID"}

\* The key of the messages that belong to no field.
NonField == {""}
Vanished == ~Creating /\ table[form.row] = Absent

\* The insert or the UPDATE is what the database is about to be sent.
Writes == /\ step = (IF Creating THEN "checked" ELSE "writing")
          /\ Unconvertible(data) = {}
          /\ DOMAIN data # {} /\ ~Vanished

RefuseSave(listed) ==
    /\ UNCHANGED <<layout, table, loaded, data, omitted, left>>
    /\ \/ /\ step = "checked" /\ ~Vanished /\ Unconvertible(data) # {}
          /\ Refuse(Unconvertible(data), listed)
       \/ /\ (step = "checked" /\ Vanished) \/ Writes
          /\ Refuse(NonField, listed)

\* The columns a save takes from an empty control.
Omitted == {f \in DOMAIN data : data[f] = Nil}

Create(row) ==
    /\ step = "checked"
    /\ Creating
    /\ Unconvertible(data) = {}
    /\ table[row] = Absent
    /\ table' = [table EXCEPT ![row] = Inserted(data)]
    /\ omitted' = [omitted EXCEPT ![row] = Omitted]
    /\ Leave
    /\ UNCHANGED <<layout, left>>

UpdateLoad ==
    /\ step = "checked"
    /\ ~Creating
    /\ ~Vanished
    /\ Unconvertible(data) = {}
    /\ step' = "writing"
    /\ current' = table[form.row]
    /\ UNCHANGED <<layout, table, form, loaded, data, history, overtaken, left>>

\* The whole record that was read, with the submitted values in it; nothing
\* when no value was submitted, or the record has gone.  What the read-back
\* finds then decides the answer only (AdminWrites).
UpdateWrite ==
    /\ step = "writing"
    /\ IF Writes
       THEN /\ table' = [table EXCEPT ![form.row] = Assigned(current, data)]
            /\ omitted' = [omitted EXCEPT ![form.row] = Omitted]
       ELSE UNCHANGED <<table, omitted>>
    /\ Leave
    /\ UNCHANGED <<layout, left>>

(***************************************************************************)
(* Another writer, who keeps the rules.                                    *)
(***************************************************************************)
Elsewhere(row) ==
    /\ left.elsewhere > 0
    /\ table[row] # Absent
    /\ \/ \E f \in Fields : \E v \in Column(layout.kind[f]) \ {table[row][f]} :
            /\ f \in Controls => Accepted(f, v)
            /\ table' = [table EXCEPT ![row][f] = v]
            /\ omitted' = [omitted EXCEPT ![row] = @ \ {f}]
       \/ table' = [table EXCEPT ![row] = Absent] /\ omitted' = [omitted EXCEPT ![row] = {}]
    /\ overtaken' = (overtaken \/ (step = "writing" /\ row = form.row))
    /\ left' = [left EXCEPT !.elsewhere = @ - 1]
    /\ UNCHANGED <<layout, step, form, loaded, data, current, origin, touched>>

Next ==
    \/ \E row \in Rows \union {NoRow}, listed \in BOOLEAN : Open(row, listed)
    \/ \E f \in Fields : \E entry \in Entries(f, form.listed) : Type(f, entry)
    \/ \E asNew \in BOOLEAN : Submit(asNew)
    \/ Close
    \/ \E listed \in BOOLEAN : Check(listed) \/ RefuseSave(listed)
    \/ Deny
    \/ \E row \in Rows : Create(row) \/ Elsewhere(row)
    \/ UpdateLoad \/ UpdateWrite

Spec == Init /\ [][Next]_vars

-----------------------------------------------------------------------------
\* Every column holds a value of its type, every control something it can
\* show, and the data of a write is what one form posted.
TypeOK ==
    /\ layout \in Layouts
    /\ \A r \in Rows : table[r] = Absent \/ table[r] \in RowSet
    /\ step \in {"away", "open", "sent", "checked", "denied", "writing"}
    /\ form.row \in Rows \union {NoRow}
    /\ form.errs \subseteq Fields \union {""}
    /\ step # "away" => DOMAIN form.control = FormFields
    /\ DOMAIN data \subseteq FormFields
    /\ loaded = Absent \/ loaded \in RowSet
    /\ IF step = "writing" THEN current \in RowSet ELSE current = Absent /\ ~overtaken
    /\ touched \subseteq Posted
    /\ omitted \in [Rows -> SUBSET Fields]

\* A refused save keeps what was submitted (docs/model-admin.md: "keeping
\* what was submitted"): every control but a relation's shows again what the
\* visitor had in it, whichever check refused and whatever happened to the
\* record meanwhile.
EntrySurvivesRefusal ==
    [][(step \in {"sent", "checked", "writing"}) /\ step' = "open"
        => \A f \in Posted : ~IsRelation(f) => form'.control[f] = form.control[f]]_vars

\* The columns whose control can show and return what they hold.
Faithful(f) ==
    /\ f \notin layout.disabled
    /\ CASE layout.kind[f] = "pointer" -> FALSE
         [] layout.kind[f] = "choice" -> origin[f] # "retired"
         [] layout.kind[f] = "moment" -> origin[f] \in {"", "12:00"}
         [] layout.kind[f] = "relation" -> origin[f] = "null" \/ (form.listed /\ layout.viewable)
         [] OTHER -> TRUE

Created == step = "checked" /\ step' = "away"
Updated == step = "writing" /\ step' = "away" /\ table[form.row] # Absent

\* Saving an edit changes only what the visitor changed.  A control nobody
\* touched, through any number of refusals, writes back the value it was
\* rendered from, if the control can show it: not a nullable column, an option
\* that was retired, a moment with seconds or of another zone, nor a relation
\* that was not listed.  A read-only field or a column outside the form keeps
\* what the row holds, another writer's change included; but for a change in
\* between Update's load and its write of the whole row, which is turned back.
UntouchedIsKept ==
    [][Updated
        => \A f \in Fields \ touched :
              LET now == table'[form.row][f]
              IN  IF f \in Controls
                  THEN Faithful(f) => now = origin[f]
                  ELSE now = table[form.row][f] \/ (overtaken /\ now = current[f])]_vars

\* What an entry means to the visitor who made it.
Meaning(f) ==
    IF form.control[f] # "" THEN form.control[f]
    ELSE IF HasDefault(f) THEN layout.default[f]
    ELSE IF layout.kind[f] = "number" THEN "0"
    ELSE IF layout.kind[f] \in {"pointer", "relation"} THEN "null" ELSE ""

\* A create or a "Save as new" adds one row, leaves every other row alone
\* (the one being edited above all), and gives each posted column what its
\* control showed: a submitted zero or an unticked switch is stored although
\* the column has a default, and only an empty control takes the default.
CreatedAsShown ==
    [][Created
        => \E r \in Rows :
              /\ table[r] = Absent
              /\ \A other \in Rows \ {r} : table'[other] = table[other]
              /\ \A f \in Posted : table'[r][f] = Meaning(f)]_vars

\* With a flat field list, no sequence of creates, edits and "Save as new"
\* puts a zero in a required column, or in a column a value that the field's own
\* validators refuse; but for the zero or the default of the column that an
\* empty control comes to, where the validators were asked about nil instead and
\* let that pass.
RowsStayValid ==
    layout.sets = {} =>
        \A r \in Rows : table[r] # Absent => \A f \in Controls :
            /\ ~Missing(f, table[r][f])
            /\ table[r][f] \in layout.rejected[f]
                 => /\ f \in omitted[r] /\ Nil \notin layout.rejected[f]
                    /\ table[r][f] = Zero(layout.kind[f]) \/ (HasDefault(f) /\ table[r][f] = layout.default[f])

\* A refusal is explained on the page: at least one of its messages is under
\* a field the form renders, or is the form's own ("messages under a key the
\* form doesn't render are not shown").  But for the complaints about names
\* left over in FormFieldNames beside fieldsets that do not have them, which
\* are not shown.
RefusalIsExplained ==
    form.refused => \/ form.errs \intersect (FormFields \union {""}) # {}
                    \/ layout.sets # {} /\ form.errs # {} /\ form.errs \subseteq layout.flat \ layout.sets

\* docs/model-admin.md says Create and Update "are only ever called with data
\* that already passed validation".  BaseModelAdmin.Validate does not look at
\* the fields of the fieldsets.
WritesAreValidated ==
    step = "checked" => \A f \in Posted : ~FieldErrors(f, data[f])
=============================================================================
