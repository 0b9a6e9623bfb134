---------------------------- MODULE Forms_proofs -----------------------------
(***************************************************************************)
(* Proofs about Forms for any declaration of the model, any table and any  *)
(* number of edits and other writers.                                      *)
(***************************************************************************)
EXTENDS Forms, TLAPS

\* What a control of a kind can contain, whoever put it there.
Contents(kind) ==
    CASE kind \in {"number", "pointer"} -> {"", "0", "1", "x"}
      [] kind = "switch" -> {"off", "on"}
      [] kind = "moment" -> {"", "12:00"}
      [] kind = "relation" -> {""} \union Targets
      [] OTHER -> {"", "a", "b"}

FormShape ==
    /\ form = [row |-> form.row, errs |-> form.errs, refused |-> form.refused, listed |-> form.listed,
               asNew |-> form.asNew, control |-> form.control]
    /\ form.row \in Rows \union {NoRow} /\ form.errs \subseteq Fields \union {""}
    /\ form.refused \in BOOLEAN /\ form.listed \in BOOLEAN /\ form.asNew \in BOOLEAN
    /\ step # "away" => /\ DOMAIN form.control = FormFields
                        /\ \A f \in FormFields : form.control[f] \in Contents(layout.kind[f])

Types ==
    /\ layout \in Layouts
    /\ table \in [Rows -> RowSet \union {Absent}]
    /\ step \in {"away", "open", "sent", "checked", "denied", "writing"}
    /\ FormShape
    /\ loaded = Absent \/ loaded \in RowSet
    /\ DOMAIN data \subseteq FormFields
    /\ IF step = "writing" THEN current \in RowSet ELSE current = Absent /\ ~overtaken
    /\ overtaken \in BOOLEAN
    /\ touched \subseteq Posted
    /\ omitted \in [Rows -> SUBSET Fields]

\* An open edit form shows, where nobody touched it, the record it was
\* rendered from.
Source ==
    step # "away" =>
        IF form.row = NoRow THEN origin = Absent
        ELSE /\ origin \in RowSet
             /\ \A f \in Posted \ touched : form.control[f] = Shown(f, origin[f], form.listed)

\* What is written is what the form posted, and no rule of the flat list refuses it.
Parsed ==
    step \in {"checked", "writing"} =>
        /\ data = ParseFormData /\ Validate(data) = {}
        /\ loaded \in RowSet <=> form.row # NoRow

\* An UPDATE is about to write back the record as Update read it.
Held ==
    step = "writing" =>
        /\ ~Creating /\ Unconvertible(data) = {}
        /\ overtaken \/ table[form.row] = current

\* What RowsStayValid says of one row, some of whose columns were saved from an
\* empty control.
Sane(row, empty) ==
    \A f \in Controls :
        /\ ~Missing(f, row[f])
        /\ row[f] \in layout.rejected[f]
             => /\ f \in empty /\ Nil \notin layout.rejected[f]
                /\ row[f] = Zero(layout.kind[f]) \/ (HasDefault(f) /\ row[f] = layout.default[f])

\* What RefusalIsExplained says of the messages of one refusal.
Explains(errs) ==
    \/ errs \intersect (FormFields \union {""}) # {}
    \/ layout.sets # {} /\ errs # {} /\ errs \subseteq layout.flat \ layout.sets

IInv == Types /\ Source /\ Parsed /\ Held /\ RowsStayValid /\ RefusalIsExplained
-----------------------------------------------------------------------------
(* What a declaration fixes, and what values become on their way.          *)

LEMMA LayoutFacts ==
  ASSUME layout \in Layouts
  PROVE  /\ FormFields \subseteq Fields /\ layout.flat \subseteq Fields
         /\ layout.sets = {} => layout.flat = FormFields
         /\ Controls \subseteq FormFields /\ Posted \subseteq Controls
         /\ \A f \in Controls : ~IsReadOnly(f)
         /\ \A f \in Fields : layout.kind[f] \in Kinds
         /\ \A f \in Fields : HasDefault(f) => layout.default[f] \in Column(layout.kind[f])
BY LayoutAssumption DEF Fields, FormFields, Controls, Posted, HasDefault, IsReadOnly

LEMMA Frame ==
  ASSUME layout' = layout
  PROVE  /\ Fields' = Fields /\ FormFields' = FormFields /\ Controls' = Controls /\ Posted' = Posted
         /\ RowSet' = RowSet
<1>1. Fields' = Fields /\ FormFields' = FormFields
  BY DEF Fields, FormFields
<1>2. Controls' = Controls
  BY <1>1 DEF Controls, IsReadOnly
<1>3. Posted' = Posted
  BY <1>2 DEF Posted
<1>4. RowSet' = RowSet
  BY <1>1 DEF RowSet
<1> QED BY <1>1, <1>2, <1>3, <1>4

LEMMA FrameValues ==
  ASSUME layout' = layout, NEW f, NEW v, NEW w
  PROVE  /\ Shown(f, v, w)' = Shown(f, v, w)
         /\ Sane(v, w)' <=> Sane(v, w)
         /\ Explains(v)' <=> Explains(v)
<1>1. Controls' = Controls /\ FormFields' = FormFields
  BY Frame
<1> QED BY <1>1 DEF Shown, Sane, Missing, HasDefault, Explains

LEMMA RowsKept ==
  ASSUME RowsStayValid, UNCHANGED <<layout, table, omitted>>
  PROVE  RowsStayValid'
<1>1. Controls' = Controls
  BY Frame
<1> QED BY <1>1 DEF RowsStayValid, Missing, HasDefault

LEMMA ExplanationKept ==
  ASSUME RefusalIsExplained, layout' = layout,
         form'.refused = form.refused, form'.errs = form.errs
  PROVE  RefusalIsExplained'
<1>1. FormFields' = FormFields
  BY Frame
<1> QED BY <1>1 DEF RefusalIsExplained

LEMMA RowShape ==
  /\ \A r \in RowSet : DOMAIN r = Fields /\ \A f \in Fields : r[f] \in Column(layout.kind[f])
  /\ \A r : DOMAIN r = Fields /\ r = [f \in Fields |-> r[f]] /\ (\A f \in Fields : r[f] \in Column(layout.kind[f]))
           => r \in RowSet
BY DEF RowSet

LEMMA RowIsPresent == ASSUME layout \in Layouts PROVE Absent \notin RowSet
<1>1. DOMAIN Absent = {"absent"}
  BY DEF Absent
<1>2. "absent" \notin Fields
  BY LayoutAssumption DEF Fields
<1> QED BY <1>1, <1>2, RowShape

\* A control shows something it can contain.
LEMMA ShownFits ==
  ASSUME layout \in Layouts, NEW f \in Fields, NEW v \in Column(layout.kind[f]), NEW listed
  PROVE  Shown(f, v, listed) \in Contents(layout.kind[f])
<1>1. layout.kind[f] \in Kinds
  BY LayoutFacts
<1>2. CASE layout.kind[f] = "text"
  BY <1>2 DEF Shown, Contents, Column
<1>3. CASE layout.kind[f] = "number"
  BY <1>3 DEF Shown, Contents, Column
<1>4. CASE layout.kind[f] = "pointer"
  BY <1>4 DEF Shown, Contents, Column
<1>5. CASE layout.kind[f] = "switch"
  BY <1>5 DEF Shown, Contents, Column
<1>6. CASE layout.kind[f] = "choice"
  BY <1>6 DEF Shown, Contents, Column, Choices
<1>7. CASE layout.kind[f] = "moment"
  BY <1>7 DEF Shown, Contents, Column
<1>8. CASE layout.kind[f] = "relation"
  BY <1>8 DEF Shown, Contents, Column
<1> QED BY <1>1, <1>2, <1>3, <1>4, <1>5, <1>6, <1>7, <1>8 DEF Kinds

\* Only what a relation shows depends on its listing.
LEMMA ListingIsForRelations ==
  ASSUME NEW f, ~IsRelation(f), NEW v, NEW a, NEW b PROVE Shown(f, v, a) = Shown(f, v, b)
BY DEF IsRelation, Shown

LEMMA BlankFits ==
  ASSUME layout \in Layouts, NEW f \in Fields PROVE Blank(f) \in Contents(layout.kind[f])
<1>1. layout.kind[f] \in Kinds
  BY LayoutFacts
<1> QED BY <1>1 DEF Blank, Contents, Kinds

LEMMA EntriesFit ==
  ASSUME layout \in Layouts, NEW f \in Fields, NEW listed, NEW entry \in Entries(f, listed)
  PROVE  entry \in Contents(layout.kind[f])
<1>1. layout.kind[f] \in Kinds
  BY LayoutFacts
<1>2. CASE layout.kind[f] = "text"
  BY <1>2 DEF Entries, Contents
<1>3. CASE layout.kind[f] \in {"number", "pointer"}
  BY <1>3 DEF Entries, Contents
<1>4. CASE layout.kind[f] = "switch"
  BY <1>4 DEF Entries, Contents
<1>5. CASE layout.kind[f] = "choice"
  BY <1>5 DEF Entries, Contents, Choices
<1>6. CASE layout.kind[f] = "moment"
  BY <1>6 DEF Entries, Contents
<1>7. CASE layout.kind[f] = "relation"
  BY <1>7 DEF Entries, Contents
<1> QED BY <1>1, <1>2, <1>3, <1>4, <1>5, <1>6, <1>7 DEF Kinds

\* Nothing that a control contains reads as nil, or as a NULL of a pointer.
LEMMA ContentsAreText ==
  ASSUME layout \in Layouts, NEW f \in Fields, NEW v \in Contents(layout.kind[f])
  PROVE  /\ v # Nil /\ v # "null" /\ v # Invalid
         /\ layout.kind[f] = "switch" => v \in {"off", "on"}
         /\ layout.kind[f] = "relation" => v # "x"
BY NameAssumption DEF Contents, Nil, Invalid

\* The form shown again has what was posted.
LEMMA ShownAgain ==
  ASSUME layout \in Layouts, NEW f \in Fields, NEW v \in Contents(layout.kind[f])
  PROVE  (IF ParseFormValue(f, v) = Nil THEN Blank(f) ELSE ParseFormValue(f, v)) = v
BY ContentsAreText DEF ParseFormValue, Blank, Nil

\* What converts fits the column.
LEMMA ConvertedFits ==
  ASSUME layout \in Layouts, NEW f \in Fields, NEW v \in Contents(layout.kind[f]),
         Convert(f, ParseFormValue(f, v)) # Invalid
  PROVE  Convert(f, ParseFormValue(f, v)) \in Column(layout.kind[f])
<1> DEFINE c == Convert(f, ParseFormValue(f, v))
<1>1. layout.kind[f] \in Kinds
  BY LayoutFacts
<1>2. /\ v = "" => c = Zero(layout.kind[f])
      /\ v # "" => c = v /\ v # "x"
  <2>1. CASE v = ""
    <3>1. ParseFormValue(f, v) = Nil
      BY <2>1 DEF ParseFormValue
    <3>2. Convert(f, Nil) = Zero(layout.kind[f])
      BY DEF Convert, Nil
    <3> QED BY <2>1, <3>1, <3>2
  <2>2. CASE v # ""
    <3>1. ParseFormValue(f, v) = v /\ v # Nil
      BY <2>2, ContentsAreText DEF ParseFormValue
    <3> QED BY <2>2, <3>1 DEF Convert
  <2> QED BY <2>1, <2>2
<1> HIDE DEF c
<1>3. Zero(layout.kind[f]) \in Column(layout.kind[f])
  BY <1>1 DEF Zero, Column, Kinds, Choices
<1>4. v # "" /\ v # "x" => v \in Column(layout.kind[f])
  <2>1. CASE layout.kind[f] \in {"text", "number", "pointer"}
    BY <2>1 DEF Contents, Column
  <2>2. CASE layout.kind[f] \in {"switch", "choice"}
    BY <2>2 DEF Contents, Column, Choices
  <2>3. CASE layout.kind[f] = "moment"
    BY <2>3 DEF Contents, Column
  <2>4. CASE layout.kind[f] = "relation"
    BY <2>4 DEF Contents, Column
  <2> QED BY <1>1, <2>1, <2>2, <2>3, <2>4 DEF Kinds
<1> QED BY <1>2, <1>3, <1>4 DEF c

\* A faithful control nobody touched writes back what it was rendered from.
LEMMA RoundTrip ==
  ASSUME layout \in Layouts, NEW f \in Fields, Faithful(f), origin[f] \in Column(layout.kind[f])
  PROVE  Convert(f, ParseFormValue(f, Shown(f, origin[f], form.listed))) = origin[f]
<1>1. layout.kind[f] \in Kinds
  BY LayoutFacts
<1>2. CASE layout.kind[f] = "text"
  BY <1>2 DEF Shown, Column, Convert, ParseFormValue, Zero, Nil
<1>3. CASE layout.kind[f] = "number"
  BY <1>3 DEF Shown, Column, Convert, ParseFormValue, Zero, Nil
<1>4. CASE layout.kind[f] = "pointer"
  BY <1>4 DEF Faithful
<1>5. CASE layout.kind[f] = "switch"
  BY <1>5 DEF Shown, Column, Convert, ParseFormValue, Zero, Nil
<1>6. CASE layout.kind[f] = "choice"
  BY <1>6 DEF Shown, Column, Convert, ParseFormValue, Zero, Nil, Faithful, Choices
<1>7. CASE layout.kind[f] = "moment"
  BY <1>7 DEF Shown, Column, Convert, ParseFormValue, Zero, Nil, Faithful
<1>8. CASE layout.kind[f] = "relation"
  BY <1>8, NameAssumption DEF Shown, Column, Convert, ParseFormValue, Zero, Nil, Faithful
<1> QED BY <1>1, <1>2, <1>3, <1>4, <1>5, <1>6, <1>7, <1>8 DEF Kinds
-----------------------------------------------------------------------------
(* A refused save.                                                         *)

\* The controls of the form that is shown again.
LEMMA ControlsAgain ==
  ASSUME IInv, NEW listed, step # "away", data' = ParseFormData, loaded' = Absent \/ loaded' \in RowSet,
         NEW f \in FormFields
  PROVE  /\ FromSubmission(listed)[f] \in Contents(layout.kind[f])
         /\ f \in Posted /\ ~IsRelation(f) => FromSubmission(listed)[f] = form.control[f]
         /\ IsRelation(f) /\ loaded' \in RowSet => FromSubmission(listed)[f] = Shown(f, loaded'[f], listed)
<1>1. layout \in Layouts /\ f \in Fields /\ form.control[f] \in Contents(layout.kind[f])
  BY LayoutFacts DEF IInv, Types, FormShape
<1>2. Controls \subseteq FormFields /\ Posted \subseteq Controls /\ DOMAIN data' = Controls
  BY <1>1, LayoutFacts DEF ParseFormData
<1>3. CASE IsRelation(f) \/ f \notin Controls
  <2>1. FromSubmission(listed)[f] = IF loaded' = Absent THEN Blank(f) ELSE Shown(f, loaded'[f], listed)
    BY <1>2, <1>3 DEF FromSubmission
  <2>2. Blank(f) \in Contents(layout.kind[f])
    BY <1>1, BlankFits
  <2>3. loaded' \in RowSet => loaded' # Absent /\ Shown(f, loaded'[f], listed) \in Contents(layout.kind[f])
    BY <1>1, ShownFits, RowShape, RowIsPresent
  <2> QED BY <1>2, <1>3, <2>1, <2>2, <2>3
<1>4. CASE ~IsRelation(f) /\ f \in Controls
  <2>1. FromSubmission(listed)[f] = IF data'[f] = Nil THEN Blank(f) ELSE data'[f]
    BY <1>2, <1>4 DEF FromSubmission
  <2>2. data'[f] = ParseFormValue(f, Raw(f))
    BY <1>4 DEF ParseFormData
  <2>3. Raw(f) \in Contents(layout.kind[f]) /\ (f \in Posted => Raw(f) = form.control[f])
    BY <1>1, BlankFits DEF Raw, Posted
  <2>4. FromSubmission(listed)[f] = Raw(f)
    BY <1>1, <2>1, <2>2, <2>3, ShownAgain
  <2> QED BY <1>4, <2>3, <2>4
<1> QED BY <1>3, <1>4

LEMMA RefuseKeeps ==
  ASSUME IInv, UNCHANGED <<layout, table, omitted>>, step # "away", data' = ParseFormData,
         NEW errs, NEW listed \in BOOLEAN, Refuse(errs, listed),
         errs \subseteq Fields \union {""}, Explains(errs),
         loaded' = Absent \/ loaded' \in RowSet, form.row # NoRow => loaded' \in RowSet
  PROVE  /\ IInv'
         /\ \A f \in Posted : ~IsRelation(f) => form'.control[f] = form.control[f]
<1> DEFINE again == FromSubmission(listed)
<1>1. layout \in Layouts /\ Types /\ Source
  BY DEF IInv, Types
<1>2. /\ FormFields \subseteq Fields /\ Controls \subseteq FormFields /\ Posted \subseteq Controls
  BY <1>1, LayoutFacts
<1>3. /\ Fields' = Fields /\ FormFields' = FormFields /\ Controls' = Controls /\ Posted' = Posted
      /\ RowSet' = RowSet
  BY Frame
<1>4. /\ form' = [row |-> form.row, errs |-> errs, refused |-> TRUE, listed |-> listed, asNew |-> FALSE,
                  control |-> [f \in FormFields |-> again[f]]]
      /\ step' = "open" /\ touched' = {f \in touched : ~IsRelation(f)}
      /\ current' = Absent /\ overtaken' = FALSE
      /\ origin' = IF origin = Absent THEN Absent
                   ELSE [f \in Fields |-> IF IsRelation(f) THEN loaded'[f] ELSE origin[f]]
  BY DEF Refuse, Rendered
<1>5. \A f \in FormFields : /\ again[f] \in Contents(layout.kind[f])
                            /\ f \in Posted /\ ~IsRelation(f) => again[f] = form.control[f]
                            /\ IsRelation(f) /\ loaded' \in RowSet => again[f] = Shown(f, loaded'[f], listed)
  BY ControlsAgain
<1> HIDE DEF again
<1>6. /\ form'.row = form.row /\ form'.errs = errs /\ form'.refused = TRUE /\ form'.listed = listed
      /\ form'.asNew = FALSE /\ form'.control = [f \in FormFields |-> again[f]]
  BY <1>4
<1>7. form' = [row |-> form'.row, errs |-> form'.errs, refused |-> form'.refused, listed |-> form'.listed,
               asNew |-> form'.asNew, control |-> form'.control]
  BY <1>4
<1>8. Types'
  <2>1. FormShape'
    <3>1. form'.row \in Rows \union {NoRow}
      BY <1>1, <1>6 DEF Types, FormShape
    <3>2. DOMAIN form'.control = FormFields /\ \A f \in FormFields : form'.control[f] \in Contents(layout.kind[f])
      BY <1>5, <1>6
    <3>3. form'.errs \subseteq Fields \union {""} /\ form'.refused \in BOOLEAN /\ form'.listed \in BOOLEAN /\ form'.asNew \in BOOLEAN
      BY <1>6
    <3> QED BY <1>3, <1>7, <3>1, <3>2, <3>3 DEF FormShape
  <2>2. DOMAIN data' \subseteq FormFields
    BY <1>2 DEF ParseFormData
  <2>3. touched' \subseteq Posted
    BY <1>1, <1>4 DEF Types
  <2> QED BY <1>1, <1>3, <1>4, <2>1, <2>2, <2>3 DEF Types
<1>9. Source'
  <2>1. CASE form.row = NoRow
    <3>1. origin' = Absent
      BY <1>1, <1>4, <2>1 DEF Source
    <3> QED BY <2>1, <3>1, <1>4, <1>6 DEF Source
  <2>2. CASE form.row # NoRow
    <3>1. origin \in RowSet /\ \A f \in Posted \ touched : form.control[f] = Shown(f, origin[f], form.listed)
      BY <1>1, <2>2 DEF Source
    <3>2. origin' = [f \in Fields |-> IF IsRelation(f) THEN loaded'[f] ELSE origin[f]]
      BY <1>1, <1>4, <3>1, RowIsPresent
    <3>3. loaded' \in RowSet
      BY <2>2
    <3>4. origin' \in RowSet
      <4>1. \A f \in Fields : origin'[f] \in Column(layout.kind[f])
        BY <3>1, <3>2, <3>3, RowShape
      <4> QED BY <3>2, <4>1, RowShape
    <3>5. ASSUME NEW f \in Posted \ touched' PROVE form'.control[f] = Shown(f, origin'[f], listed)
      <4>1. f \in FormFields /\ f \in Fields /\ form'.control[f] = again[f]
        BY <1>2, <1>6
      <4>2. CASE IsRelation(f)
        BY <4>1, <4>2, <1>5, <3>2, <3>3
      <4>3. CASE ~IsRelation(f)
        <5>1. f \notin touched /\ again[f] = form.control[f] /\ origin'[f] = origin[f]
          BY <4>1, <4>3, <1>4, <1>5, <3>2
        <5>2. form.control[f] = Shown(f, origin[f], form.listed)
          BY <3>1, <5>1
        <5> QED BY <4>1, <4>3, <5>1, <5>2, ListingIsForRelations
      <4> QED BY <4>2, <4>3
    <3>6. \A f \in Posted \ touched' : form'.control[f] = Shown(f, origin[f], form.listed)'
      <4> TAKE f \in Posted \ touched'
      <4>1. form'.control[f] = Shown(f, origin'[f], form'.listed)
        BY <1>6, <3>5
      <4>2. Shown(f, origin[f], form.listed)' = Shown(f, origin'[f], form'.listed)
        BY DEF Shown
      <4> QED BY <4>1, <4>2
    <3> QED BY <1>3, <1>6, <2>2, <3>4, <3>6 DEF Source
  <2> QED BY <2>1, <2>2
<1>10. Parsed' /\ Held'
  BY <1>4 DEF Parsed, Held
<1>11. RowsStayValid'
  BY RowsKept DEF IInv
<1>12. RefusalIsExplained'
  BY <1>3, <1>6 DEF RefusalIsExplained, Explains
<1>13. \A f \in Posted : ~IsRelation(f) => form'.control[f] = form.control[f]
  BY <1>2, <1>5, <1>6
<1> QED BY <1>8, <1>9, <1>10, <1>11, <1>12, <1>13 DEF IInv
-----------------------------------------------------------------------------
(* What is stored.                                                         *)

LEMMA Posts ==
  ASSUME IInv, step \in {"checked", "writing"}, NEW f \in Controls
  PROVE  /\ f \in Fields /\ f \in DOMAIN data /\ data[f] = ParseFormValue(f, Raw(f))
         /\ Raw(f) \in Contents(layout.kind[f])
         /\ f \in Posted => Raw(f) = form.control[f]
<1>1. layout \in Layouts /\ data = ParseFormData
  BY DEF IInv, Types, Parsed
<1>2. f \in FormFields /\ f \in Fields
  BY <1>1, LayoutFacts
<1>3. form.control[f] \in Contents(layout.kind[f])
  BY <1>2 DEF IInv, Types, FormShape
<1>4. Raw(f) \in Contents(layout.kind[f]) /\ (f \in Posted => Raw(f) = form.control[f])
  BY <1>1, <1>2, <1>3, BlankFits DEF Raw, Posted
<1> QED BY <1>1, <1>2, <1>4 DEF ParseFormData

\* A datum is nil, and stands for the zero, or the value itself.
LEMMA Conversions ==
  ASSUME IInv, step \in {"checked", "writing"}, Unconvertible(data) = {}, NEW f \in Controls
  PROVE  /\ Convert(f, data[f]) \in Column(layout.kind[f])
         /\ data[f] = Nil => Convert(f, data[f]) = Zero(layout.kind[f])
         /\ data[f] # Nil => Convert(f, data[f]) = data[f] /\ data[f] = Raw(f) /\ data[f] # "null"
         /\ data[f] = Nil <=> Raw(f) = ""
<1>1. /\ f \in Fields /\ f \in DOMAIN data /\ data[f] = ParseFormValue(f, Raw(f))
      /\ Raw(f) \in Contents(layout.kind[f])
  BY Posts
<1>2. layout \in Layouts
  BY DEF IInv, Types
<1>3. Convert(f, data[f]) # Invalid
  BY <1>1 DEF Unconvertible
<1>4. Convert(f, data[f]) \in Column(layout.kind[f])
  BY <1>1, <1>2, <1>3, ConvertedFits
<1>5. Raw(f) # Nil /\ Raw(f) # "null"
  BY <1>1, <1>2, ContentsAreText
<1>6. /\ data[f] = Nil <=> Raw(f) = ""
      /\ data[f] # Nil => data[f] = Raw(f)
  BY <1>1, <1>5 DEF ParseFormValue
<1>7. data[f] = Nil => Convert(f, data[f]) = Zero(layout.kind[f])
  <2>1. Convert(f, Nil) = Zero(layout.kind[f])
    BY DEF Convert, Nil
  <2> QED BY <2>1
<1>8. data[f] # Nil => Convert(f, data[f]) = data[f]
  BY <1>3 DEF Convert
<1> QED BY <1>4, <1>5, <1>6, <1>7, <1>8

\* What validation lets through is accepted in the column, or comes from an
\* empty control.
LEMMA StoredIsSane ==
  ASSUME IInv, step \in {"checked", "writing"}, Unconvertible(data) = {}, layout.sets = {}, NEW row,
         \A f \in Controls : \/ row[f] = Convert(f, data[f])
                             \/ (data[f] = Nil /\ HasDefault(f) /\ row[f] = layout.default[f])
  PROVE  Sane(row, Omitted)
<1> SUFFICES ASSUME NEW f \in Controls
             PROVE  /\ ~Missing(f, row[f])
                    /\ row[f] \in layout.rejected[f]
                         => /\ f \in Omitted /\ Nil \notin layout.rejected[f]
                            /\ row[f] = Zero(layout.kind[f]) \/ (HasDefault(f) /\ row[f] = layout.default[f])
  BY DEF Sane
<1>1. layout \in Layouts /\ Validate(data) = {}
  BY DEF IInv, Types, Parsed
<1>2. f \in Fields /\ f \in DOMAIN data /\ f \in layout.flat /\ ~IsReadOnly(f)
  BY <1>1, Posts, LayoutFacts
<1>3. ~FieldErrors(f, data[f])
  BY <1>1, <1>2 DEF Validate
<1>4. CASE data[f] = Nil
  <2>1. f \notin layout.required /\ Nil \notin layout.rejected[f]
    BY <1>3, <1>4 DEF FieldErrors, IsZero
  <2>2. row[f] = Zero(layout.kind[f]) \/ (HasDefault(f) /\ row[f] = layout.default[f])
    BY <1>4, Conversions
  <2>3. f \in Omitted
    BY <1>2, <1>4 DEF Omitted
  <2> QED BY <2>1, <2>2, <2>3 DEF Missing
<1>5. CASE data[f] # Nil
  <2>1. row[f] = data[f] /\ data[f] # "null"
    BY <1>5, Conversions
  <2>2. f \in layout.required => data[f] # Zero(layout.kind[f])
    <3>1. CASE layout.kind[f] = "pointer"
      BY <2>1, <3>1 DEF Zero
    <3>2. CASE layout.kind[f] # "pointer"
      BY <1>3, <3>2 DEF FieldErrors, IsZero
    <3> QED BY <3>1, <3>2
  <2> QED BY <1>3, <2>1, <2>2 DEF FieldErrors, Missing
<1> QED BY <1>4, <1>5

LEMMA LeaveKeeps ==
  ASSUME IInv, layout' = layout, Leave, table' \in [Rows -> RowSet \union {Absent}],
         omitted' \in [Rows -> SUBSET Fields],
         layout.sets = {} => \A r \in Rows : table'[r] = Absent \/ Sane(table'[r], omitted'[r])
  PROVE  IInv'
<1>1. /\ Fields' = Fields /\ FormFields' = FormFields /\ Controls' = Controls /\ Posted' = Posted
      /\ RowSet' = RowSet
  BY Frame
<1>2. /\ step' = "away" /\ form' = Closed /\ loaded' = Absent /\ data' = [f \in {} |-> Nil] /\ touched' = {}
      /\ current' = Absent /\ overtaken' = FALSE
  BY DEF Leave
<1>3. FormShape'
  BY <1>1, <1>2 DEF FormShape, Closed
<1>4. Types'
  BY <1>1, <1>2, <1>3 DEF IInv, Types
<1>5. Source' /\ Parsed' /\ Held'
  BY <1>2 DEF Source, Parsed, Held
<1>6. RowsStayValid'
  BY <1>1 DEF RowsStayValid, Sane, Missing, HasDefault
<1>7. RefusalIsExplained'
  BY <1>2 DEF RefusalIsExplained, Closed
<1> QED BY <1>4, <1>5, <1>6, <1>7 DEF IInv

\* The form is left, and nothing written.
LEMMA LeaveUnwritten ==
  ASSUME IInv, Leave, UNCHANGED <<layout, table, omitted>>
  PROVE  IInv'
BY LeaveKeeps DEF IInv, Types, RowsStayValid, Sane

\* The parts of the invariant that only the form's own state matters to.
LEMMA FormUnchanged ==
  ASSUME IInv, UNCHANGED <<layout, step, form, loaded, data, origin, touched>>
  PROVE  /\ FormShape' /\ Source' /\ Parsed' /\ RefusalIsExplained'
         /\ (loaded = Absent \/ loaded \in RowSet)' /\ (DOMAIN data \subseteq FormFields)' /\ (touched \subseteq Posted)'
<1>1. /\ Fields' = Fields /\ FormFields' = FormFields /\ Controls' = Controls /\ Posted' = Posted
      /\ RowSet' = RowSet
  BY Frame
<1>2. FormShape'
  BY <1>1 DEF IInv, Types, FormShape
<1>3. Source'
  BY <1>1 DEF IInv, Source, Shown
<1>4. Parsed'
  <2>1. ParseFormData' = ParseFormData
    BY <1>1 DEF ParseFormData, ParseFormValue, Raw, Blank
  <2>2. Validate(data)' = Validate(data)
    BY DEF Validate, IsReadOnly, FieldErrors, IsZero
  <2> QED BY <1>1, <2>1, <2>2 DEF IInv, Parsed
<1>5. RefusalIsExplained'
  BY ExplanationKept DEF IInv
<1> QED BY <1>1, <1>2, <1>3, <1>4, <1>5 DEF IInv, Types
-----------------------------------------------------------------------------
(* The actions.                                                            *)

LEMMA OpenKeeps == ASSUME IInv, NEW row \in Rows \union {NoRow}, NEW listed \in BOOLEAN, Open(row, listed) PROVE IInv'
<1> DEFINE shown == FromRecord(row, listed)
<1>1. /\ row # NoRow => table[row] # Absent
      /\ form' = [row |-> row, errs |-> {}, refused |-> FALSE, listed |-> listed, asNew |-> FALSE,
                  control |-> [f \in FormFields |-> shown[f]]]
      /\ origin' = IF row = NoRow THEN Absent ELSE table[row]
      /\ step' = "open" /\ touched' = {}
      /\ layout' = layout /\ table' = table /\ loaded' = loaded /\ data' = data
      /\ step = "away" /\ UNCHANGED <<current, omitted, overtaken>>
  BY DEF Open, Rendered
<1>2. layout \in Layouts /\ (row # NoRow => table[row] \in RowSet)
  BY <1>1 DEF IInv, Types
<1>3. /\ Fields' = Fields /\ FormFields' = FormFields /\ Controls' = Controls /\ Posted' = Posted
      /\ RowSet' = RowSet
  BY <1>1, Frame
<1>4. \A f \in FormFields : /\ shown[f] = IF row = NoRow THEN Blank(f) ELSE Shown(f, table[row][f], listed)
                            /\ shown[f] \in Contents(layout.kind[f])
  <2> TAKE f \in FormFields
  <2>1. shown[f] = IF row = NoRow THEN Blank(f) ELSE Shown(f, table[row][f], listed)
    BY DEF FromRecord
  <2>2. f \in Fields
    BY <1>2, LayoutFacts
  <2> QED BY <1>2, <2>1, <2>2, BlankFits, ShownFits, RowShape
<1> HIDE DEF shown
<1>5. /\ form' = [row |-> form'.row, errs |-> form'.errs, refused |-> form'.refused, listed |-> form'.listed,
                  asNew |-> form'.asNew, control |-> form'.control]
      /\ form'.row = row /\ form'.errs = {} /\ form'.refused = FALSE /\ form'.listed = listed
      /\ form'.asNew = FALSE /\ form'.control = [f \in FormFields |-> shown[f]]
  BY <1>1
<1>6. FormShape'
  BY <1>1, <1>3, <1>4, <1>5 DEF FormShape
<1>7. Types'
  BY <1>1, <1>3, <1>6 DEF IInv, Types
<1>8. Source'
  <2>1. CASE row = NoRow
    BY <2>1, <1>1, <1>5 DEF Source
  <2>2. CASE row # NoRow
    <3>1. origin' = table[row]
      BY <1>1, <2>2
    <3>2. \A f \in Posted : f \in FormFields
      BY <1>2, LayoutFacts
    <3>3. ASSUME NEW f \in Posted PROVE form'.control[f] = Shown(f, origin[f], form.listed)'
      <4>1. form'.control[f] = Shown(f, origin'[f], form'.listed)
        BY <1>4, <1>5, <2>2, <3>1, <3>2
      <4>2. Shown(f, origin[f], form.listed)' = Shown(f, origin'[f], form'.listed)
        BY <1>1 DEF Shown
      <4> QED BY <4>1, <4>2
    <3> QED BY <1>2, <1>3, <1>5, <2>2, <3>1, <3>3 DEF Source
  <2> QED BY <2>1, <2>2
<1>9. Parsed' /\ Held'
  BY <1>1 DEF Parsed, Held
<1>10. RowsStayValid'
  BY <1>1, RowsKept DEF IInv
<1>11. RefusalIsExplained'
  BY <1>5 DEF RefusalIsExplained
<1> QED BY <1>7, <1>8, <1>9, <1>10, <1>11 DEF IInv

LEMMA TypeKeeps == ASSUME IInv, NEW f \in Fields, NEW entry \in Entries(f, form.listed), Type(f, entry) PROVE IInv'
<1>1. /\ step = "open" /\ step' = step /\ f \in Posted
      /\ form' = [form EXCEPT !.control[f] = entry] /\ touched' = touched \union {f}
      /\ layout' = layout /\ table' = table /\ loaded' = loaded /\ data' = data /\ origin' = origin
      /\ UNCHANGED <<current, omitted, overtaken>>
  BY DEF Type
<1>2. layout \in Layouts /\ FormShape /\ Source
  BY DEF IInv, Types
<1>3. /\ Fields' = Fields /\ FormFields' = FormFields /\ Controls' = Controls /\ Posted' = Posted
      /\ RowSet' = RowSet
  BY <1>1, Frame
<1>4. entry \in Contents(layout.kind[f]) /\ f \in FormFields
  BY <1>1, <1>2, EntriesFit, LayoutFacts
<1>5. /\ form'.row = form.row /\ form'.errs = form.errs /\ form'.refused = form.refused
      /\ form'.listed = form.listed /\ form'.asNew = form.asNew
      /\ form'.control = [form.control EXCEPT ![f] = entry]
      /\ form' = [row |-> form'.row, errs |-> form'.errs, refused |-> form'.refused, listed |-> form'.listed,
                  asNew |-> form'.asNew, control |-> form'.control]
  <2>1. /\ form = [row |-> form.row, errs |-> form.errs, refused |-> form.refused, listed |-> form.listed,
                   asNew |-> form.asNew, control |-> form.control]
    BY <1>2 DEF FormShape
  <2> QED BY <1>1, <2>1
<1>6. DOMAIN form.control = FormFields
  BY <1>1, <1>2 DEF FormShape
<1>7. FormShape'
  <2>1. DOMAIN form'.control = FormFields
    BY <1>5, <1>6
  <2>2. \A g \in FormFields : form'.control[g] \in Contents(layout.kind[g])
    BY <1>1, <1>2, <1>4, <1>5, <1>6 DEF FormShape
  <2> QED BY <1>1, <1>2, <1>3, <1>5, <2>1, <2>2 DEF FormShape
<1>8. Types'
  BY <1>1, <1>3, <1>7 DEF IInv, Types
<1>9. Source'
  <2>1. CASE form.row = NoRow
    BY <2>1, <1>1, <1>2, <1>5 DEF Source
  <2>2. CASE form.row # NoRow
    <3>1. origin \in RowSet /\ \A g \in Posted \ touched : form.control[g] = Shown(g, origin[g], form.listed)
      BY <1>1, <1>2, <2>2 DEF Source
    <3>2. ASSUME NEW g \in Posted \ touched' PROVE form'.control[g] = Shown(g, origin[g], form.listed)'
      <4>1. g # f /\ g \in Posted \ touched /\ g \in FormFields
        BY <1>1, <1>2, LayoutFacts
      <4>2. form'.control[g] = Shown(g, origin[g], form.listed)
        BY <1>5, <1>6, <3>1, <4>1
      <4>3. Shown(g, origin[g], form.listed)' = Shown(g, origin[g], form.listed)
        BY <1>1, <1>5 DEF Shown
      <4> QED BY <4>2, <4>3
    <3> QED BY <1>1, <1>3, <1>5, <2>2, <3>1, <3>2 DEF Source
  <2> QED BY <2>1, <2>2
<1>10. Parsed' /\ Held'
  BY <1>1 DEF Parsed, Held
<1>11. RowsStayValid'
  BY <1>1, RowsKept DEF IInv
<1>12. RefusalIsExplained'
  BY <1>1, <1>5, ExplanationKept DEF IInv
<1> QED BY <1>8, <1>9, <1>10, <1>11, <1>12 DEF IInv

LEMMA SubmitKeeps == ASSUME IInv, NEW asNew \in BOOLEAN, Submit(asNew) PROVE IInv'
<1>1. /\ step = "open" /\ step' = "sent" /\ form' = [form EXCEPT !.asNew = asNew] /\ touched' = touched
      /\ layout' = layout /\ table' = table /\ loaded' = loaded /\ data' = data /\ origin' = origin
      /\ UNCHANGED <<current, omitted, overtaken>>
  BY DEF Submit, history
<1>2. layout \in Layouts /\ FormShape /\ Source
  BY DEF IInv, Types
<1>3. /\ Fields' = Fields /\ FormFields' = FormFields /\ Controls' = Controls /\ Posted' = Posted
      /\ RowSet' = RowSet
  BY <1>1, Frame
<1>4. /\ form'.row = form.row /\ form'.errs = form.errs /\ form'.refused = form.refused
      /\ form'.listed = form.listed /\ form'.asNew = asNew /\ form'.control = form.control
      /\ form' = [row |-> form'.row, errs |-> form'.errs, refused |-> form'.refused, listed |-> form'.listed,
                  asNew |-> form'.asNew, control |-> form'.control]
  <2>1. /\ form = [row |-> form.row, errs |-> form.errs, refused |-> form.refused, listed |-> form.listed,
                   asNew |-> form.asNew, control |-> form.control]
    BY <1>2 DEF FormShape
  <2> QED BY <1>1, <2>1
<1>5. FormShape'
  BY <1>1, <1>2, <1>3, <1>4 DEF FormShape
<1>6. Types'
  BY <1>1, <1>3, <1>5 DEF IInv, Types
<1>7. Source'
  <2>1. ASSUME NEW f PROVE Shown(f, origin[f], form.listed)' = Shown(f, origin[f], form.listed)
    BY <1>1, <1>4 DEF Shown
  <2> QED BY <1>1, <1>2, <1>3, <1>4, <2>1 DEF Source
<1>8. Parsed' /\ Held'
  BY <1>1 DEF Parsed, Held
<1>9. RowsStayValid'
  BY <1>1, RowsKept DEF IInv
<1>10. RefusalIsExplained'
  BY <1>1, <1>4, ExplanationKept DEF IInv
<1> QED BY <1>6, <1>7, <1>8, <1>9, <1>10 DEF IInv

LEMMA CloseKeeps == ASSUME IInv, Close \/ Deny PROVE IInv'
<1>1. Leave /\ UNCHANGED <<layout, table, omitted>>
  BY DEF Close, Deny
<1> QED BY <1>1, LeaveUnwritten

\* The record is read and no rule is broken.
LEMMA PassKeeps ==
  ASSUME IInv, step = "sent", UNCHANGED <<layout, table, form, current, origin, touched, omitted, overtaken>>,
         form.row = NoRow \/ table[form.row] # Absent,
         loaded' = IF form.row = NoRow THEN Absent ELSE table[form.row],
         data' = ParseFormData, Validate(data') = {}, step' \in {"denied", "checked"}
  PROVE  IInv'
<1>1. layout \in Layouts /\ FormShape /\ Source
  BY DEF IInv, Types
<1>2. /\ Fields' = Fields /\ FormFields' = FormFields /\ Controls' = Controls /\ Posted' = Posted
      /\ RowSet' = RowSet
  BY Frame
<1>3. loaded' \in RowSet <=> form.row # NoRow
  BY <1>1, RowIsPresent DEF IInv, Types, FormShape
<1>4. loaded' = Absent \/ loaded' \in RowSet
  BY <1>3
<1>5. FormShape'
  BY <1>1, <1>2 DEF FormShape
<1>6. Types'
  BY <1>1, <1>2, <1>4, <1>5, LayoutFacts DEF IInv, Types, ParseFormData
<1>7. Source'
  <2>1. ASSUME NEW f PROVE Shown(f, origin[f], form.listed)' = Shown(f, origin[f], form.listed)
    BY DEF Shown
  <2> QED BY <1>1, <1>2, <2>1 DEF Source
<1>8. Parsed'
  <2>1. ParseFormData' = ParseFormData
    BY <1>2 DEF ParseFormData, ParseFormValue, Raw, Blank
  <2>2. Validate(data)' = Validate(data')
    BY DEF Validate, IsReadOnly, FieldErrors, IsZero
  <2> QED BY <1>2, <1>3, <2>1, <2>2 DEF Parsed
<1>9. RowsStayValid'
  BY RowsKept DEF IInv
<1>10. RefusalIsExplained'
  BY ExplanationKept DEF IInv
<1>11. Held'
  BY DEF Held
<1> QED BY <1>6, <1>7, <1>8, <1>9, <1>10, <1>11 DEF IInv

\* What a check does when it shows the form again.
LEMMA CheckRefuses ==
  ASSUME IInv, NEW listed \in BOOLEAN, Check(listed), step' = "open"
  PROVE  /\ IInv'
         /\ \A f \in Posted : ~IsRelation(f) => form'.control[f] = form.control[f]
<1>1. ~(form.row # NoRow /\ table[form.row] = Absent)
  BY DEF Check, Leave
<1>2. /\ step = "sent" /\ UNCHANGED <<layout, table, omitted>>
      /\ loaded' = IF form.row = NoRow THEN Absent ELSE table[form.row]
      /\ data' = ParseFormData
      /\ Validate(data') # {} /\ Refuse(Validate(data'), listed)
  BY <1>1 DEF Check
<1>3. layout \in Layouts /\ form.row \in Rows \union {NoRow} /\ table \in [Rows -> RowSet \union {Absent}]
  BY DEF IInv, Types, FormShape
<1>4. loaded' = Absent \/ loaded' \in RowSet
  BY <1>1, <1>2, <1>3
<1>5. form.row # NoRow => loaded' \in RowSet
  BY <1>1, <1>2, <1>3
<1>6. Validate(data') \subseteq layout.flat /\ layout.flat \subseteq Fields
  BY <1>3, LayoutFacts DEF Validate
<1>7. PICK errs : errs = Validate(data')
  OBVIOUS
<1>8. errs \subseteq Fields \union {""} /\ Explains(errs)
  BY <1>2, <1>6, <1>7 DEF Explains, FormFields
<1> QED BY <1>2, <1>4, <1>5, <1>7, <1>8, RefuseKeeps

LEMMA CheckKeeps == ASSUME IInv, NEW listed \in BOOLEAN, Check(listed) PROVE IInv'
<1>1. step = "sent" /\ UNCHANGED <<layout, table, omitted>>
  BY DEF Check
<1>2. CASE form.row # NoRow /\ table[form.row] = Absent
  <2>1. Leave
    BY <1>2 DEF Check
  <2> QED BY <1>1, <2>1, LeaveUnwritten
<1>3. CASE ~(form.row # NoRow /\ table[form.row] = Absent)
  <2>1. /\ loaded' = IF form.row = NoRow THEN Absent ELSE table[form.row]
        /\ data' = ParseFormData
    BY <1>3 DEF Check
  <2>2. CASE Validate(data') # {}
    <3>1. step' = "open"
      BY <1>3, <2>2 DEF Check, Refuse
    <3> QED BY <3>1, CheckRefuses
  <2>3. CASE Validate(data') = {}
    <3>1. step' \in {"denied", "checked"} /\ UNCHANGED <<form, current, origin, touched, overtaken>>
      BY <1>3, <2>3 DEF Check
    <3> QED BY <1>1, <1>3, <2>1, <2>3, <3>1, PassKeeps
  <2> QED BY <2>2, <2>3
<1> QED BY <1>2, <1>3

LEMMA RefuseSaveKeeps ==
  ASSUME IInv, NEW listed \in BOOLEAN, RefuseSave(listed)
  PROVE  /\ IInv'
         /\ \A f \in Posted : ~IsRelation(f) => form'.control[f] = form.control[f]
<1>1. step \in {"checked", "writing"} /\ UNCHANGED <<layout, table, loaded, data, omitted>>
  BY DEF RefuseSave, Writes
<1>2. PICK errs \in {NonField, Unconvertible(data)} : errs # {} /\ Refuse(errs, listed)
  BY DEF RefuseSave, NonField
<1>3. /\ layout \in Layouts /\ data = ParseFormData
      /\ loaded = Absent \/ loaded \in RowSet
      /\ form.row # NoRow => loaded \in RowSet
  BY <1>1 DEF IInv, Types, Parsed
<1>4. Unconvertible(data) \subseteq Controls
  BY <1>3 DEF Unconvertible, ParseFormData
<1>5. errs \subseteq Fields \union {""} /\ errs \intersect (FormFields \union {""}) # {}
  BY <1>2, <1>3, <1>4, LayoutFacts DEF NonField
<1>6. Explains(errs)
  BY <1>5 DEF Explains
<1> QED BY <1>1, <1>2, <1>3, <1>5, <1>6, RefuseKeeps

\* The row an insert makes.
LEMMA InsertedRow ==
  ASSUME IInv, step = "checked", Unconvertible(data) = {}
  PROVE  /\ Inserted(data) \in RowSet
         /\ \A f \in Controls : \/ Inserted(data)[f] = Convert(f, data[f])
                                \/ (data[f] = Nil /\ HasDefault(f) /\ Inserted(data)[f] = layout.default[f])
         /\ \A f \in Controls : data[f] = Nil /\ HasDefault(f) => Inserted(data)[f] = layout.default[f]
<1> DEFINE new == Assigned([f \in Fields |-> Zero(layout.kind[f])], data)
<1>1. layout \in Layouts /\ DOMAIN data = Controls
  BY DEF IInv, Types, Parsed, ParseFormData
<1>2. \A f \in Fields : new[f] = IF f \in Controls THEN Convert(f, data[f]) ELSE Zero(layout.kind[f])
  BY <1>1 DEF Assigned
<1>3. \A f \in Fields : Inserted(data)[f] = IF HasDefault(f) /\ new[f] = Zero(layout.kind[f]) /\ f \notin ExplicitZeros(data)
                                            THEN layout.default[f] ELSE new[f]
  BY DEF Inserted
<1>4. DOMAIN Inserted(data) = Fields /\ Inserted(data) = [f \in Fields |-> Inserted(data)[f]]
  BY DEF Inserted
<1> HIDE DEF new
<1>5. \A f \in Controls : f \in ExplicitZeros(data) <=> HasDefault(f) /\ data[f] # Nil
  BY <1>1 DEF ExplicitZeros
<1>6. \A f \in Fields : Zero(layout.kind[f]) \in Column(layout.kind[f])
  BY <1>1, LayoutFacts DEF Zero, Column, Kinds, Choices
<1>7. \A f \in Fields : Inserted(data)[f] \in Column(layout.kind[f])
  <2> TAKE f \in Fields
  <2>1. new[f] \in Column(layout.kind[f])
    BY <1>2, <1>6, Conversions
  <2>2. HasDefault(f) => layout.default[f] \in Column(layout.kind[f])
    BY <1>1, LayoutFacts
  <2> QED BY <1>3, <2>1, <2>2
<1>8. Inserted(data) \in RowSet
  BY <1>4, <1>7, RowShape
<1>9. ASSUME NEW f \in Controls
      PROVE  /\ \/ Inserted(data)[f] = Convert(f, data[f])
                \/ (data[f] = Nil /\ HasDefault(f) /\ Inserted(data)[f] = layout.default[f])
             /\ data[f] = Nil /\ HasDefault(f) => Inserted(data)[f] = layout.default[f]
  <2>1. f \in Fields
    BY <1>1, LayoutFacts
  <2> QED BY <1>2, <1>3, <1>5, <2>1, Conversions
<1> QED BY <1>8, <1>9

LEMMA OmittedFields == ASSUME IInv PROVE Omitted \subseteq Fields
BY LayoutFacts DEF IInv, Types, Omitted

LEMMA CreateKeeps == ASSUME IInv, NEW row \in Rows, Create(row) PROVE IInv'
<1>1. /\ step = "checked" /\ Unconvertible(data) = {} /\ Leave /\ layout' = layout
      /\ table' = [table EXCEPT ![row] = Inserted(data)] /\ omitted' = [omitted EXCEPT ![row] = Omitted]
  BY DEF Create
<1>2. table \in [Rows -> RowSet \union {Absent}] /\ Inserted(data) \in RowSet
  BY <1>1, InsertedRow DEF IInv, Types
<1>3. layout.sets = {} => Sane(Inserted(data), Omitted)
  BY <1>1, InsertedRow, StoredIsSane
<1>4. omitted \in [Rows -> SUBSET Fields] /\ Omitted \subseteq Fields
  BY OmittedFields DEF IInv, Types
<1>5. layout.sets = {} => \A r \in Rows : table'[r] = Absent \/ Sane(table'[r], omitted'[r])
  BY <1>1, <1>2, <1>3, <1>4 DEF IInv, RowsStayValid, Sane
<1> QED BY <1>1, <1>2, <1>4, <1>5, LeaveKeeps

LEMMA UpdatedRow ==
  ASSUME IInv, step \in {"checked", "writing"}, Unconvertible(data) = {}, NEW row \in RowSet
  PROVE  /\ Assigned(row, data) \in RowSet
         /\ \A f \in Fields : Assigned(row, data)[f] = IF f \in Controls THEN Convert(f, data[f]) ELSE row[f]
<1>1. layout \in Layouts /\ DOMAIN data = Controls
  BY DEF IInv, Types, Parsed, ParseFormData
<1>2. \A f \in Fields : Assigned(row, data)[f] = IF f \in Controls THEN Convert(f, data[f]) ELSE row[f]
  BY <1>1 DEF Assigned
<1>3. DOMAIN Assigned(row, data) = Fields /\ Assigned(row, data) = [f \in Fields |-> Assigned(row, data)[f]]
  BY DEF Assigned
<1>4. \A f \in Fields : Assigned(row, data)[f] \in Column(layout.kind[f])
  BY <1>2, Conversions, RowShape
<1> QED BY <1>2, <1>3, <1>4, RowShape

LEMMA UpdateLoadKeeps == ASSUME IInv, UpdateLoad PROVE IInv'
<1>1. /\ step = "checked" /\ step' = "writing" /\ ~Creating /\ Unconvertible(data) = {}
      /\ form.row # NoRow /\ table[form.row] # Absent /\ current' = table[form.row]
      /\ UNCHANGED <<layout, table, form, loaded, data, origin, touched, omitted, overtaken>>
  BY DEF UpdateLoad, Creating, Vanished, history
<1>2. /\ Fields' = Fields /\ FormFields' = FormFields /\ Controls' = Controls /\ Posted' = Posted
      /\ RowSet' = RowSet
  BY <1>1, Frame
<1>3. table[form.row] \in RowSet /\ FormShape /\ Source /\ Parsed
  BY <1>1 DEF IInv, Types, FormShape
<1>4. FormShape'
  BY <1>1, <1>2, <1>3 DEF FormShape
<1>5. Types'
  BY <1>1, <1>2, <1>3, <1>4 DEF IInv, Types
<1>6. Source'
  <2>1. ASSUME NEW f PROVE Shown(f, origin[f], form.listed)' = Shown(f, origin[f], form.listed)
    BY <1>1 DEF Shown
  <2> QED BY <1>1, <1>2, <1>3, <2>1 DEF Source
<1>7. Parsed'
  <2>1. ParseFormData' = ParseFormData
    BY <1>1, <1>2 DEF ParseFormData, ParseFormValue, Raw, Blank
  <2>2. Validate(data)' = Validate(data)
    BY <1>1 DEF Validate, IsReadOnly, FieldErrors, IsZero
  <2> QED BY <1>1, <1>2, <1>3, <2>1, <2>2 DEF Parsed
<1>8. Held'
  BY <1>1 DEF Held, Creating, Unconvertible, Convert, Zero
<1>9. RowsStayValid' /\ RefusalIsExplained'
  BY <1>1, RowsKept, ExplanationKept DEF IInv
<1> QED BY <1>5, <1>6, <1>7, <1>8, <1>9 DEF IInv

\* What the UPDATE finds.
LEMMA Writing ==
  ASSUME IInv, step = "writing", Writes
  PROVE  /\ Unconvertible(data) = {} /\ form.row \in Rows /\ table[form.row] \in RowSet
         /\ current \in RowSet /\ (overtaken \/ table[form.row] = current)
BY DEF IInv, Types, FormShape, Held, Writes, Vanished, Creating

LEMMA UpdateWriteKeeps == ASSUME IInv, UpdateWrite PROVE IInv'
<1>1. step = "writing" /\ Leave /\ layout' = layout
  BY DEF UpdateWrite
<1>2. CASE ~Writes
  <2>1. UNCHANGED <<table, omitted>>
    BY <1>2 DEF UpdateWrite
  <2> QED BY <1>1, <2>1, LeaveUnwritten
<1>3. CASE Writes
  <2> DEFINE new == Assigned(current, data)
  <2>1. /\ table' = [table EXCEPT ![form.row] = new]
        /\ omitted' = [omitted EXCEPT ![form.row] = Omitted]
    BY <1>3 DEF UpdateWrite
  <2>2. /\ table \in [Rows -> RowSet \union {Absent}] /\ omitted \in [Rows -> SUBSET Fields]
        /\ Omitted \subseteq Fields
    BY OmittedFields DEF IInv, Types
  <2>3. Unconvertible(data) = {} /\ form.row \in Rows /\ current \in RowSet
    BY <1>1, <1>3, Writing
  <2>4. new \in RowSet /\ \A f \in Fields : new[f] = IF f \in Controls THEN Convert(f, data[f]) ELSE current[f]
    BY <1>1, <2>3, UpdatedRow
  <2>5. Controls \subseteq Fields
    BY LayoutFacts DEF IInv, Types
  <2> HIDE DEF new
  <2>6. layout.sets = {} => Sane(new, Omitted)
    BY <1>1, <2>3, <2>4, <2>5, StoredIsSane
  <2>7. layout.sets = {} => \A r \in Rows : table'[r] = Absent \/ Sane(table'[r], omitted'[r])
    BY <2>1, <2>2, <2>6 DEF IInv, RowsStayValid, Sane
  <2> QED BY <1>1, <2>1, <2>2, <2>3, <2>4, <2>7, LeaveKeeps
<1> QED BY <1>2, <1>3

LEMMA ElsewhereKeeps == ASSUME IInv, NEW row \in Rows, Elsewhere(row) PROVE IInv'
<1>1. /\ table[row] # Absent /\ UNCHANGED <<layout, step, form, loaded, data, current, origin, touched>>
      /\ overtaken' = (overtaken \/ (step = "writing" /\ row = form.row))
  BY DEF Elsewhere
<1>2. /\ layout' = layout /\ table \in [Rows -> RowSet \union {Absent}] /\ table[row] \in RowSet
      /\ omitted \in [Rows -> SUBSET Fields] /\ RowSet' = RowSet /\ Fields' = Fields /\ Controls' = Controls
  BY <1>1, Frame DEF IInv, Types
<1>3. PICK new, empty :
         /\ table' = [table EXCEPT ![row] = new] /\ omitted' = [omitted EXCEPT ![row] = empty]
         /\ new \in RowSet \union {Absent} /\ empty \subseteq Fields
         /\ new = Absent \/ (layout.sets = {} => Sane(new, empty))
  <2>1. CASE table' = [table EXCEPT ![row] = Absent] /\ omitted' = [omitted EXCEPT ![row] = {}]
    BY <2>1
  <2>2. CASE \E f \in Fields : \E v \in Column(layout.kind[f]) \ {table[row][f]} :
               /\ f \in Controls => Accepted(f, v)
               /\ table' = [table EXCEPT ![row][f] = v]
               /\ omitted' = [omitted EXCEPT ![row] = @ \ {f}]
    <3>0. PICK f \in Fields : \E v \in Column(layout.kind[f]) :
               /\ f \in Controls => Accepted(f, v)
               /\ table' = [table EXCEPT ![row] = [table[row] EXCEPT ![f] = v]]
               /\ omitted' = [omitted EXCEPT ![row] = omitted[row] \ {f}]
      BY <2>2, <1>2
    <3>1. PICK v \in Column(layout.kind[f]) :
               /\ f \in Controls => Accepted(f, v)
               /\ table' = [table EXCEPT ![row] = [table[row] EXCEPT ![f] = v]]
               /\ omitted' = [omitted EXCEPT ![row] = omitted[row] \ {f}]
      BY <3>0
    <3> DEFINE new == [table[row] EXCEPT ![f] = v]
    <3>2. DOMAIN table[row] = Fields /\ \A g \in Fields : table[row][g] \in Column(layout.kind[g])
      BY <1>2, RowShape
    <3>3. DOMAIN new = Fields /\ new = [g \in Fields |-> new[g]] /\ \A g \in Fields : new[g] \in Column(layout.kind[g])
      BY <3>2
    <3>4. new \in RowSet
      BY <3>3, RowShape
    <3>5. new[f] = v /\ \A g \in Fields \ {f} : new[g] = table[row][g]
      BY <3>2
    <3>6. Controls \subseteq Fields
      BY LayoutFacts DEF IInv, Types
    <3> HIDE DEF new
    <3>7. ASSUME layout.sets = {} PROVE Sane(new, omitted[row] \ {f})
      <4>1. Sane(table[row], omitted[row])
        BY <1>1, <3>7 DEF IInv, RowsStayValid, Sane
      <4> QED BY <3>1, <3>5, <3>6, <4>1 DEF Sane, Accepted
    <3>8. omitted[row] \ {f} \subseteq Fields
      BY <1>2
    <3> QED BY <3>1, <3>0, <3>4, <3>7, <3>8 DEF new
  <2> QED BY <2>1, <2>2 DEF Elsewhere
<1>4. table' \in [Rows -> RowSet \union {Absent}] /\ omitted' \in [Rows -> SUBSET Fields]
  BY <1>2, <1>3
<1>5. RowsStayValid'
  <2>1. layout.sets = {} => \A r \in Rows : table'[r] = Absent \/ Sane(table'[r], omitted'[r])
    BY <1>2, <1>3 DEF IInv, RowsStayValid, Sane
  <2> QED BY <1>2, <2>1 DEF RowsStayValid, Sane, Missing, HasDefault
<1>6. Held'
  <2> SUFFICES ASSUME step = "writing" PROVE Held'
    BY <1>1 DEF Held
  <2>1. Held /\ overtaken \in BOOLEAN
    BY DEF IInv, Types
  <2>2. overtaken' \/ table'[form.row] = current'
    <3>1. CASE overtaken \/ row = form.row
      BY <1>1, <2>1, <3>1
    <3>2. CASE ~overtaken /\ row # form.row
      <4>1. table[form.row] = current
        BY <2>1, <3>2 DEF Held
      <4>2. table'[form.row] = table[form.row]
        BY <1>3, <3>2
      <4> QED BY <1>1, <4>1, <4>2
    <3> QED BY <3>1, <3>2
  <2>3. Unconvertible(data)' = Unconvertible(data) /\ Creating' = Creating
    BY <1>1 DEF Unconvertible, Convert, Zero, Creating
  <2> QED BY <1>1, <2>1, <2>2, <2>3 DEF Held
<1>7. /\ overtaken' \in BOOLEAN
      /\ (IF step = "writing" THEN current \in RowSet ELSE current = Absent /\ ~overtaken)'
  BY <1>1, <1>2 DEF IInv, Types
<1> QED BY <1>1, <1>2, <1>4, <1>5, <1>6, <1>7, FormUnchanged DEF IInv, Types
-----------------------------------------------------------------------------
(* The theorems.                                                           *)

LEMMA InitIInv == Init => IInv
<1> SUFFICES ASSUME Init PROVE IInv
  OBVIOUS
<1>1. /\ layout \in Layouts /\ step = "away" /\ form = Closed /\ loaded = Absent
      /\ data = [f \in {} |-> Nil] /\ touched = {}
      /\ current = Absent /\ overtaken = FALSE /\ omitted = [r \in Rows |-> {}]
  BY DEF Init
<1>2. PICK first \in Rows, row \in {s \in RowSet : Valid(s)} :
         table = [r \in Rows |-> IF r = first THEN row ELSE Absent]
  BY DEF Init
<1>3. FormShape
  BY <1>1 DEF FormShape, Closed
<1>4. Types
  BY <1>1, <1>2, <1>3 DEF Types
<1>5. RowsStayValid
  BY <1>1, <1>2 DEF RowsStayValid, Valid, Accepted
<1> QED BY <1>1, <1>4, <1>5 DEF IInv, Source, Parsed, Held, RefusalIsExplained, Closed

LEMMA NextIInv == IInv /\ [Next]_vars => IInv'
<1> SUFFICES ASSUME IInv, [Next]_vars PROVE IInv'
  OBVIOUS
<1>1. CASE Next
  BY <1>1, OpenKeeps, TypeKeeps, SubmitKeeps, CloseKeeps, CheckKeeps, RefuseSaveKeeps, CreateKeeps,
     UpdateLoadKeeps, UpdateWriteKeeps, ElsewhereKeeps DEF Next
<1>2. CASE UNCHANGED vars
  <2>1. UNCHANGED <<layout, step, form, loaded, data, origin, touched>>
        /\ UNCHANGED <<layout, table, current, omitted, overtaken>>
    BY <1>2 DEF vars, history
  <2>2. RowSet' = RowSet /\ Fields' = Fields
    BY <2>1, Frame
  <2>3. RowsStayValid'
    BY <2>1, RowsKept DEF IInv
  <2>4. Held'
    BY <2>1 DEF IInv, Held, Creating, Unconvertible, Convert, Zero
  <2> QED BY <2>1, <2>2, <2>3, <2>4, FormUnchanged DEF IInv, Types
<1> QED BY <1>1, <1>2

LEMMA Invariance == Spec => []IInv
BY InitIInv, NextIInv, PTL DEF Spec

(* Every variable holds what the code can put there: columns values of     *)
(* their type, controls what they can show, data fields of the form.       *)
THEOREM TypesAlways == Spec => []TypeOK
<1>1. IInv => TypeOK
  BY DEF IInv, Types, FormShape, TypeOK
<1> QED BY <1>1, Invariance, PTL

(* With a flat field list no sequence of creates, edits and other writers' *)
(* changes leaves a required column zero, or puts a value in a column that *)
(* its validators refuse; but for what an empty control comes to where the *)
(* validators, asked about nil, had nothing to say.                        *)
THEOREM RowsAlwaysValid == Spec => []RowsStayValid
<1>1. IInv => RowsStayValid
  BY DEF IInv
<1> QED BY <1>1, Invariance, PTL

(* A refused save always has a message the page renders, for any           *)
(* declaration; but for complaints about names of a flat list that the     *)
(* fieldsets, which replace it, do not have.                               *)
THEOREM RefusalsAreExplained == Spec => []RefusalIsExplained
<1>1. IInv => RefusalIsExplained
  BY DEF IInv
<1> QED BY <1>1, Invariance, PTL

(* Whichever check refuses a save, the form shows again what was submitted *)
(* in every control but a relation's.                                      *)
THEOREM EntriesSurvive == Spec => EntrySurvivesRefusal
<1> DEFINE Kept == (step \in {"sent", "checked", "writing"}) /\ step' = "open"
                     => \A f \in Posted : ~IsRelation(f) => form'.control[f] = form.control[f]
<1>1. IInv /\ [Next]_vars => Kept
  <2> SUFFICES ASSUME IInv, [Next]_vars, step \in {"sent", "checked", "writing"}, step' = "open"
               PROVE  \A f \in Posted : ~IsRelation(f) => form'.control[f] = form.control[f]
    OBVIOUS
  <2>1. \/ \E listed \in BOOLEAN : Check(listed) \/ RefuseSave(listed)
        \/ form' = form
    <3>1. step \notin {"away", "open", "denied"} /\ step' # "away" /\ step' # "sent"
      OBVIOUS
    <3> QED BY <3>1 DEF Next, vars, Open, Type, Submit, Close, Deny, Create, UpdateLoad, UpdateWrite, Elsewhere, Leave
  <2>2. CASE form' = form
    BY <2>2
  <2>3. ASSUME NEW listed \in BOOLEAN, Check(listed)
        PROVE  \A f \in Posted : ~IsRelation(f) => form'.control[f] = form.control[f]
    BY <2>3, CheckRefuses
  <2>4. ASSUME NEW listed \in BOOLEAN, RefuseSave(listed)
        PROVE  \A f \in Posted : ~IsRelation(f) => form'.control[f] = form.control[f]
    BY <2>4, RefuseSaveKeeps
  <2> QED BY <2>1, <2>2, <2>3, <2>4
<1>2. [][Kept]_vars => EntrySurvivesRefusal
  BY PTL DEF EntrySurvivesRefusal
<1> QED BY <1>1, <1>2, Invariance, PTL DEF Spec

\* Only an insert ends a create, and only an UPDATE an edit.
LEMMA SavedBy ==
  ASSUME [Next]_vars
  PROVE  /\ Created => \E row \in Rows : Create(row)
         /\ Updated => UpdateWrite
BY DEF Created, Updated, Next, vars, Open, Type, Submit, Close, Check, RefuseSave, Refuse, Deny, Create, UpdateLoad,
       UpdateWrite, Elsewhere, Leave

(* Saving an edit writes back what an untouched control was rendered from, *)
(* if the control can show it, after any number of refusals, and leaves    *)
(* every column outside the form as another writer may just have put it,   *)
(* unless that was after Update had read the row.                          *)
THEOREM UntouchedColumnsKept == Spec => UntouchedIsKept
<1> DEFINE Kept == Updated
                     => \A f \in Fields \ touched :
                           LET now == table'[form.row][f]
                           IN  IF f \in Controls
                               THEN Faithful(f) => now = origin[f]
                               ELSE now = table[form.row][f] \/ (overtaken /\ now = current[f])
<1>1. IInv /\ [Next]_vars => Kept
  <2> SUFFICES ASSUME IInv, [Next]_vars, Updated, NEW f \in Fields \ touched
               PROVE  IF f \in Controls
                      THEN Faithful(f) => table'[form.row][f] = origin[f]
                      ELSE \/ table'[form.row][f] = table[form.row][f]
                           \/ (overtaken /\ table'[form.row][f] = current[f])
    OBVIOUS
  <2>1. UpdateWrite /\ step = "writing" /\ table[form.row] # Absent
    BY SavedBy DEF Updated
  <2>2. layout \in Layouts /\ table \in [Rows -> RowSet \union {Absent}] /\ data = ParseFormData
        /\ ~Creating /\ Unconvertible(data) = {}
    BY <2>1 DEF IInv, Types, Parsed, Held
  <2>3. CASE ~Writes
    <3>1. DOMAIN data = {}
      BY <2>1, <2>2, <2>3 DEF Writes, Vanished
    <3>2. f \notin Controls
      BY <2>2, <3>1 DEF ParseFormData
    <3> QED BY <2>1, <2>3, <3>2 DEF UpdateWrite
  <2>4. CASE Writes
    <3>1. /\ form.row \in Rows /\ current \in RowSet /\ (overtaken \/ table[form.row] = current)
          /\ table' = [table EXCEPT ![form.row] = Assigned(current, data)]
      BY <2>1, <2>4, Writing DEF UpdateWrite
    <3>2. table'[form.row][f] = IF f \in Controls THEN Convert(f, data[f]) ELSE current[f]
      BY <2>1, <2>2, <3>1, UpdatedRow
    <3>3. ASSUME f \in Controls, Faithful(f) PROVE Convert(f, data[f]) = origin[f]
      <4>1. f \in Posted
        BY <3>3 DEF Faithful, Posted
      <4>2. data[f] = ParseFormValue(f, form.control[f])
        BY <2>1, <3>3, <4>1, Posts
      <4>3. origin \in RowSet /\ form.control[f] = Shown(f, origin[f], form.listed)
        BY <2>1, <2>2, <4>1 DEF IInv, Source, Creating
      <4>4. origin[f] \in Column(layout.kind[f])
        BY <4>3, RowShape
      <4> QED BY <2>2, <3>3, <4>2, <4>3, <4>4, RoundTrip
    <3> QED BY <3>1, <3>2, <3>3
  <2> QED BY <2>3, <2>4
<1>2. [][Kept]_vars => UntouchedIsKept
  BY PTL DEF UntouchedIsKept
<1> QED BY <1>1, <1>2, Invariance, PTL DEF Spec

(* A create or a "Save as new" adds one row that has what the controls     *)
(* showed, zeros and unticked switches over a default included, and changes*)
(* no other row.                                                           *)
THEOREM CreatesAsShown == Spec => CreatedAsShown
<1> DEFINE Added == Created
                      => \E r \in Rows :
                            /\ table[r] = Absent
                            /\ \A other \in Rows \ {r} : table'[other] = table[other]
                            /\ \A f \in Posted : table'[r][f] = Meaning(f)
<1>1. IInv /\ [Next]_vars => Added
  <2> SUFFICES ASSUME IInv, [Next]_vars, Created
               PROVE  \E r \in Rows : /\ table[r] = Absent
                                      /\ \A other \in Rows \ {r} : table'[other] = table[other]
                                      /\ \A f \in Posted : table'[r][f] = Meaning(f)
    OBVIOUS
  <2>1. PICK row \in Rows : Create(row)
    BY SavedBy
  <2>2. /\ step = "checked" /\ Unconvertible(data) = {} /\ table[row] = Absent
        /\ table' = [table EXCEPT ![row] = Inserted(data)]
    BY <2>1 DEF Create
  <2>3. layout \in Layouts /\ table \in [Rows -> RowSet \union {Absent}]
    BY DEF IInv, Types
  <2>4. ASSUME NEW f \in Posted PROVE Inserted(data)[f] = Meaning(f)
    <3>1. f \in Controls /\ f \in Fields
      BY <2>3, LayoutFacts
    <3>2. Raw(f) = form.control[f] /\ form.control[f] \in Contents(layout.kind[f])
      BY <2>2, <3>1, Posts
    <3>3. CASE form.control[f] = ""
      <4>1. data[f] = Nil /\ Convert(f, data[f]) = Zero(layout.kind[f])
        BY <2>2, <3>1, <3>2, <3>3, Conversions
      <4>2. layout.kind[f] # "switch"
        BY <2>3, <3>1, <3>2, <3>3, ContentsAreText
      <4>3. CASE HasDefault(f)
        BY <2>2, <3>1, <3>3, <4>1, <4>3, InsertedRow DEF Meaning
      <4>4. CASE ~HasDefault(f)
        <5>1. Inserted(data)[f] = Zero(layout.kind[f])
          BY <2>2, <3>1, <4>1, <4>4, InsertedRow
        <5> QED BY <3>3, <4>2, <4>4, <5>1 DEF Meaning, Zero
      <4> QED BY <4>3, <4>4
    <3>4. CASE form.control[f] # ""
      <4>1. data[f] # Nil /\ Convert(f, data[f]) = form.control[f]
        BY <2>2, <3>1, <3>2, <3>4, Conversions
      <4>2. Inserted(data)[f] = form.control[f]
        BY <2>2, <3>1, <4>1, InsertedRow
      <4> QED BY <3>4, <4>2 DEF Meaning
    <3> QED BY <3>3, <3>4
  <2>5. \A f \in Posted : table'[row][f] = Meaning(f)
    BY <2>2, <2>3, <2>4
  <2> QED BY <2>2, <2>3, <2>5
<1>2. [][Added]_vars => CreatedAsShown
  BY PTL DEF CreatedAsShown
<1> QED BY <1>1, <1>2, Invariance, PTL DEF Spec

(* With a flat field list, what reaches the create or the update has passed*)
(* every rule of every posted field, as docs/model-admin.md says: the      *)
(* finding about it is due to fieldsets alone.                             *)
THEOREM FlatListsAreValidated == Spec => [](layout.sets = {} => WritesAreValidated)
<1>1. IInv => (layout.sets = {} => WritesAreValidated)
  <2> SUFFICES ASSUME IInv, layout.sets = {}, step = "checked", NEW f \in Posted, FieldErrors(f, data[f])
               PROVE  FALSE
    BY DEF WritesAreValidated
  <2>1. data = ParseFormData /\ Validate(data) = {}
    BY DEF IInv, Parsed
  <2>2. f \in layout.flat /\ ~IsReadOnly(f) /\ f \in DOMAIN data
    BY <2>1 DEF Posted, Controls, FormFields, ParseFormData
  <2> QED BY <2>1, <2>2 DEF Validate
<1> QED BY <1>1, Invariance, PTL
=============================================================================
