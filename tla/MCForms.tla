------------------------------ MODULE MCForms ------------------------------
(* Forms on small tables: two rows, two related records, seven layouts that *)
(* between them have every kind of column, a required, a read-only, a       *)
(* disabled and a defaulted field, a validator that lets nil pass,          *)
(* fieldsets, and a flat list left over beside them.                        *)
EXTENDS Forms, TLC

Nothing(fields) == [f \in fields |-> {}]
NoDefaults == [f \in {} |-> ""]

Article ==
    [kind |-> ("Title" :> "text" @@ "Count" :> "number" @@ "Active" :> "switch"),
     flat |-> {"Title", "Count", "Active"}, sets |-> {}, readOnly |-> {}, disabled |-> {},
     required |-> {"Title"}, rejected |-> Nothing({"Count", "Active"})
                                             @@ ("Title" :> {"b"}),
     default |-> ("Count" :> "1" @@ "Active" :> "on"), viewable |-> TRUE, creatable |-> TRUE]

Ticket ==
    [kind |-> ("Title" :> "text" @@ "Owner" :> "relation" @@ "Due" :> "moment"),
     flat |-> {"Title", "Owner", "Due"}, sets |-> {}, readOnly |-> {"Due"}, disabled |-> {},
     required |-> {"Title", "Due"}, rejected |-> Nothing({"Title", "Owner", "Due"}),
     default |-> NoDefaults, viewable |-> TRUE, creatable |-> FALSE]

Stock ==
    [kind |-> ("Count" :> "number" @@ "Limit" :> "pointer" @@ "State" :> "choice"),
     flat |-> {"Count", "Limit", "State"}, sets |-> {}, readOnly |-> {}, disabled |-> {"State"},
     required |-> {"Count"}, rejected |-> Nothing({"Count", "Limit", "State"}),
     default |-> NoDefaults, viewable |-> TRUE, creatable |-> TRUE]

Grouped ==
    [kind |-> ("Title" :> "text" @@ "Due" :> "moment" @@ "State" :> "choice"),
     flat |-> {}, sets |-> {"Title", "Due"}, readOnly |-> {}, disabled |-> {},
     required |-> {"Title"}, rejected |-> Nothing({"Title", "Due", "State"}),
     default |-> NoDefaults, viewable |-> TRUE, creatable |-> TRUE]

Hidden == [Ticket EXCEPT !.viewable = FALSE, !.creatable = TRUE, !.readOnly = {}]

\* At least 1, says a validator that does not mind a missing score.
Score ==
    [kind |-> ("Count" :> "number" @@ "Active" :> "switch"),
     flat |-> {"Count", "Active"}, sets |-> {}, readOnly |-> {}, disabled |-> {},
     required |-> {}, rejected |-> ("Count" :> {"0"} @@ "Active" :> {}),
     default |-> NoDefaults, viewable |-> TRUE, creatable |-> TRUE]

\* The flat list still requires what the fieldsets dropped.
Leftover ==
    [kind |-> ("Title" :> "text" @@ "State" :> "choice"),
     flat |-> {"Title", "State"}, sets |-> {"Title"}, readOnly |-> {}, disabled |-> {},
     required |-> {"Title", "State"}, rejected |-> Nothing({"Title", "State"}),
     default |-> NoDefaults, viewable |-> TRUE, creatable |-> TRUE]

MCLayouts == {Article, Ticket, Stock, Grouped, Hidden, Score, Leftover}

MCSymmetry == Permutations(Rows)
=============================================================================
