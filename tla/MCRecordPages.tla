--------------------------- MODULE MCRecordPages ---------------------------
(* A small instance of RecordPages. *)
EXTENDS RecordPages, TLC

All == {"list", "view", "create", "update", "delete", "export",
        "child.view", "child.create", "child.update", "child.delete"}

MCSites == {[caps |-> All \ {"list"}, saveAs |-> TRUE, login |-> TRUE],
            [caps |-> All \ {"list", "create", "child.delete"}, saveAs |-> TRUE, login |-> TRUE],
            [caps |-> All \ {"list", "delete", "child.view"}, saveAs |-> FALSE, login |-> FALSE]}

\* Everything, or all but one.
MCRoles == {All} \cup {All \ {p} : p \in All}

MCRules == {{}, {"update"}, {"create"}, {"view", "delete"}}

Budget(types, clicks, elsewheres, regrants, sessions) ==
  [type |-> types, click |-> clicks, elsewhere |-> elsewheres, regrant |-> regrants, session |-> sessions]

MCBudgets == {Budget(2, 3, 0, 0, 0), Budget(1, 3, 1, 0, 0), Budget(0, 3, 0, 1, 0), Budget(1, 3, 0, 0, 2)}

MCSymmetry == Permutations(Children) \cup Permutations(Values)
=============================================================================
