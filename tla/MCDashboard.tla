---------------------------- MODULE MCDashboard -----------------------------
(* Small instances of Dashboard for TLC.                                   *)
EXTENDS Dashboard

Widget(key, kind, deps, guarded) ==
  [key |-> key, kind |-> kind, deps |-> deps, guarded |-> guarded, searchable |-> FALSE,
   panels |-> {"metric", "table"}, size |-> 2, total |-> FALSE]

Sales(total) == [Widget("a", "table", Nil, total) EXCEPT !.searchable = TRUE, !.total = total]

\* A table whose host knows the total and one whose host does not, a tabbed
\* breakdown beside a card that renders with the page, tiles that never reload,
\* and two dashboards that Validate refuses.
MCDashboards ==
  { <<Sales(TRUE)>>, <<Sales(FALSE)>>,
    <<Widget("a", "tabs", {"store"}, TRUE), Widget("b", "metric", Nil, FALSE)>>,
    <<Widget("a", "tiles", {}, FALSE), Widget("b", "tiles", {"period"}, TRUE)>>,
    <<Widget("a", "tabs", {"period"}, FALSE), Widget("a", "tabs", {"store"}, FALSE)>>,
    <<Widget("a", "table", {"unknown"}, FALSE)>> }

MCRows == << [store |-> "s", day |-> 2, text |-> "x"], [store |-> "s", day |-> 1, text |-> "y"],
             [store |-> "r", day |-> 2, text |-> "x"], [store |-> "s", day |-> 3, text |-> "x"],
             [store |-> "s", day |-> 2, text |-> "x"] >>
=============================================================================
