----------------------------- MODULE MCListView -----------------------------
(* ListView over a table of four records with ties in both columns.        *)
EXTENDS ListView

MCContent == <<[found |-> TRUE, flag |-> TRUE, day |-> 2], [found |-> TRUE, flag |-> FALSE, day |-> 1],
               [found |-> FALSE, flag |-> TRUE, day |-> 2], [found |-> TRUE, flag |-> TRUE, day |-> 1]>>
=============================================================================
