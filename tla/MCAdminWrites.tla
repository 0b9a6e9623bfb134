--------------------------- MODULE MCAdminWrites ---------------------------
(* Small instances of AdminWrites for TLC.                                 *)
EXTENDS AdminWrites, TLC

\* Requests, keys and values are interchangeable: the specification only
\* compares them for equality.
Symmetry == Permutations(Requests) \cup Permutations(Values)
              \cup Permutations(Records) \cup Permutations(Children)
=============================================================================
