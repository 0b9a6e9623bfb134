------------------------------ MODULE Download ------------------------------
(***************************************************************************)
(* What whoever downloads an export may rely on, whatever the server does  *)
(* in between (docs/exports.md, contrib/fiber/export.go): the file grows   *)
(* at its end only, by what comes next; it is called complete only when it *)
(* is whole; and nothing is added once the download has ended.             *)
(***************************************************************************)
EXTENDS Naturals, Sequences

CONSTANT Content    \* the whole file

VARIABLES client,   \* how the download ended, or "loading"
          received  \* the part of the file that has arrived

Init == client = "loading" /\ received = <<>>

\* More of the file arrives.
Grow == /\ client = "loading"
        /\ \E n \in Len(received) + 1 .. Len(Content) : received' = SubSeq(Content, 1, n)
        /\ UNCHANGED client

\* The download is refused before it begins, ends properly, or breaks off:
\* the server says so, or the client has left.
End == /\ client = "loading"
       /\ \/ client' = "refused" /\ received = <<>>
          \/ client' = "complete" /\ received = Content
          \/ client' \in {"broken", "gone"}
       /\ UNCHANGED received

Next == Grow \/ End

Spec == Init /\ [][Next]_<<client, received>>
=============================================================================
