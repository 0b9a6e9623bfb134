----------------------------- MODULE AuditTrail -----------------------------
(***************************************************************************)
(* What the audit log promises about the records it names, whatever the    *)
(* handlers do in between: the life of a key and the entries that may be   *)
(* written at each stage of it (core/audit.go, docs/audit.md).  A key is   *)
(* unused, then live, then gone, and is never given to a second record.    *)
(***************************************************************************)
EXTENDS Sequences

CONSTANTS Keys,     \* the primary keys storage can hand out
          Entries   \* the entries a logger can be given: op, pk and more

VARIABLES life,     \* life[k]: the stage of key k
          log       \* the entries the logger accepted, oldest first

Stages == {"unused", "live", "gone"}

TrailTypeOK == /\ life \in [Keys -> Stages]
               /\ log \in Seq(Entries)

Init == /\ life \in [Keys -> {"unused", "live"}]
        /\ log = <<>>

\* A create commits: the key had never been used.
Born(k) == /\ life[k] = "unused"
           /\ life' = [life EXCEPT ![k] = "live"]
           /\ UNCHANGED log

\* A delete commits: there was a record to remove.
Removed(k) == /\ life[k] = "live"
              /\ life' = [life EXCEPT ![k] = "gone"]
              /\ UNCHANGED log

\* An entry says "deleted" only of a record that is gone, and says
\* "created" or "updated" only of a key that has held a record.
Truthful(e) == IF e.op = "delete" THEN life[e.pk] = "gone"
                                  ELSE life[e.pk] # "unused"

Recorded(e) == /\ Truthful(e)
               /\ log' = Append(log, e)
               /\ UNCHANGED life

Next == \/ \E k \in Keys : Born(k) \/ Removed(k)
        \/ \E e \in Entries : Recorded(e)

Spec == Init /\ [][Next]_<<life, log>>
=============================================================================
