---------------------------- MODULE AdminWrites ----------------------------
(***************************************************************************)
(* Concurrent create, edit, save-as-new, delete and inline requests of one *)
(* ModelAdmin and of its inline child, served by contrib/fiber/handlers.go *)
(* over the GORM storage of contrib/gorm/writes.go, with the audit log of  *)
(* contrib/fiber/audit.go.                                                 *)
(*                                                                         *)
(* Every database statement is a step of its own, so another request may   *)
(* commit between GetObject, the delete preview, the load inside Update or *)
(* Delete, the write, and the read-back.  The row of a record is abstracted*)
(* to the value of one unique column; the row of an inline child to its    *)
(* foreign key, the owning record.                                         *)
(***************************************************************************)
EXTENDS Naturals, Sequences

CONSTANTS
  Requests,   \* the requests served; each runs in a goroutine of its own
  Records,    \* primary keys of the resource
  Children,   \* primary keys of the inline child resource
  Values,     \* what a valid form may post for the unique column
  Previews,   \* whether the ModelAdmins implement core.DeletePreviewer
  Unused,     \* a key storage has not handed out yet
  Gone,       \* a key whose row was deleted: keys are never handed out twice
  Invalid,    \* a form Validate complains about
  Nil

ASSUME WritesAssumption ==
  /\ Previews \in BOOLEAN
  /\ Records \cap Children = {}
  /\ {Unused, Gone, Invalid, Nil} \cap (Values \cup Records \cup Children) = {}
  /\ Unused # Gone /\ Invalid # Nil

VARIABLES
  rows,       \* rows[k]: the row stored under key k
  pc,         \* pc[r]: the step request r takes next
  job,        \* job[r]: what request r posted, and to which route
  target,     \* target[r]: the key it writes
  status,     \* status[r]: how it was answered
  flash,      \* flash[r]: the level of the message its response sets
  audit,      \* the entries the AuditLogger accepted, oldest first
  rejected,   \* requests whose entry the AuditLogger refused
  changes     \* history: the writes that changed a row

vars == <<rows, pc, job, target, status, flash, audit, rejected, changes>>
-----------------------------------------------------------------------------
Keys == Records \cup Children
Rows == Values \cup Records \cup {Unused, Gone}

InlineKinds == {"inlinecreate", "inlineupdate", "inlinedelete"}
Kinds == {"create", "edit", "saveas", "delete", "rowdelete"} \cup InlineKinds

\* The name recordAudit is given, and of the write itself.
Op(kind) == IF kind \in {"create", "saveas", "inlinecreate"} THEN "create"
            ELSE IF kind \in {"edit", "inlineupdate"} THEN "update" ELSE "delete"

\* Requests a browser sends.  An inline form's own fields are abstracted
\* away: only whether they validate is kept.
Jobs ==
  [kind : {"create"}, parent : {Nil}, pk : {Nil}, data : Values \cup {Invalid}]
  \cup [kind : {"edit", "saveas"}, parent : {Nil}, pk : Records, data : Values \cup {Invalid}]
  \cup [kind : {"delete", "rowdelete"}, parent : {Nil}, pk : Records, data : {Nil}]
  \cup [kind : {"inlinecreate"}, parent : Records, pk : {Nil}, data : {Nil, Invalid}]
  \cup [kind : {"inlineupdate"}, parent : Records, pk : Children, data : {Nil, Invalid}]
  \cup [kind : {"inlinedelete"}, parent : Records, pk : Children, data : {Nil}]

NoJob == [kind |-> Nil, parent |-> Nil, pk |-> Nil, data |-> Nil]

IsInline(r) == job[r].kind \in InlineKinds

\* Wrong form of Content, which TypeOK refutes: an inline update takes the
\* URL's second key, the child's, for the foreign key.
ContentSwapped(r) == IF job[r].kind = "inlineupdate" THEN job[r].pk
                     ELSE IF IsInline(r) THEN job[r].parent ELSE job[r].data

\* The row the request writes: an inline's foreign key is set by the
\* handler from the URL, never read from the form.
Content(r) == IF IsInline(r) THEN job[r].parent ELSE job[r].data

Live(k) == rows[k] \notin {Unused, Gone}

\* A write, and the audit entry that names it: who, what and which record.
\* The time and the label of an entry are left out.
Entry == [req : Requests, op : {"create", "update", "delete"}, pk : Keys]

\* What request r does to its record.
Made(r) == [req |-> r, op |-> Op(job[r].kind), pk |-> target[r]]
-----------------------------------------------------------------------------
(* The storage's own constraints: the column is unique, and a child's      *)
(* foreign key is enforced with ON DELETE RESTRICT.                        *)

Duplicate(k, v) == \E other \in Records \ {k} : rows[other] = v

\* Wrong form of Unacceptable, which ChildrenHaveParents refutes: the foreign
\* key is not enforced, and the read of the parent is relied on.
UnacceptableUnkeyed(r, k) == ~IsInline(r) /\ Duplicate(k, Content(r))

Unacceptable(r, k) == IF IsInline(r) THEN ~Live(Content(r)) ELSE Duplicate(k, Content(r))

Referenced(k) == \E c \in Children : rows[c] = k

\* Keys the database may assign to the row a request creates.
Fresh(r) == {k \in (IF IsInline(r) THEN Children ELSE Records) : rows[k] = Unused}
-----------------------------------------------------------------------------
Goto(r, step) == pc' = [pc EXCEPT ![r] = step]

Answer(r, result) == /\ Goto(r, "done")
                     /\ status' = [status EXCEPT ![r] = result]

Quiet == UNCHANGED <<rows, job, target, flash, audit, rejected, changes>>

\* A refused request: an answer, and nothing else.
Refuse(r, result) == Answer(r, result) /\ Quiet

\* The next step of a request that only read.
Advance(r, step) == Goto(r, step) /\ UNCHANGED status /\ Quiet
-----------------------------------------------------------------------------
\* A request arrives: the route, the URL's keys and the form are fixed.
Receive(r) ==
  /\ pc[r] = "idle"
  /\ \E j \in Jobs : /\ job' = [job EXCEPT ![r] = j]
                     /\ target' = [target EXCEPT ![r] = j.pk]
  /\ Goto(r, "authorize")
  /\ UNCHANGED <<rows, status, flash, audit, rejected, changes>>

\* The model-level check, and for a create the form's own validation,
\* which reads no record.
Authorize(r) ==
  /\ pc[r] = "authorize"
  /\ \/ Refuse(r, "forbidden")
     \/ IF job[r].kind = "create" /\ job[r].data = Invalid
        THEN Refuse(r, "invalid")
        ELSE Advance(r, IF job[r].kind = "create" THEN "insert"
                        ELSE IF IsInline(r) THEN "getparent" ELSE "getobject")

\* An inline route reads its parent first; an absent parent and a failed
\* read are both nil.  The child resource's own permission comes after it.
GetParent(r) ==
  /\ pc[r] = "getparent"
  /\ \/ Refuse(r, "notfound")
     \/ /\ Live(job[r].parent)
        /\ \/ Refuse(r, "forbidden")
           \/ IF job[r].kind = "inlinecreate"
              THEN IF job[r].data = Invalid THEN Refuse(r, "invalid")
                                            ELSE Advance(r, "insert")
              ELSE Advance(r, "getobject")

\* GetObject answered nil: no such row, or the database rejected the read.
\* An edit is a 404; a delete has nothing to do and redirects.
ObjectMissing(r) ==
  /\ pc[r] = "getobject"
  /\ Refuse(r, IF Op(job[r].kind) = "delete" THEN "nothing" ELSE "notfound")

\* GetObject answered a record.  The per-object permission (and, for
\* save-as-new, the create permission) may refuse it; no inline route
\* makes that check.
ObjectFound(r) ==
  /\ pc[r] = "getobject"
  /\ Live(target[r])
  /\ \/ ~IsInline(r) /\ Refuse(r, "forbidden")
     \/ IF Op(job[r].kind) # "delete" /\ job[r].data = Invalid
        THEN Refuse(r, "invalid")
        ELSE Advance(r, IF job[r].kind = "saveas" THEN "insert"
                        ELSE IF Op(job[r].kind) = "update" THEN "updateload" ELSE "preview")

\* Wrong form of Preview, which ImplementsTrail refutes: a blocked delete
\* skips the deletion but not the bookkeeping after it.
PreviewFallsThrough(r) ==
  /\ pc[r] = "preview"
  /\ \/ Previews /\ Goto(r, "audit") /\ UNCHANGED status /\ Quiet
     \/ ~(Previews /\ Referenced(target[r])) /\ Advance(r, "deleteload")

\* resolveForDelete: protected records or a cascade into a type the
\* principal may not delete block the delete.
Preview(r) ==
  /\ pc[r] = "preview"
  /\ \/ Previews /\ Refuse(r, "blocked")
     \/ ~(Previews /\ Referenced(target[r])) /\ Advance(r, "deleteload")
-----------------------------------------------------------------------------
(* contrib/gorm/writes.go.  A RecordFormError becomes a 422 on the form    *)
(* pages; the inline handlers return it as any other error.  A write may   *)
(* always end in one: a value that does not convert, a CHECK constraint.   *)

FormError(r) == Refuse(r, IF IsInline(r) THEN "error" ELSE "invalid")

\* Wrong form of Insert, which RefusalHasNoEffect refutes: no transaction
\* around it, so the row of a failed create stays.
InsertWithoutRollback(r) ==
  /\ pc[r] = "insert"
  /\ \E k \in Fresh(r) :
       /\ rows' = [rows EXCEPT ![k] = Content(r)]
       /\ changes' = changes \cup {[req |-> r, op |-> "create", pk |-> k]}
  /\ Answer(r, "invalid")
  /\ UNCHANGED <<job, target, flash, audit, rejected>>

\* Create: one transaction, a key the database assigns.
Insert(r) ==
  /\ pc[r] = "insert"
  /\ \/ FormError(r)
     \/ /\ ~Unacceptable(r, Nil)
        /\ \E k \in Fresh(r) :
             /\ rows' = [rows EXCEPT ![k] = Content(r)]
             /\ target' = [target EXCEPT ![r] = k]
             /\ changes' = changes \cup {[req |-> r, op |-> "create", pk |-> k]}
        /\ Goto(r, "readback")
        /\ UNCHANGED <<job, status, flash, audit, rejected>>

\* Update loads the row again: a record deleted meanwhile is a form error.
UpdateLoad(r) ==
  /\ pc[r] = "updateload"
  /\ FormError(r) \/ (Live(target[r]) /\ Advance(r, "updatewrite"))

\* Wrong form of UpdateWrite, which NoResurrection refutes: an upsert writes
\* the row of a record deleted since the load.
UpsertWrite(r) ==
  /\ pc[r] = "updatewrite"
  /\ rows' = [rows EXCEPT ![target[r]] = Content(r)]
  /\ changes' = changes \cup {Made(r)}
  /\ Goto(r, "readback")
  /\ UNCHANGED <<job, target, status, flash, audit, rejected>>

\* UPDATE ... WHERE pk: no row matches if it was deleted since the load,
\* and that is not an error.
UpdateWrite(r) ==
  /\ pc[r] = "updatewrite"
  /\ \/ Live(target[r]) /\ FormError(r)
     \/ /\ Live(target[r]) /\ ~Unacceptable(r, target[r])
        /\ rows' = [rows EXCEPT ![target[r]] = Content(r)]
        /\ changes' = changes \cup {Made(r)}
        /\ Goto(r, "readback")
        /\ UNCHANGED <<job, target, status, flash, audit, rejected>>
     \/ ~Live(target[r]) /\ Advance(r, "readback")

\* Wrong form of Finish, which SuccessIsAudited refutes: the row-delete
\* handler forgets its entry.
FinishUnaudited(r) == IF IsInline(r) \/ job[r].kind = "rowdelete" THEN Answer(r, "success")
                      ELSE Goto(r, "audit") /\ UNCHANGED status

\* What the handler does once the ModelAdmin's hook returned without an
\* error: recordAudit, except that no inline handler calls it.
Finish(r) == IF IsInline(r) THEN Answer(r, "success") ELSE Goto(r, "audit") /\ UNCHANGED status

\* Wrong form of ReadBack, which FlashTellsTruth refutes: a row that was
\* not there to write counts as saved.
ReadBackUnchecked(r) ==
  /\ pc[r] = "readback"
  /\ Finish(r)
  /\ UNCHANGED <<rows, job, target, flash, audit, rejected, changes>>

\* reload: the saved row is read again; one deleted meanwhile is an error,
\* although the write committed.
ReadBack(r) ==
  /\ pc[r] = "readback"
  /\ \/ ~Live(target[r]) /\ Refuse(r, "error")
     \/ /\ Live(target[r])
        /\ Finish(r)
        /\ UNCHANGED <<rows, job, target, flash, audit, rejected, changes>>

\* Delete loads the row again: a record already deleted is a success.
DeleteLoad(r) ==
  /\ pc[r] = "deleteload"
  /\ IF Live(target[r]) THEN Advance(r, "remove")
     ELSE Finish(r) /\ UNCHANGED <<rows, job, target, flash, audit, rejected, changes>>

\* Wrong form of RefuseDelete, which EntryFollowsWrite refutes: the
\* storage's refusal is not told from a success.
RefuseDeleteUnheard(r) == Goto(r, "audit") /\ UNCHANGED status /\ Quiet

\* deleteRefused: the constraint kept the row, and the response says so.
RefuseDelete(r) ==
  /\ Answer(r, "refused")
  /\ flash' = [flash EXCEPT ![r] = "error"]
  /\ UNCHANGED <<rows, job, target, audit, rejected, changes>>

Remove(r) ==
  /\ pc[r] = "remove"
  /\ \/ Referenced(target[r]) /\ RefuseDelete(r)
     \/ /\ ~Referenced(target[r])
        /\ rows' = [rows EXCEPT ![target[r]] = Gone]
        /\ changes' = IF Live(target[r]) THEN changes \cup {Made(r)} ELSE changes
        /\ Finish(r)
        /\ UNCHANGED <<job, target, flash, audit, rejected>>

\* recordAudit.  The logger may refuse the entry; that is logged and dropped.
RecordAudit(r) ==
  /\ pc[r] = "audit"
  /\ \/ audit' = Append(audit, Made(r)) /\ UNCHANGED rejected
     \/ rejected' = rejected \cup {r} /\ UNCHANGED audit
  /\ Goto(r, "answer")
  /\ UNCHANGED <<rows, job, target, status, flash, changes>>

\* setFlash and the redirect, which are one response.  The row delete sets
\* no flash.
Respond(r) ==
  /\ pc[r] = "answer"
  /\ flash' = IF job[r].kind = "rowdelete" THEN flash ELSE [flash EXCEPT ![r] = "success"]
  /\ Answer(r, "success")
  /\ UNCHANGED <<rows, job, target, audit, rejected, changes>>
-----------------------------------------------------------------------------
\* A database statement fails for a reason that is no constraint: the
\* handler returns the error and the request is a 500.  What committed
\* before it stays.
Fail(r) ==
  /\ pc[r] \in {"insert", "updateload", "updatewrite", "readback", "preview", "deleteload", "remove"}
  /\ Refuse(r, "error")

Running(r) == pc[r] \notin {"idle", "done"}

\* The process stops: requests in flight get no answer, storage and the
\* log keep what they have.
Crash ==
  /\ \E r \in Requests : Running(r)
  /\ pc' = [r \in Requests |-> IF Running(r) THEN "done" ELSE pc[r]]
  /\ status' = [r \in Requests |-> IF Running(r) THEN "lost" ELSE status[r]]
  /\ Quiet

Step(r) ==
  \/ Receive(r) \/ Authorize(r) \/ GetParent(r) \/ ObjectMissing(r) \/ ObjectFound(r)
  \/ Preview(r) \/ Insert(r) \/ UpdateLoad(r) \/ UpdateWrite(r) \/ ReadBack(r)
  \/ DeleteLoad(r) \/ Remove(r) \/ RecordAudit(r) \/ Respond(r) \/ Fail(r)

\* The store may hold records, and children of those records, already.
Init ==
  /\ rows \in [Keys -> Values \cup Records \cup {Unused}]
  /\ \A k \in Records : rows[k] \in Values \cup {Unused} /\ (Live(k) => ~Duplicate(k, rows[k]))
  /\ \A c \in Children : rows[c] = Unused \/ (rows[c] \in Records /\ rows[rows[c]] # Unused)
  /\ pc = [r \in Requests |-> "idle"]
  /\ job = [r \in Requests |-> NoJob]
  /\ target = [r \in Requests |-> Nil]
  /\ status = [r \in Requests |-> "none"]
  /\ flash = [r \in Requests |-> "none"]
  /\ audit = <<>>
  /\ rejected = {}
  /\ changes = {}

Next == Crash \/ \E r \in Requests : Step(r)

Spec == Init /\ [][Next]_vars
-----------------------------------------------------------------------------
Steps == {"idle", "authorize", "getparent", "getobject", "preview", "insert", "updateload",
          "updatewrite", "readback", "deleteload", "remove", "audit", "answer", "done"}
Results == {"none", "forbidden", "invalid", "notfound", "nothing", "blocked", "refused",
            "success", "error", "lost"}

\* The variables hold what the code can put there: a record's row is a
\* value of its column, a child's row is the key of a record.
TypeOK ==
  /\ rows \in [Keys -> Rows]
  /\ \A k \in Records : rows[k] \in Values \cup {Unused, Gone}
  /\ \A c \in Children : rows[c] \in Records \cup {Unused, Gone}
  /\ pc \in [Requests -> Steps]
  /\ job \in [Requests -> Jobs \cup {NoJob}]
  /\ target \in [Requests -> Keys \cup {Nil}]
  /\ status \in [Requests -> Results]
  /\ flash \in [Requests -> {"none", "success", "error"}]
  /\ audit \in Seq(Entry)
  /\ rejected \in SUBSET Requests
  /\ changes \in SUBSET Entry

Changed(r) == \E c \in changes : c.req = r
EntriesOf(r) == {i \in DOMAIN audit : audit[i].req = r}

\* The log never runs ahead of the store: an entry of a create or an
\* update names a write its own request committed, and an entry of a
\* delete names a record that is gone -- even when requests race on it.
EntryFollowsWrite ==
  \A i \in DOMAIN audit :
    IF audit[i].op = "delete" THEN rows[audit[i].pk] = Gone ELSE audit[i] \in changes

\* A request answered with a refusal (403, 404, 422, a blocked or refused
\* delete, or a delete that found nothing) left neither a write nor an
\* entry behind, whatever other requests did meanwhile.
RefusalHasNoEffect ==
  \A r \in Requests :
    status[r] \in {"forbidden", "notfound", "nothing", "invalid", "blocked", "refused"}
      => ~Changed(r) /\ EntriesOf(r) = {} /\ flash[r] # "success"

\* A request of a page route that reports success has exactly one entry,
\* for its own record, unless the logger refused it; and a request that has
\* one, or was refused one, is about to report success or was cut off by a
\* crash: a logger's refusal never turns into another answer.
SuccessIsAudited ==
  \A r \in Requests :
    LET entered == EntriesOf(r) # {} \/ r \in rejected
    IN /\ status[r] = "success" /\ ~IsInline(r) => entered
       /\ entered => pc[r] = "answer" \/ status[r] \in {"success", "lost"}
       /\ r \in rejected => EntriesOf(r) = {}
       /\ \A i \in EntriesOf(r) : EntriesOf(r) = {i} /\ audit[i] = Made(r)

\* A child's parent is there, although an inline request reads the parent
\* long before it writes the child and other requests delete parents.
ChildrenHaveParents == \A c \in Children : Live(c) => Live(rows[c])

\* A success message is shown only for what has happened: the record was
\* written by this request, or it is gone.
FlashTellsTruth ==
  \A r \in Requests :
    flash[r] = "success" => \/ Made(r) \in changes
                            \/ job[r].kind = "delete" /\ rows[target[r]] = Gone

\* A deleted record never comes back: an update that loaded it before the
\* delete writes nothing after it, and no key is used twice.
NoResurrection == [][\A k \in Keys : rows[k] = Gone => rows'[k] = Gone]_vars

\* Life and log of AuditTrail: the handlers keep the log's promise.
Life == [k \in Keys |-> IF rows[k] = Unused THEN "unused"
                         ELSE IF rows[k] = Gone THEN "gone" ELSE "live"]
Trail == INSTANCE AuditTrail WITH Entries <- Entry, life <- Life, log <- audit

\* The concurrent handlers implement the audit trail's specification.
ImplementsTrail == Trail!Spec
-----------------------------------------------------------------------------
(* What the documentation says of every write, and some requests break.    *)

\* docs/audit.md: an entry for every create, update and delete.
EveryWriteIsAudited ==
  \A r \in Requests :
    status[r] = "success" /\ Changed(r) => r \in rejected \/ EntriesOf(r) # {}
=============================================================================
