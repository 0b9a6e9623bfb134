---------------------------- MODULE BulkActions ----------------------------
(***************************************************************************)
(* One bulk action of one browser session -- the built-in delete_selected  *)
(* or bulk_edit, or an action the host wrote -- from the list page over    *)
(* its confirmation or form page to the last audit entry, while other      *)
(* sessions commit changes to the same records (contrib/fiber/handlers.go  *)
(* handleAction, deletepreview.go, action_forms.go, download.go,           *)
(* core/action.go, action_form.go, bulk_edit.go, over contrib/gorm/        *)
(* writes.go and query.go).                                                *)
(*                                                                         *)
(* Every content of the store is an initial state.                         *)
(***************************************************************************)
EXTENDS Integers, FiniteSets, SequencesExt

CONSTANTS
  NRecords,    \* primary keys are 1..NRecords
  Columns,     \* the columns a bulk edit may change
  Values,      \* what a column may hold
  Filtered,    \* the column the list is filtered on ...
  Shown,       \* ... and the value it must have for a row to be listed
  Previews,    \* whether the ModelAdmin implements core.DeletePreviewer
  Hosted,      \* the actions the host's code runs, see Actions
  MaxCommits,  \* bound on the commits of other sessions
  Unused,      \* a key storage has not handed out yet
  Gone,        \* a key whose row was deleted
  Nil

\* How a request may end; "lost" without an answer.
Results == {"forbidden", "nothing", "error", "page", "failed", "success", "lost"}

\* delete_selected, bulk_edit, and two the host declares: one with a form
\* page of its own and one that runs at once.  Those are always the host's
\* to run; the built-in ones are when it replaces delete_selected or
\* implements core.BulkUpdater.
Actions == {"delete", "edit", "form", "plain"}

ASSUME BulkAssumption ==
  /\ NRecords \in Nat /\ MaxCommits \in Nat
  /\ Filtered \in Columns /\ Shown \in Values /\ Previews \in BOOLEAN
  /\ {"form", "plain"} \subseteq Hosted /\ Hosted \subseteq Actions
  /\ Unused # Gone /\ {Unused, Gone, Nil} \cap [Columns -> Values] = {} /\ Nil \notin Results

VARIABLES
  rows,      \* rows[k]: the row stored under key k
  commits,   \* how many times another session has changed the store
  screen,    \* the last confirmation page the browser was shown; Back returns to it
  post,      \* the request in flight, or the last one
  pc,        \* the step it takes next
  todo,      \* the posted keys GetObject has not been asked for yet
  objs,      \* the records the request resolved to
  n,         \* how many of them the action has handled
  loaded,    \* the row Update loaded of the record it is at
  wrote,     \* history: the records whose row this request changed
  audit,     \* the entries the AuditLogger accepted, oldest first
  rejected,  \* the records whose entry it refused
  answer     \* how the request was answered

vars == <<rows, commits, screen, post, pc, todo, objs, n, loaded, wrote, audit, rejected, answer>>
-----------------------------------------------------------------------------
Records == 1..NRecords
Row == [Columns -> Values]

Live(k) == rows[k] \notin {Unused, Gone}

\* The rows the list's query matches.
Matching == {k \in Records : Live(k) /\ rows[k][Filtered] = Shown}

\* Records in the order of the list, which may be sorted by any column: one of
\* all the orders there are.
InListOrder(S) == SetToSeqs(S)

\* SelectionFingerprint: a hash of the sorted keys tells sets apart.
Fingerprint(s) == ToSet(s)

\* A page that asks for confirmation: the reviewed records, and whether
\* they were "all N matching", posted as query and fingerprint, or ticked
\* rows, posted as keys.
Pages == [action : Actions, all : BOOLEAN, set : SUBSET Records]

Posts == [action : Actions, all : BOOLEAN, set : SUBSET Records, confirmed : BOOLEAN,
          ticked : SUBSET Columns, value : Values \cup {Nil}]

NoPost == [action |-> "delete", all |-> FALSE, set |-> {}, confirmed |-> FALSE, ticked |-> {}, value |-> Nil]

Handled == {objs[i] : i \in 1..n}

HasForm == post.action \in {"edit", "form"}

\* The action runs only after a page of its own was confirmed.
Asks == HasForm \/ (post.action = "delete" /\ Previews)
-----------------------------------------------------------------------------
Goto(step) == pc' = step

Answer(result) == Goto("answered") /\ answer' = result

Store == <<rows, commits>>
Selection == <<post, todo, objs>>
Progress == <<n, loaded, wrote>>
Log == <<audit, rejected>>

\* A request that ends without a page.
Redirect(result) == Answer(result) /\ UNCHANGED screen

\* The confirmation or form page, for the records just resolved.
Page(result) ==
  /\ Answer(result)
  /\ screen' = [action |-> post.action, all |-> post.all, set |-> ToSet(objs)]
-----------------------------------------------------------------------------
\* The browser posts the list's form, or the page it shows.  An edit page
\* also posts which columns are ticked and their value.
Send(p) ==
  /\ pc = "idle"
  /\ post' = p
  /\ Goto("authorize")
  /\ UNCHANGED <<Store, screen, todo, objs, Progress, Log, answer>>

SendFromList ==
  \E action \in Actions, all \in BOOLEAN, set \in SUBSET {k \in Records : rows[k] # Unused} :
    /\ all => set = {}
    /\ Send([NoPost EXCEPT !.action = action, !.all = all, !.set = set])

SendFromPage ==
  /\ screen # Nil
  /\ \E ticked \in SUBSET (IF screen.action = "edit" THEN Columns ELSE {}), value \in Values :
       Send([action |-> screen.action, all |-> screen.all, set |-> screen.set, confirmed |-> TRUE,
             ticked |-> ticked, value |-> IF ticked = {} THEN Nil ELSE value])

\* The resource's and the action's permission, then an empty selection.
Authorize ==
  /\ pc = "authorize"
  /\ \/ Redirect("forbidden") /\ UNCHANGED todo
     \/ ~post.all /\ post.set = {} /\ Redirect("nothing") /\ UNCHANGED todo
     \/ /\ post.all \/ post.set # {}
        /\ todo' \in InListOrder(IF post.all THEN {} ELSE post.set)
        /\ Goto(IF post.all THEN "query" ELSE "getobject")
        /\ UNCHANGED <<screen, answer>>
  /\ UNCHANGED <<Store, post, objs, Progress, Log>>

\* "Select all N matching": the set is the query's, not the browser's.
Query ==
  /\ pc = "query"
  /\ \/ Redirect("error") /\ UNCHANGED objs
     \/ objs' \in InListOrder(Matching) /\ Goto("resolved") /\ UNCHANGED <<screen, answer>>
  /\ UNCHANGED <<Store, post, todo, Progress, Log>>

\* Ticked rows: one GetObject each.  A missing record and a failed read
\* are both nil, and a nil is left out.
GetObject ==
  /\ pc = "getobject"
  /\ IF todo = <<>> THEN Goto("resolved") /\ UNCHANGED <<todo, objs>>
     ELSE /\ todo' = Tail(todo)
          /\ \/ UNCHANGED objs
             \/ Live(Head(todo)) /\ objs' = Append(objs, Head(todo))
          /\ UNCHANGED pc
  /\ UNCHANGED <<Store, screen, post, Progress, Log, answer>>

\* handleAction after the lookup: an empty set is a warning; a previewing
\* delete and every action with a form meet their page first.
Resolved ==
  /\ pc = "resolved"
  /\ \/ objs = <<>> /\ Redirect("nothing")
     \/ /\ objs # <<>>
        /\ Goto(IF HasForm THEN "form" ELSE IF Asks THEN "confirm" ELSE "run")
        /\ UNCHANGED <<screen, answer>>
  /\ UNCHANGED <<Store, Selection, Progress, Log>>

\* Wrong form of Differs, which OnlyReviewed refutes: only the number of
\* records is compared.
DiffersInNumber == post.all /\ Len(objs) # Cardinality(post.set)

\* The confirmed set is not the reviewed one; only checked for a query.
Differs == post.all /\ Fingerprint(objs) # post.set

\* confirmDeleteSelected: the page unless this is a confirmed, unchanged
\* selection that nothing blocks.  The preview may fail.
ConfirmDelete ==
  /\ pc = "confirm"
  /\ \/ Redirect("error")
     \/ Page("page")          \* unconfirmed, changed, or blocked
     \/ post.confirmed /\ ~Differs /\ Goto("run") /\ UNCHANGED <<screen, answer>>
  /\ UNCHANGED <<Store, Selection, Progress, Log>>

\* resolveActionForm: a value that does not validate and, for bulk_edit,
\* nothing ticked and a record that is not the principal's to update all
\* answer with the form again.
ResolveForm ==
  /\ pc = "form"
  /\ \/ Page("page")
     \/ /\ post.confirmed /\ ~Differs /\ (post.action = "edit" => post.ticked # {})
        /\ Goto("run")
        /\ UNCHANGED <<screen, answer>>
  /\ UNCHANGED <<Store, Selection, Progress, Log>>
-----------------------------------------------------------------------------
(* The loop of the built-in actions over the ModelAdmin's own hooks.  The  *)
(* first record whose hook returns an error ends it.                       *)

At == objs[n + 1]

Unhandled == n < Len(objs)

\* Wrong form of Stop, which EntriesMatchHandled refutes: the failing
\* record is counted as done.
StopAfter == Goto("record") /\ n' = n + 1 /\ UNCHANGED <<rows, loaded, wrote>>

\* The hook returned an error: an ActionError, whose Done is the records
\* before this one.
Stop == Goto("record") /\ UNCHANGED <<rows, Progress>>

\* Delete and Update load the record first.  Deleting one that is gone is
\* a success, updating one is an error.
Load ==
  /\ pc = "run" /\ post.action \notin Hosted
  /\ \/ ~Unhandled /\ Goto("record") /\ UNCHANGED <<rows, Progress>>
     \/ Unhandled /\ Stop
     \/ /\ Unhandled /\ Live(At)
        /\ loaded' = IF post.action = "edit" THEN rows[At] ELSE Nil
        /\ Goto("write")
        /\ UNCHANGED <<rows, n, wrote>>
     \/ /\ Unhandled /\ ~Live(At) /\ post.action = "delete"
        /\ n' = n + 1
        /\ UNCHANGED <<rows, pc, loaded, wrote>>
  /\ UNCHANGED <<commits, Selection, screen, Log, answer>>

\* The loaded row with the ticked columns set: GORM's Select("*") writes
\* every column of it.
Merged == [c \in Columns |-> IF c \in post.ticked THEN post.value ELSE loaded[c]]

\* Wrong form of DeleteRow, which SuccessClearsReviewed refutes: a record the
\* constraint keeps is passed over.
DeleteRowOrSkip ==
  /\ pc = "write" /\ post.action = "delete"
  /\ n' = n + 1
  /\ Goto("run")
  /\ \/ UNCHANGED <<rows, wrote>>
     \/ rows' = [rows EXCEPT ![At] = Gone] /\ wrote' = wrote \cup {At}
  /\ UNCHANGED <<loaded, commits, Selection, screen, Log, answer>>

\* DELETE, in a transaction a constraint may refuse.
DeleteRow ==
  /\ pc = "write" /\ post.action = "delete"
  /\ \/ Stop
     \/ /\ rows' = [rows EXCEPT ![At] = Gone]
        /\ wrote' = IF Live(At) THEN wrote \cup {At} ELSE wrote
        /\ n' = n + 1
        /\ Goto("run")
        /\ UNCHANGED loaded
  /\ UNCHANGED <<commits, Selection, screen, Log, answer>>

\* UPDATE ... WHERE pk: matches no row if it was deleted since the load.
UpdateRow ==
  /\ pc = "write" /\ post.action = "edit"
  /\ \/ Stop
     \/ /\ rows' = IF Live(At) THEN [rows EXCEPT ![At] = Merged] ELSE rows
        /\ wrote' = IF Live(At) THEN wrote \cup {At} ELSE wrote
        /\ Goto("readback")
        /\ UNCHANGED <<n, loaded>>
  /\ UNCHANGED <<commits, Selection, screen, Log, answer>>

\* reload: the saved row is read again.  A failure is the hook's error,
\* although the write committed.
ReadBack ==
  /\ pc = "readback"
  /\ \/ Stop
     \/ Live(At) /\ n' = n + 1 /\ Goto("run") /\ UNCHANGED <<rows, loaded, wrote>>
  /\ UNCHANGED <<commits, Selection, screen, Log, answer>>

(* The host's own code over the same records.  What it calls handled is    *)
(* what its result says: all of them, or the Done of an ActionError.       *)

\* It changes the next record in any way, or leaves it as it is.
HostHandle ==
  /\ pc = "run" /\ post.action \in Hosted /\ Unhandled
  /\ n' = n + 1
  /\ \/ UNCHANGED <<rows, wrote>>
     \/ /\ Live(At)
        /\ \E row \in Row \cup {Gone} : rows' = [rows EXCEPT ![At] = row]
        /\ wrote' = wrote \cup {At}
  /\ UNCHANGED <<commits, screen, Selection, pc, loaded, Log, answer>>

\* nil or an ActionError goes on to the log, also when a file is sent after
\* it; an ActionFormError shows the form again; any other error, or a
\* Download that is both Content and Stream, is a server error.
HostReturn ==
  /\ pc = "run" /\ post.action \in Hosted
  /\ \/ Goto("record") /\ UNCHANGED <<screen, answer>>
     \/ HasForm /\ Page("page")
     \/ Redirect("error")
  /\ UNCHANGED <<Store, Selection, Progress, Log>>

Recorded == Len(audit) + Cardinality(rejected)

\* recordAudit for each record handled, then the flash and the redirect.
RecordAudit ==
  /\ pc = "record"
  /\ IF Recorded < n
     THEN /\ \/ audit' = Append(audit, objs[Recorded + 1]) /\ UNCHANGED rejected
             \/ rejected' = rejected \cup {objs[Recorded + 1]} /\ UNCHANGED audit
          /\ UNCHANGED <<pc, answer, screen>>
     ELSE Redirect(IF Unhandled THEN "failed" ELSE "success") /\ UNCHANGED Log
  /\ UNCHANGED <<Store, Selection, Progress>>
-----------------------------------------------------------------------------
Serving == pc \notin {"idle", "answered"}

\* The process stops in the middle of a request.
Crash == Serving /\ Redirect("lost") /\ UNCHANGED <<Store, Selection, Progress, Log>>

\* The user goes on, from the list or from the last page shown.
Continue ==
  /\ pc = "answered"
  /\ Goto("idle")
  /\ post' = NoPost /\ todo' = <<>> /\ objs' = <<>> /\ n' = 0 /\ loaded' = Nil /\ wrote' = {}
  /\ audit' = <<>> /\ rejected' = {} /\ answer' = Nil
  /\ UNCHANGED <<Store, screen>>

\* Another session creates, edits or deletes a record.
Commit ==
  /\ commits < MaxCommits
  /\ commits' = commits + 1
  /\ \E k \in Records :
       \/ /\ rows[k] # Gone
          /\ \E row \in Row : rows' = [rows EXCEPT ![k] = row]
       \/ Live(k) /\ rows' = [rows EXCEPT ![k] = Gone]
  /\ UNCHANGED <<screen, post, pc, todo, objs, Progress, Log, answer>>

Serve == Authorize \/ Query \/ GetObject \/ Resolved \/ ConfirmDelete \/ ResolveForm
           \/ Load \/ DeleteRow \/ UpdateRow \/ ReadBack \/ HostHandle \/ HostReturn \/ RecordAudit

Init ==
  /\ rows \in [Records -> Row \cup {Unused}]
  /\ commits = 0 /\ screen = Nil /\ post = NoPost /\ pc = "idle"
  /\ todo = <<>> /\ objs = <<>> /\ n = 0 /\ loaded = Nil /\ wrote = {}
  /\ audit = <<>> /\ rejected = {} /\ answer = Nil

Next == SendFromList \/ SendFromPage \/ Serve \/ Crash \/ Continue \/ Commit

Spec == Init /\ [][Next]_vars
-----------------------------------------------------------------------------
Steps == {"idle", "authorize", "query", "getobject", "resolved", "confirm", "form", "run",
          "write", "readback", "record", "answered"}
Answers == Results \cup {Nil}

\* Every variable holds what the code can put there.
TypeOK ==
  /\ rows \in [Records -> Row \cup {Unused, Gone}]
  /\ commits \in 0..MaxCommits
  /\ screen \in Pages \cup {Nil} /\ post \in Posts
  /\ pc \in Steps /\ answer \in Answers
  /\ todo \in Seq(Records) /\ objs \in Seq(Records) /\ n \in 0..Len(objs)
  /\ loaded \in Row \cup {Nil} /\ wrote \in SUBSET Records
  /\ audit \in Seq(Records) /\ rejected \in SUBSET Records

\* An action that shows a page first changes no record that was not on the
\* page the browser posted, however the matching set changed since and
\* whoever wrote the action.  And a request that is warned or refused, or
\* asked again by the framework, has changed nothing: no record is written
\* before every check of every record has passed.  Only the host's code can
\* have done something and then fail or show its form again, unlogged.
OnlyReviewed ==
  /\ wrote # {} /\ Asks => post.confirmed /\ wrote \subseteq post.set
  /\ answer \in {"forbidden", "nothing", "error", "page"} => audit = <<>> /\ (wrote = {} \/ post.action \in Hosted)
  /\ answer \in {"forbidden", "nothing"} => wrote = {}

\* The entries are those of the records the loop, or the host's result, got
\* through, one each, in order, and those of the built-in actions are true;
\* the record such an action failed at has none.
EntriesMatchHandled ==
  /\ ToSet(audit) \cap rejected = {} /\ IsInjective(audit)
  /\ ToSet(audit) \cup rejected \subseteq Handled
  /\ answer \in {"failed", "success"} => ToSet(audit) \cup rejected = Handled
  /\ post.action \notin Hosted
       => \A k \in ToSet(audit) : IF post.action = "delete" THEN rows[k] = Gone ELSE k \in wrote

\* After "Deleted n records" of a reviewed "select all", none of the
\* reviewed records is left, whoever removed it.
SuccessClearsReviewed ==
  answer = "success" /\ post.action \in {"delete"} \ Hosted /\ post.all /\ Previews
    => \A k \in post.set : rows[k] = Gone
-----------------------------------------------------------------------------
(* What the documentation says, and an interleaving breaks.                *)

\* docs/bulk-edit.md: only the ticked fields are applied.
OnlyTickedColumnsChange ==
  [][UpdateRow => \A k \in Records : Live(k) => \A c \in Columns \ post.ticked : rows'[k][c] = rows[k][c]]_vars
=============================================================================
