---------------------------- MODULE RecordPages ----------------------------
(***************************************************************************)
(* The pages of one record, what each offers to whom, and the inline       *)
(* section of its edit page (contrib/fiber: auth.go, the page and inline   *)
(* handlers of handlers.go, render.go, inlines.go; core/inline.go).  One   *)
(* browser, with the record's form half filled in while rows of the        *)
(* section are added, saved and removed by requests of their own; other    *)
(* sessions change children and permissions, and the visitor's session     *)
(* ends.  A handler is one action here: its statements are in AdminWrites. *)
(***************************************************************************)
EXTENDS FiniteSets, Naturals

CONSTANTS Children,   \* keys of the child resource
          Sites,      \* [caps, saveAs, login]: what the ModelAdmins allow at all,
                      \* and whether there is a LoginBackend
          Roles,      \* sets of permissions a visitor may hold
          Rules,      \* sets of actions a per-object rule denies on the record
          Values,     \* what a child's field may hold
          MaxFlight,  \* bound: inline requests under way
          Budgets,    \* bounds: how often each of Events happens
          Nil

Events == {"type", "click", "elsewhere", "regrant", "session"}

ASSUME RecordPagesAssumption ==
  /\ MaxFlight \in Nat /\ "" \notin Values /\ Nil \notin Values \cup {""}
  /\ "new" \notin Children /\ Nil \notin Children \cup {"new"}

VARIABLES
  site, grants, denied,  \* static capabilities; the Authorizer's answers
  signed,   \* the Authenticator still knows the visitor
  alive,    \* the record exists
  rows,     \* rows[k]: the child with key k
  page,     \* [kind, offers, menu, typed, fresh]
  section,  \* the inline section of the edit page
  wire,     \* inline requests under way
  left      \* left[e]: how many more events of kind e there may be

access == <<site, grants, denied, signed>>
server == <<access, alive, rows>>
vars == <<server, page, section, wire, left>>

Keys == Children \cup {"new"}
Entries == Values \cup {""}
Unborn == [state |-> "unborn"]
Dead == [state |-> "dead"]
Child(parent, value) == [state |-> "there", parent |-> parent, value |-> value]
Exists(k) == rows[k].state = "there"

Spend(event) == left[event] > 0 /\ left' = [left EXCEPT ![event] = @ - 1]
-----------------------------------------------------------------------------
(* What a visitor may do, as the handlers and as the pages ask.            *)

Actions == {"view", "create", "update", "delete", "export"}
ChildActions == {"child.create", "child.update", "child.delete"}

\* An Authorizer whose per-object rule narrows what it says of the model.
Can(permission, resource) ==
  permission \in grants /\ (resource = "record" => permission \notin denied)

\* Wrong form of Permissions, which OffersAnswer refutes: a capability alone
\* shows the control.
PermissionsStatic(resource) == site.caps \cap Actions

\* computePermissions
Permissions(resource) == {a \in Actions : a \in site.caps /\ Can(a, resource)}

ChildPermissions == {a \in ChildActions : a \in site.caps /\ Can(a, "model")}

\* The route behind a control: what it is mounted on, what it asks for, and
\* whether it is about the record.
Route == [list       |-> [cap |-> "view", asks |-> "list", record |-> FALSE],
          export     |-> [cap |-> "export", asks |-> "export", record |-> FALSE],
          create     |-> [cap |-> "create", asks |-> "create", record |-> FALSE],
          detail     |-> [cap |-> "view", asks |-> "view", record |-> TRUE],
          edit       |-> [cap |-> "update", asks |-> "update", record |-> TRUE],
          save       |-> [cap |-> "update", asks |-> "update", record |-> TRUE],
          continue   |-> [cap |-> "update", asks |-> "update", record |-> TRUE],
          saveAsNew  |-> [cap |-> "update", asks |-> "update", record |-> TRUE],
          addAnother |-> [cap |-> "update", asks |-> "update", record |-> TRUE],
          delete     |-> [cap |-> "delete", asks |-> "delete", record |-> TRUE],
          confirm    |-> [cap |-> "delete", asks |-> "delete", record |-> TRUE],
          child      |-> [cap |-> "child.view", asks |-> "child.view", record |-> FALSE]]

Granted(c) == LET r == Route[c] IN /\ signed
                                   /\ r.cap \in site.caps
                                   /\ Can(r.asks, "model")
                                   /\ r.record => alive /\ Can(r.asks, "record")

\* What following a control comes to, the redirect after a save included.
Answered(c) ==
  /\ Granted(c)
  /\ c = "saveAsNew" => "create" \in Permissions("model")
  /\ c = "addAnother" => Granted("create")

\* Wrong form of Inline, which SectionIsCurrent refutes: every child with the
\* foreign key set, whoever it points at.
InlineAny(table) == {k \in Children : table[k].state = "there"}

\* FilterInlineChildren
Inline(table) == {k \in Children : table[k].state = "there" /\ table[k].parent = "here"}

SectionOffered == "child.view" \in site.caps /\ Can("child.view", "model")

\* The buttons and links a page shows, by kind.
Offers(kind) ==
  CASE kind = "list"   -> Permissions("model") \cap {"create", "export"}
    [] kind = "detail" -> (IF "update" \in Permissions("record") THEN {"edit"} ELSE {})
                            \cup (IF SectionOffered /\ Inline(rows) # {} THEN {"child"} ELSE {})
    [] kind = "edit"   -> {"save", "continue"} \cup (Permissions("record") \cap {"delete"})
                            \cup (IF "create" \notin Permissions("record") THEN {}
                                  ELSE {"addAnother"} \cup (IF site.saveAs THEN {"saveAsNew"} ELSE {}))
    [] kind = "delete" -> {"confirm"}
    [] OTHER           -> {}

\* The row's own menu on the list, from the permissions of the model.
Menu(kind) ==
  IF kind # "list" \/ ~alive THEN {}
  ELSE UNION {IF "view" \in Permissions("model") THEN {"detail"} ELSE {},
              IF "update" \in Permissions("model") THEN {"edit"} ELSE {},
              Permissions("model") \cap {"delete"}}
-----------------------------------------------------------------------------
(* The inline section.                                                     *)

NoSection == [text |-> [k \in Keys |-> Nil], typed |-> {}, wrong |-> {}, refusal |-> FALSE,
              offers |-> {}, fresh |-> TRUE]

\* Wrong form of Redisplayed, which EntryIsKept refutes: the row is filled from
\* the record again, as rows without an error are.
RedisplayedFromRecord(table, k, key, entry) == IF k = "new" THEN "" ELSE table[k].value

\* The row a refused request was about shows what was submitted.
Redisplayed(table, k, key, entry) ==
  IF k = key THEN entry ELSE IF k = "new" THEN "" ELSE table[k].value

\* buildInlineSections for one inline: nothing for who may not view children,
\* the add-row for who may create them.
Section(table, key, entry) ==
  IF ~SectionOffered THEN NoSection
  ELSE LET shown == Inline(table) \cup (IF "child.create" \in ChildPermissions THEN {"new"} ELSE {})
       IN [text    |-> [k \in Keys |-> IF k \in shown THEN Redisplayed(table, k, key, entry) ELSE Nil],
           typed   |-> {}, wrong |-> {key} \cap shown, refusal |-> FALSE,
           offers  |-> ChildPermissions, fresh |-> TRUE]
-----------------------------------------------------------------------------
(* Pages.                                                                  *)

Detached(requests) == {[m EXCEPT !.detached = TRUE] : m \in requests}
Abandoned(requests) == {[m EXCEPT !.detached = TRUE, !.gone = TRUE] : m \in requests}

\* A new page, or the form swapped for itself with what was typed: sections of
\* the old one are gone, and the answers to their requests have nowhere to go.
Show(kind, typed) ==
  /\ page' = [kind |-> kind, offers |-> Offers(kind), menu |-> Menu(kind), typed |-> typed, fresh |-> TRUE]
  /\ section' = IF kind = "edit" THEN Section(rows, Nil, Nil) ELSE NoSection
  /\ wire' = IF typed THEN Detached(wire) ELSE Abandoned(wire)

\* An error page, the sign-in page, or one about something else.
Away == /\ page' = [kind |-> "other", offers |-> {}, menu |-> {}, typed |-> FALSE, fresh |-> TRUE]
        /\ section' = NoSection
        /\ wire' = Abandoned(wire)

Init ==
  /\ site \in Sites /\ grants \in Roles /\ denied \in Rules /\ signed = TRUE
  /\ alive = TRUE
  /\ rows \in [Children -> {Unborn} \cup {Child(p, v) : p \in {"here", "there"}, v \in Values}]
  /\ page = [kind |-> "other", offers |-> {}, menu |-> {}, typed |-> FALSE, fresh |-> TRUE]
  /\ section = NoSection
  /\ wire = {}
  /\ left \in Budgets

\* A bookmark, the sidebar or a breadcrumb, none of which asks first.
Open(kind) ==
  /\ Spend("click")
  /\ IF Granted(kind) THEN Show(kind, FALSE) ELSE Away
  /\ UNCHANGED server

Follow(c) ==
  /\ c \in (page.offers \cup page.menu) \cap {"create", "detail", "edit", "delete"}
  /\ Open(c)

Fill == /\ page.kind = "edit" /\ ~page.typed /\ Spend("type")
        /\ page' = [page EXCEPT !.typed = TRUE]
        /\ UNCHANGED <<server, section, wire>>

Saves == {"save", "continue", "addAnother", "saveAsNew"}

\* handleEditPost, with any of its buttons: refused, refused with the form
\* shown again, or saved.
Save(c) ==
  /\ c \in page.offers \cap Saves /\ Spend("click")
  /\ \/ ~Granted(c) /\ Away
     \/ Granted(c) /\ page.typed /\ Show("edit", TRUE)
     \/ /\ Granted(c)
        /\ IF c = "saveAsNew" THEN Away   \* forbidden, or the page of another record
           ELSE LET next == CASE c = "save" -> "detail" [] c = "continue" -> "edit" [] OTHER -> "create"
                IN IF Granted(next) THEN Show(next, FALSE) ELSE Away
  /\ UNCHANGED server

\* handleDeletePost from the confirmation page: children that point at the
\* record hold it back.
Confirm ==
  /\ page.kind = "delete" /\ Spend("click")
  /\ IF ~Granted("delete") THEN Away /\ UNCHANGED server
     ELSE IF Inline(rows) # {} THEN Show("delete", FALSE) /\ UNCHANGED server
     ELSE /\ alive' = FALSE /\ Away
          /\ UNCHANGED <<access, rows>>
-----------------------------------------------------------------------------
(* Inline requests.                                                        *)

Type(k, entry) ==
  /\ section.text[k] \notin {Nil, entry} /\ Spend("type")
  /\ section' = [section EXCEPT !.text[k] = entry, !.typed = @ \cup {k}]
  /\ UNCHANGED <<server, page, wire>>

Asks(verb) == CASE verb = "add" -> "child.create" [] verb = "save" -> "child.update" [] OTHER -> "child.delete"

\* A control has one request under way at most.
Send(verb, k) ==
  /\ section.text[k] # Nil /\ (verb = "add" <=> k = "new") /\ Asks(verb) \in section.offers
  /\ Cardinality(wire) < MaxFlight /\ Spend("click")
  /\ ~\E m \in wire : m.verb = verb /\ m.key = k /\ ~m.detached
  /\ wire' = wire \cup {[verb |-> verb, key |-> k, entry |-> IF verb = "remove" THEN Nil ELSE section.text[k],
                         reply |-> Nil, detached |-> FALSE, gone |-> FALSE]}
  /\ UNCHANGED <<server, page, section>>

\* What is shown no longer follows from what the server would show now.
Outdated(requests) == {IF m.reply = Nil THEN m ELSE [m EXCEPT !.reply.section.fresh = FALSE] : m \in requests}

\* History: what had become of the visitor's session, or of the row, when the
\* request was answered.
Excuse(m) == IF ~signed THEN "session"
             ELSE IF ~SectionOffered THEN "hidden"
             ELSE IF m.key \notin Inline(rows) \cup {"new"} THEN "moved" ELSE "none"

\* 303 is redirectTo's HX-Redirect, which htmx follows wherever it came from.
Reply(m, status, shown) ==
  IF m.gone \/ (m.detached /\ status # 303) THEN wire \ {m}
  ELSE (wire \ {m}) \cup
         {[m EXCEPT !.reply = [status |-> status, section |-> shown, excuse |-> Excuse(m)]]}

\* An answer that changed nothing.
Answer(m, status, shown) == wire' = Reply(m, status, shown) /\ UNCHANGED <<server, section>>

Rebuilt(table) == Section(table, Nil, Nil)

Commit(m, table) ==
  /\ rows' = table
  /\ section' = [section EXCEPT !.fresh = FALSE]
  /\ wire' = LET others == Outdated(wire \ {m})
             IN IF m.detached THEN others
                ELSE others \cup {[m EXCEPT !.reply = [status |-> 200, section |-> Rebuilt(table),
                                                      excuse |-> Excuse(m)]]}
  /\ UNCHANGED <<access, alive>>

\* A permission that is missing: the parent's update, asked of the model, and
\* the child's.
Forbidden(m) == ~Can("update", "model") \/ (alive /\ ~Can(Asks(m.verb), "model"))
Missing(m) == ~alive \/ (m.verb = "save" /\ ~Exists(m.key))

\* handleInlineCreate, handleInlineUpdate: an empty entry is a required field
\* left out.
InlineWrite(m) ==
  /\ m.verb \in {"add", "save"} /\ ~Forbidden(m) /\ ~Missing(m)
  /\ IF m.entry = "" THEN Answer(m, 422, Section(rows, m.key, m.entry))
     ELSE \/ Answer(m, 500, NoSection)
          \/ \E k \in Children :
               /\ IF m.verb = "save" THEN k = m.key ELSE rows[k] = Unborn
               /\ Commit(m, [rows EXCEPT ![k] = Child("here", m.entry)])

\* Wrong form of Blocked, which FormSurvives refutes: to the child's own delete
\* page, as the other delete routes answer.
BlockedRedirect(m) == Answer(m, 303, NoSection)

\* A Remove its preview blocks: the section, with the reason on top.
Blocked(m) == Answer(m, 200, [Rebuilt(rows) EXCEPT !.refusal = TRUE])

\* handleInlineDelete: a child that is gone is as good as removed.
InlineDelete(m) ==
  /\ m.verb = "remove" /\ ~Forbidden(m) /\ ~Missing(m)
  /\ IF ~Exists(m.key) THEN Answer(m, 200, Rebuilt(rows))
     ELSE \/ Blocked(m)
          \/ Answer(m, 500, NoSection)
          \/ Commit(m, [rows EXCEPT ![m.key] = Dead])

\* writeAuthError first: to the sign-in page where there is one.
Serve(m) ==
  /\ m.reply = Nil
  /\ \/ ~signed /\ Answer(m, IF site.login THEN 303 ELSE 401, NoSection)
     \/ /\ signed
        /\ \/ Forbidden(m) /\ Answer(m, 403, NoSection)
           \/ ~Forbidden(m) /\ Missing(m) /\ Answer(m, 404, NoSection)
           \/ InlineWrite(m) \/ InlineDelete(m)
  /\ UNCHANGED <<page, left>>

\* theme.html: htmx swaps 200 and 422, and follows HX-Redirect; after a swap the
\* other requests' target is no longer in the page.
Receive(m) ==
  /\ m.reply # Nil
  /\ IF m.reply.status = 303 /\ ~m.gone THEN Away
     ELSE IF m.reply.status \in {200, 422} /\ ~m.detached
       THEN section' = m.reply.section /\ wire' = Detached(wire \ {m}) /\ UNCHANGED page
     ELSE wire' = wire \ {m} /\ UNCHANGED <<page, section>>
  /\ UNCHANGED <<server, left>>

\* The network loses the request or its answer.
Lose(m) == /\ wire' = wire \ {m}
           /\ UNCHANGED <<server, page, section, left>>
-----------------------------------------------------------------------------
(* Other sessions.                                                         *)

Age == /\ page' = [page EXCEPT !.fresh = FALSE]
       /\ section' = [section EXCEPT !.fresh = FALSE]
       /\ wire' = Outdated(wire)

Elsewhere ==
  /\ Spend("elsewhere") /\ Age
  /\ \/ \E k \in Children, p \in {"here", "there"}, v \in Values :
          /\ rows[k] \notin {Dead, Child(p, v)}
          /\ p = "here" => alive
          /\ rows' = [rows EXCEPT ![k] = Child(p, v)] /\ UNCHANGED alive
     \/ \E k \in Children : Exists(k) /\ rows' = [rows EXCEPT ![k] = Dead] /\ UNCHANGED alive
     \/ alive /\ Inline(rows) = {} /\ alive' = FALSE /\ UNCHANGED rows
  /\ UNCHANGED access

Regrant ==
  /\ Spend("regrant") /\ Age
  /\ grants' \in Roles /\ denied' \in Rules
  /\ <<grants, denied>>' # <<grants, denied>>
  /\ UNCHANGED <<site, signed, alive, rows>>

\* The visitor's session ends, or another tab signs in again.
Session ==
  /\ Spend("session")
  /\ signed' = ~signed
  /\ page' = [page EXCEPT !.fresh = FALSE]
  /\ UNCHANGED <<site, grants, denied, alive, rows, section, wire>>

Visitor == \/ \E kind \in {"list", "detail", "edit", "create", "delete"} : Open(kind) \/ Follow(kind)
           \/ Fill \/ Confirm
           \/ \E c \in Saves : Save(c)
           \/ \E k \in Keys : \/ \E entry \in Entries : Type(k, entry)
                              \/ \E verb \in {"add", "save", "remove"} : Send(verb, k)

Next == \/ Visitor
        \/ \E m \in wire : Serve(m) \/ Receive(m) \/ Lose(m)
        \/ Elsewhere \/ Regrant \/ Session

Spec == Init /\ [][Next]_vars
-----------------------------------------------------------------------------
(* Properties.                                                             *)

\* Every variable holds what the code can put there.
TypeOK ==
  /\ site \in Sites /\ grants \in Roles /\ denied \in Rules /\ signed \in BOOLEAN /\ alive \in BOOLEAN
  /\ rows \in [Children -> {Unborn, Dead} \cup {Child(p, v) : p \in {"here", "there"}, v \in Values}]
  /\ page.kind \in {"list", "detail", "edit", "create", "delete", "other"}
  /\ section.text \in [Keys -> Entries \cup {Nil}]
  /\ \A m \in wire : m.key \in Keys /\ m.entry \in Entries \cup {Nil} /\ (m.gone => m.detached)
  /\ left \in [Events -> Nat]

\* computePermissions and the handlers ask the same: a control of a page about
\* the model or the record, one of its inline section, and, where no rule looks
\* at records, one of a row's menu on the list, is refused only if permissions
\* or records changed, or the session ended, after it was rendered; "Save and
\* add another" and "Save as new" are not followed by a refusal either.
OffersAnswer ==
  /\ page.fresh => \A c \in page.offers \cup (IF denied = {} THEN page.menu ELSE {}) : Answered(c)
  /\ (page.kind = "edit" /\ page.fresh /\ section.fresh) =>
       \A k \in Children, verb \in {"save", "remove"} :
         (section.text[k] # Nil /\ Asks(verb) \in section.offers) =>
           LET m == [verb |-> verb, key |-> k] IN ~Forbidden(m) /\ ~Missing(m)

\* buildInlineSections after each request: unless somebody else changed a child
\* or a permission, or one of two overlapping answers was dropped, the section
\* holds a row for each child of the record and no other, with its value in
\* every row nobody typed in.
SectionIsCurrent ==
  (page.kind = "edit" /\ section.fresh /\ "child.view" \in site.caps \cap grants) =>
    \A k \in Children :
      IF Exists(k) /\ rows[k].parent = "here"
      THEN k \in section.typed \cup section.wrong \/ section.text[k] = rows[k].value
      ELSE section.text[k] = Nil

\* handleInlineDelete: no answer to an inline request, the one to a Remove that
\* is blocked included, takes away what has been typed into the record's form;
\* but for one given after the session had ended, which leads to the sign-in
\* page where there is one.
FormSurvives ==
  [][\A m \in wire : Receive(m) =>
       \/ page'.kind = page.kind /\ page'.typed = page.typed
       \/ m.reply.excuse = "session" /\ site.login]_vars

\* A refused inline row comes back with what was submitted and is marked, for
\* the add-row and for a row of a child that was changed meanwhile; but for a
\* child that was moved to another record when the request was answered, and a
\* visitor who may not view children any more, whose row goes with its entry.
EntryIsKept ==
  [][\A m \in wire :
       (Receive(m) /\ ~m.detached /\ m.reply.status = 422)
         => \/ section'.text[m.key] = m.entry /\ section'.wrong = {m.key}
            \/ m.reply.excuse \in {"hidden", "moved"} /\ section'.text[m.key] = Nil]_vars
=============================================================================
