------------------------- MODULE RecordPages_proofs -------------------------
(***************************************************************************)
(* Proofs about RecordPages for any children, values and sets of           *)
(* permissions, and any number of overlapping inline requests.             *)
(***************************************************************************)
EXTENDS RecordPages, TLAPS

Rows == {Unborn, Dead} \cup {Child(p, v) : p \in {"here", "there"}, v \in Values}

Kinds == {"list", "detail", "edit", "create", "delete", "other"}

Shown == [kind : Kinds, offers : SUBSET DOMAIN Route, menu : SUBSET DOMAIN Route,
          typed : BOOLEAN, fresh : BOOLEAN]

Sections == [text : [Keys -> Entries \cup {Nil}], typed : SUBSET Keys, wrong : SUBSET Keys,
             refusal : BOOLEAN, offers : SUBSET ChildActions, fresh : BOOLEAN]

Statuses == {200, 303, 401, 403, 404, 422, 500}

Replies == [status : Statuses, section : Sections, excuse : {"session", "hidden", "moved", "none"}]

Messages == {m \in [verb : {"add", "save", "remove"}, key : Keys, entry : Entries \cup {Nil},
                    reply : Replies \cup {Nil}, detached : BOOLEAN, gone : BOOLEAN] :
               /\ m.verb # "remove" => m.entry \in Entries
               /\ m.verb = "add" <=> m.key = "new"}

Types == /\ rows \in [Children -> Rows]
         /\ page \in Shown /\ section \in Sections /\ wire \subseteq Messages

\* Section s shows the record's children in table, and offers what the visitor
\* may do to them.
CurrentIn(s, table) ==
  s.fresh =>
    /\ s.offers \subseteq ChildPermissions
    /\ \A k \in Children :
         IF SectionOffered /\ k \in Inline(table)
         THEN k \in s.typed \cup s.wrong \/ s.text[k] = table[k].value
         ELSE s.text[k] = Nil

Current(s) == CurrentIn(s, rows)

\* The row of a refused request, in the section that answers it.
Kept(m) == \/ m.reply.section.text[m.key] = m.entry /\ m.reply.section.wrong = {m.key}
           \/ m.reply.excuse \in {"hidden", "moved"} /\ m.reply.section.text[m.key] = Nil

\* What a request's answer brings.
Brings(m) ==
  m.reply # Nil => /\ m.reply.status \in {200, 422} => Current(m.reply.section)
                   /\ m.reply.status = 422 => Kept(m)
                   /\ m.reply.status = 303 => m.reply.excuse = "session" /\ site.login

\* A page that is up to date offers what is answered.
Honest ==
  page.fresh => /\ page.kind = "edit" => Granted("edit")
                /\ \A c \in page.offers : Answered(c)
                /\ denied = {} => \A c \in page.menu : Answered(c)

\* What a section offers, and a request asks for, the ModelAdmin allows at all.
Meek(s) == s.offers \subseteq site.caps
Able(m) == Asks(m.verb) \in site.caps /\ (m.reply # Nil => Meek(m.reply.section))
Capable == Meek(section) /\ \A m \in wire : Able(m)

IInv == /\ Types /\ Honest
        /\ page.kind = "edit" => Current(section)
        /\ \A m \in wire : Brings(m)
-----------------------------------------------------------------------------
(* Sections and pages.                                                     *)

LEMMA SectionIsTyped ==
  ASSUME NEW table \in [Children -> Rows], NEW key \in Keys \cup {Nil}, NEW entry \in Entries \cup {Nil}
  PROVE  Section(table, key, entry) \in Sections
<1>1. NoSection \in Sections
  BY DEF NoSection, Sections
<1>2. \A k \in Inline(table) : k \in Children /\ table[k].value \in Values
  BY DEF Inline, Rows, Unborn, Dead, Child
<1>3. ChildPermissions \subseteq ChildActions
  BY DEF ChildPermissions
<1> DEFINE shown == Inline(table) \cup (IF "child.create" \in ChildPermissions THEN {"new"} ELSE {})
<1>4. shown \subseteq Keys
  BY <1>2 DEF Keys
<1>5. \A k \in shown : Redisplayed(table, k, key, entry) \in Entries \cup {Nil}
  BY <1>2 DEF Redisplayed, Entries
<1>6. CASE SectionOffered
  <2>1. Section(table, key, entry) =
          [text    |-> [k \in Keys |-> IF k \in shown THEN Redisplayed(table, k, key, entry) ELSE Nil],
           typed   |-> {}, wrong |-> {key} \cap shown, refusal |-> FALSE,
           offers  |-> ChildPermissions, fresh |-> TRUE]
    BY <1>6 DEF Section
  <2> HIDE DEF shown
  <2>2. [k \in Keys |-> IF k \in shown THEN Redisplayed(table, k, key, entry) ELSE Nil]
          \in [Keys -> Entries \cup {Nil}]
    BY <1>5
  <2> QED BY <1>3, <1>4, <2>1, <2>2 DEF Sections
<1>7. CASE ~SectionOffered
  BY <1>1, <1>7 DEF Section
<1> QED BY <1>6, <1>7

\* buildInlineSections shows the children there are, and the refused row as it
\* was submitted.
LEMMA SectionIsRight ==
  ASSUME NEW table, NEW key, NEW entry
  PROVE  /\ CurrentIn(Section(table, key, entry), table)
         /\ key \in Keys =>
              LET s == Section(table, key, entry)
              IN \/ s.text[key] = entry /\ s.wrong = {key}
                 \/ /\ s.text[key] = Nil
                    /\ ~SectionOffered \/ (key = "new" /\ "child.create" \notin ChildPermissions)
                       \/ key \notin Inline(table) \cup {"new"}
<1> DEFINE s == Section(table, key, entry)
           shown == Inline(table) \cup (IF "child.create" \in ChildPermissions THEN {"new"} ELSE {})
<1>1. CASE SectionOffered
  <2>1. /\ s.offers = ChildPermissions /\ s.wrong = {key} \cap shown
        /\ \A k \in Keys : s.text[k] = IF k \in shown THEN Redisplayed(table, k, key, entry) ELSE Nil
    BY <1>1 DEF Section
  <2> HIDE DEF s
  <2>2. \A k \in Children : k \in Keys /\ k # "new" /\ (k \in shown <=> k \in Inline(table))
    BY RecordPagesAssumption DEF Keys
  <2>3. CurrentIn(s, table)
    BY <1>1, <2>1, <2>2 DEF CurrentIn, Redisplayed
  <2>4. CASE key \in shown
    BY <2>1, <2>3, <2>4 DEF Redisplayed, s
  <2>5. CASE key \notin shown
    BY <2>1, <2>3, <2>5 DEF s
  <2> QED BY <2>4, <2>5
<1>2. CASE ~SectionOffered
  <2>1. s.offers = {} /\ \A k \in Keys : s.text[k] = Nil
    BY <1>2 DEF Section, NoSection
  <2> HIDE DEF s
  <2>2. CurrentIn(s, table)
    BY <1>2, <2>1 DEF CurrentIn, Keys
  <2> QED BY <1>2, <2>1, <2>2 DEF s
<1> QED BY <1>1, <1>2

\* A page shown to who may have it offers what is answered.
LEMMA OffersGranted ==
  ASSUME NEW kind \in Kinds \ {"other"}, Granted(kind)
  PROVE  /\ Offers(kind) \subseteq DOMAIN Route /\ Menu(kind) \subseteq DOMAIN Route
         /\ \A c \in Offers(kind) : Answered(c)
         /\ denied = {} => \A c \in Menu(kind) : Answered(c)
<1> USE DEF Route, Granted, Answered, Permissions, Can, Actions
<1>1. DOMAIN Route = {"list", "export", "create", "detail", "edit", "save", "continue", "saveAsNew", "addAnother",
                      "delete", "confirm", "child"}
  OBVIOUS
<1>2. Offers(kind) \subseteq DOMAIN Route /\ \A c \in Offers(kind) : Answered(c)
  <2>1. CASE kind = "list"
    BY <1>1, <2>1 DEF Offers
  <2>2. CASE kind = "detail"
    BY <1>1, <2>2 DEF Offers, SectionOffered
  <2>3. CASE kind = "edit"
    BY <1>1, <2>3 DEF Offers
  <2>4. CASE kind = "delete"
    BY <1>1, <2>4 DEF Offers
  <2>5. CASE kind = "create"
    BY <1>1, <2>5 DEF Offers
  <2> QED BY <2>1, <2>2, <2>3, <2>4, <2>5 DEF Kinds
<1>3. /\ Menu(kind) \subseteq DOMAIN Route
      /\ denied = {} => \A c \in Menu(kind) : Answered(c)
  BY <1>1 DEF Menu
<1> QED BY <1>2, <1>3
-----------------------------------------------------------------------------
(* The pages.                                                              *)

\* Nothing of what is said of sections rests on more than this.
LEMMA CurrentKept ==
  ASSUME UNCHANGED <<site, grants, rows>>, NEW s
  PROVE  Current(s)' <=> Current(s)
BY DEF Current, CurrentIn, SectionOffered, ChildPermissions, Can, Inline

LEMMA AnsweredKept ==
  ASSUME UNCHANGED <<access, alive>>, NEW c
  PROVE  (Granted(c)' <=> Granted(c)) /\ (Answered(c)' <=> Answered(c))
BY DEF access, Granted, Answered, Permissions, Can, Route

\* Requests whose section has left the page bring nothing new.
LEMMA DetachedFine ==
  ASSUME Types, NEW requests, requests \subseteq wire, \A m \in wire : Brings(m)
  PROVE  /\ Detached(requests) \subseteq Messages /\ \A m \in Detached(requests) : Brings(m)
         /\ Abandoned(requests) \subseteq Messages /\ \A m \in Abandoned(requests) : Brings(m)
<1> SUFFICES ASSUME NEW m \in requests, NEW d,
                    d = [m EXCEPT !.detached = TRUE] \/ d = [m EXCEPT !.detached = TRUE, !.gone = TRUE]
             PROVE  d \in Messages /\ Brings(d)
  BY DEF Detached, Abandoned
<1>1. m \in Messages /\ Brings(m)
  BY DEF Types
<1>2. d \in Messages /\ d.reply = m.reply /\ d.key = m.key /\ d.entry = m.entry
  BY <1>1 DEF Messages
<1>3. Brings(d)
  BY <1>1, <1>2 DEF Brings, Kept
<1> QED BY <1>2, <1>3

LEMMA ShowStep ==
  ASSUME IInv, UNCHANGED server, NEW kind \in Kinds \ {"other"}, Granted(kind), NEW typed \in BOOLEAN,
         Show(kind, typed)
  PROVE  IInv'
<1>1. UNCHANGED <<site, grants, denied, signed, alive, rows>> /\ rows \in [Children -> Rows]
  BY DEF access, server, IInv, Types
<1>2. /\ page' = [kind |-> kind, offers |-> Offers(kind), menu |-> Menu(kind), typed |-> typed, fresh |-> TRUE]
      /\ section' = IF kind = "edit" THEN Section(rows, Nil, Nil) ELSE NoSection
      /\ wire' = IF typed THEN Detached(wire) ELSE Abandoned(wire)
  BY DEF Show
<1>3. section' \in Sections
  BY <1>1, <1>2, SectionIsTyped DEF NoSection, Sections
<1>4. page' \in Shown
  BY <1>2, OffersGranted DEF Shown
<1>5. wire' \subseteq Messages /\ \A m \in wire' : Brings(m)
  BY <1>2, DetachedFine DEF IInv
<1>6. \A m \in wire' : Brings(m)'
  BY <1>1, <1>5, CurrentKept DEF Brings, Kept
<1>7. page'.kind = "edit" => Current(section')
  BY <1>2, SectionIsRight DEF Current
<1>8. (page.kind = "edit" => Current(section))'
  BY <1>1, <1>7 DEF Current, CurrentIn, SectionOffered, ChildPermissions, Can, Inline
<1>9. Honest'
  <2>1. /\ page'.kind = "edit" => Granted("edit")
        /\ \A c \in page'.offers : Answered(c)
        /\ denied = {} => \A c \in page'.menu : Answered(c)
    BY <1>2, OffersGranted
  <2> QED BY <1>1, <2>1, AnsweredKept DEF Honest, access
<1> QED BY <1>1, <1>3, <1>4, <1>5, <1>6, <1>8, <1>9 DEF IInv, Types

LEMMA AwayStep ==
  ASSUME IInv, UNCHANGED <<access, rows>>, Away
  PROVE  IInv'
<1>1. /\ page' = [kind |-> "other", offers |-> {}, menu |-> {}, typed |-> FALSE, fresh |-> TRUE]
      /\ section' = NoSection /\ wire' = Abandoned(wire) /\ UNCHANGED <<site, grants, denied, rows>>
  BY DEF Away, access
<1>2. section' \in Sections /\ page' \in Shown /\ Honest'
  BY <1>1 DEF NoSection, Sections, Shown, Kinds, Honest
<1>3. wire' \subseteq Messages /\ \A m \in wire' : Brings(m)
  BY <1>1, DetachedFine DEF IInv
<1>4. \A m \in wire' : Brings(m)'
  BY <1>1, <1>3, CurrentKept DEF Brings, Kept
<1> QED BY <1>1, <1>2, <1>3, <1>4 DEF IInv, Types

LEMMA OpenStep ==
  ASSUME IInv, NEW kind \in Kinds \ {"other"}, Open(kind)
  PROVE  IInv'
<1>1. CASE Granted(kind)
  BY <1>1, ShowStep DEF Open
<1>2. CASE ~Granted(kind)
  BY <1>2, AwayStep DEF Open, server
<1> QED BY <1>1, <1>2

LEMMA SaveStep ==
  ASSUME IInv, NEW c, Save(c)
  PROVE  IInv'
<1>1. c \in Saves /\ UNCHANGED server
  BY DEF Save
<1>2. Granted(c) => Granted("edit")
  BY <1>1 DEF Saves, Granted, Route
<1>3. CASE Away
  BY <1>1, <1>3, AwayStep DEF server
<1>4. CASE Granted(c) /\ Show("edit", TRUE)
  BY <1>1, <1>2, <1>4, ShowStep DEF Kinds
<1>5. CASE \E kind \in {"detail", "edit", "create"} : Granted(kind) /\ Show(kind, FALSE)
  BY <1>1, <1>5, ShowStep DEF Kinds
<1> QED BY <1>3, <1>4, <1>5 DEF Save

LEMMA ConfirmStep ==
  ASSUME IInv, Confirm
  PROVE  IInv'
<1>1. CASE Away /\ UNCHANGED <<access, rows>>
  BY <1>1, AwayStep
<1>2. CASE Granted("delete") /\ Show("delete", FALSE) /\ UNCHANGED server
  BY <1>2, ShowStep DEF Kinds
<1> QED BY <1>1, <1>2 DEF Confirm, server

LEMMA FillStep ==
  ASSUME IInv, Fill
  PROVE  IInv'
<1>1. /\ page' = [page EXCEPT !.typed = TRUE] /\ page \in Shown
      /\ UNCHANGED <<site, grants, denied, signed, alive, rows, section, wire>>
  BY DEF Fill, access, server, IInv, Types
<1>2. /\ page' \in Shown /\ page'.kind = page.kind /\ page'.offers = page.offers /\ page'.menu = page.menu
      /\ page'.fresh = page.fresh
  BY <1>1 DEF Shown
<1>3. Honest'
  BY <1>1, <1>2, AnsweredKept DEF access, IInv, Honest
<1>4. \A m \in wire' : Brings(m)'
  BY <1>1, CurrentKept DEF IInv, Brings, Kept
<1>5. (page.kind = "edit" => Current(section))'
  BY <1>1, <1>2 DEF IInv, Current, CurrentIn, SectionOffered, ChildPermissions, Can, Inline
<1> QED BY <1>1, <1>2, <1>3, <1>4, <1>5 DEF IInv, Types
-----------------------------------------------------------------------------
(* The inline section and its requests.                                    *)

LEMMA TypeStep ==
  ASSUME IInv, NEW k \in Keys, NEW entry \in Entries, Type(k, entry)
  PROVE  IInv'
<1>1. /\ section.text[k] # Nil /\ section' = [section EXCEPT !.text[k] = entry, !.typed = @ \cup {k}]
      /\ UNCHANGED <<site, grants, denied, signed, alive, rows, page, wire>> /\ section \in Sections
  BY DEF Type, access, server, IInv, Types
<1>2. /\ section' \in Sections /\ section'.fresh = section.fresh /\ section'.offers = section.offers
      /\ section'.wrong = section.wrong /\ section'.typed = section.typed \cup {k}
      /\ \A j \in Keys : section'.text[j] = IF j = k THEN entry ELSE section.text[j]
  BY <1>1 DEF Sections
<1>3. Current(section) => Current(section')
  BY <1>1, <1>2 DEF Current, CurrentIn, Keys
<1>4. (page.kind = "edit" => Current(section))'
  BY <1>1, <1>3 DEF IInv, Current, CurrentIn, SectionOffered, ChildPermissions, Can, Inline
<1>5. Honest' /\ \A m \in wire' : Brings(m)'
  BY <1>1, AnsweredKept, CurrentKept DEF access, IInv, Honest, Brings, Kept
<1> QED BY <1>1, <1>2, <1>4, <1>5 DEF IInv, Types

\* Sending, losing and dropping requests.
LEMMA WireStep ==
  ASSUME IInv, UNCHANGED <<server, page, section>>, wire' \subseteq Messages,
         \A m \in wire' : m \in wire \/ m.reply = Nil
  PROVE  IInv'
<1>1. UNCHANGED <<site, grants, denied, signed, alive, rows>>
  BY DEF access, server
<1>2. Honest' /\ \A m \in wire' : Brings(m)'
  BY <1>1, AnsweredKept, CurrentKept DEF access, IInv, Honest, Brings, Kept
<1>3. (page.kind = "edit" => Current(section))'
  BY <1>1 DEF IInv, Current, CurrentIn, SectionOffered, ChildPermissions, Can, Inline
<1> QED BY <1>1, <1>2, <1>3 DEF IInv, Types

LEMMA SendStep ==
  ASSUME IInv, NEW verb \in {"add", "save", "remove"}, NEW k \in Keys, Send(verb, k)
  PROVE  IInv'
<1>1. section \in Sections /\ section.text[k] \in Entries \cup {Nil}
  BY DEF IInv, Types, Sections
<1> DEFINE m == [verb |-> verb, key |-> k, entry |-> IF verb = "remove" THEN Nil ELSE section.text[k],
                 reply |-> Nil, detached |-> FALSE, gone |-> FALSE]
<1>2. m \in Messages /\ m.reply = Nil
  BY <1>1 DEF Messages, Send
<1> HIDE DEF m
<1>3. wire' = wire \cup {m} /\ UNCHANGED <<server, page, section>>
  BY DEF Send, m
<1> QED BY <1>2, <1>3, WireStep DEF IInv, Types

\* An answer that changed nothing.
LEMMA AnswerStep ==
  ASSUME IInv, NEW m \in wire, NEW status \in Statuses, NEW shown \in Sections,
         Answer(m, status, shown), UNCHANGED page,
         status \in {200, 422} => Current(shown),
         status = 422 => \/ shown.text[m.key] = m.entry /\ shown.wrong = {m.key}
                         \/ Excuse(m) \in {"hidden", "moved"} /\ shown.text[m.key] = Nil,
         status = 303 => Excuse(m) = "session" /\ site.login
  PROVE  IInv'
<1> DEFINE reply == [status |-> status, section |-> shown, excuse |-> Excuse(m)]
           a == [m EXCEPT !.reply = reply]
<1>1. UNCHANGED <<site, grants, denied, signed, alive, rows, page, section>> /\ m \in Messages
  BY DEF Answer, access, server, IInv, Types
<1>2. reply \in Replies
  BY DEF Replies, Excuse
<1>3. /\ a \in Messages /\ a.reply.status = status /\ a.reply.section = shown /\ a.reply.excuse = Excuse(m)
      /\ a.key = m.key /\ a.entry = m.entry
  BY <1>1, <1>2 DEF Messages
<1>4. wire' \subseteq wire \cup {a}
  BY DEF Answer, Reply
<1> HIDE DEF a, reply
<1>5. Brings(a)
  BY <1>3 DEF Brings, Kept
<1>6. Honest' /\ \A x \in wire' : Brings(x)'
  BY <1>1, <1>4, <1>5, AnsweredKept, CurrentKept DEF access, IInv, Honest, Brings, Kept
<1>7. (page.kind = "edit" => Current(section))'
  BY <1>1 DEF IInv, Current, CurrentIn, SectionOffered, ChildPermissions, Can, Inline
<1> QED BY <1>1, <1>3, <1>4, <1>6, <1>7 DEF IInv, Types

\* What is out of date is known to be.
LEMMA OutdatedFine ==
  ASSUME Types, NEW requests, requests \subseteq wire, \A m \in wire : Brings(m)
  PROVE  /\ Outdated(requests) \subseteq Messages
         /\ \A m \in Outdated(requests) : /\ m.reply # Nil => ~m.reply.section.fresh
                                          /\ Brings(m)
<1> SUFFICES ASSUME NEW q \in requests, NEW m, m = (IF q.reply = Nil THEN q ELSE [q EXCEPT !.reply.section.fresh = FALSE])
             PROVE  /\ m \in Messages
                    /\ m.reply # Nil => ~m.reply.section.fresh
                    /\ Brings(m)
  BY DEF Outdated
<1>1. q \in Messages /\ Brings(q)
  BY DEF Types
<1>2. CASE q.reply = Nil
  BY <1>1, <1>2
<1>3. CASE q.reply # Nil
  <2>1. q.reply \in Replies
    BY <1>1, <1>3 DEF Messages
  <2>2. q.reply.section \in Sections
    BY <2>1 DEF Replies
  <2> DEFINE sec == [q.reply.section EXCEPT !.fresh = FALSE]
             rep == [q.reply EXCEPT !.section = sec]
  <2>3. sec \in Sections /\ sec.fresh = FALSE /\ sec.text = q.reply.section.text /\ sec.wrong = q.reply.section.wrong
    BY <2>2 DEF Sections
  <2>4. rep \in Replies /\ rep.section = sec /\ rep.status = q.reply.status /\ rep.excuse = q.reply.excuse
    BY <2>1, <2>3 DEF Replies
  <2>5. m = [q EXCEPT !.reply = rep]
    BY <1>3
  <2> HIDE DEF sec, rep
  <2>6. m \in Messages /\ m.reply = rep /\ m.key = q.key /\ m.entry = q.entry
    BY <1>1, <2>4, <2>5 DEF Messages
  <2>7. Current(m.reply.section) /\ ~m.reply.section.fresh
    BY <2>3, <2>4, <2>6 DEF Current, CurrentIn
  <2>8. Kept(m) <=> Kept(q)
    BY <2>3, <2>4, <2>6 DEF Kept
  <2>9. Brings(m)
    BY <1>1, <1>3, <2>4, <2>6, <2>7, <2>8 DEF Brings
  <2> QED BY <2>6, <2>7, <2>9
<1> QED BY <1>2, <1>3

LEMMA CommitStep ==
  ASSUME IInv, NEW m \in wire, NEW table \in [Children -> Rows], Commit(m, table), UNCHANGED page
  PROVE  IInv'
<1> DEFINE shown == Section(table, Nil, Nil)
           reply == [status |-> 200, section |-> shown, excuse |-> Excuse(m)]
           a == [m EXCEPT !.reply = reply]
<1>1. /\ rows' = table /\ UNCHANGED <<site, grants, denied, signed, alive, page>> /\ m \in Messages
      /\ section \in Sections /\ section' = [section EXCEPT !.fresh = FALSE]
  BY DEF Commit, access, IInv, Types
<1>2. section' \in Sections /\ section'.fresh = FALSE
  BY <1>1 DEF Sections
<1>3. shown \in Sections /\ CurrentIn(shown, table)
  BY SectionIsTyped, SectionIsRight
<1>4. wire' \subseteq Outdated(wire \ {m}) \cup {a}
  BY DEF Commit, Rebuilt
<1> HIDE DEF shown
<1>5. reply \in Replies
  BY <1>3 DEF Replies, Statuses, Excuse
<1>6. a \in Messages /\ a.reply.status = 200 /\ a.reply.section = shown
  BY <1>1, <1>5 DEF Messages
<1> HIDE DEF a, reply
<1>7. wire' \subseteq Messages
  BY <1>4, <1>6, OutdatedFine DEF IInv
<1>8. \A x \in wire' : x.reply # Nil => /\ CurrentIn(x.reply.section, table)
                                        /\ x.reply.status = 422 => Kept(x)
                                        /\ x.reply.status = 303 => x.reply.excuse = "session" /\ site.login
  BY <1>3, <1>4, <1>6, OutdatedFine DEF IInv, CurrentIn, Brings
<1>9. ASSUME NEW x \in wire' PROVE Brings(x)'
  <2>1. x.reply # Nil => CurrentIn(x.reply.section, table)'
    BY <1>1, <1>8 DEF CurrentIn, SectionOffered, ChildPermissions, Can, Inline
  <2> QED BY <1>1, <1>8, <2>1 DEF Brings, Kept, Current
<1>10. Honest'
  BY <1>1, AnsweredKept DEF access, IInv, Honest
<1>11. (page.kind = "edit" => Current(section))'
  BY <1>2 DEF Current, CurrentIn
<1> QED BY <1>1, <1>2, <1>7, <1>9, <1>10, <1>11 DEF IInv, Types

\* An answer with nothing to swap in.
LEMMA RefuseStep ==
  ASSUME IInv, NEW m \in wire, NEW status \in Statuses \ {200, 422}, Answer(m, status, NoSection), UNCHANGED page,
         status = 303 => ~signed /\ site.login
  PROVE  IInv'
<1>1. NoSection \in Sections
  BY DEF NoSection, Sections
<1>2. ~signed => Excuse(m) = "session"
  BY DEF Excuse
<1> QED BY <1>1, <1>2, AnswerStep

LEMMA ServeStep ==
  ASSUME IInv, Capable, NEW m \in wire, Serve(m)
  PROVE  IInv'
<1>1. /\ m \in Messages /\ m.key \in Keys /\ m.entry \in Entries \cup {Nil} /\ rows \in [Children -> Rows]
      /\ UNCHANGED page
  BY DEF Serve, IInv, Types, Messages
<1>2. CASE \E status \in {401, 403, 404, 500} : Answer(m, status, NoSection)
  BY <1>1, <1>2, RefuseStep DEF Statuses
<1>3. CASE ~signed /\ site.login /\ Answer(m, 303, NoSection)
  BY <1>1, <1>3, RefuseStep DEF Statuses
<1>4. CASE signed /\ InlineWrite(m)
  <2>1. CASE Answer(m, 422, Section(rows, m.key, m.entry))
    <3> DEFINE s == Section(rows, m.key, m.entry)
    <3>1. s \in Sections
      BY <1>1, SectionIsTyped
    <3>2. /\ Current(s)
          /\ \/ s.text[m.key] = m.entry /\ s.wrong = {m.key}
             \/ /\ s.text[m.key] = Nil
                /\ ~SectionOffered \/ (m.key = "new" /\ "child.create" \notin ChildPermissions)
                   \/ m.key \notin Inline(rows) \cup {"new"}
      BY <1>1, SectionIsRight DEF Current
    <3> HIDE DEF s
    <3>3. m.key = "new" => "child.create" \in ChildPermissions
      BY <1>1, <1>4 DEF Messages, Capable, Able, InlineWrite, Forbidden, Missing, Asks, ChildPermissions, ChildActions
    <3>4. \/ s.text[m.key] = m.entry /\ s.wrong = {m.key}
          \/ Excuse(m) \in {"hidden", "moved"} /\ s.text[m.key] = Nil
      BY <1>4, <3>2, <3>3 DEF Excuse
    <3> QED BY <1>1, <2>1, <3>1, <3>2, <3>4, AnswerStep DEF Statuses, s
  <2>2. CASE m.entry # "" /\ \E k \in Children : Commit(m, [rows EXCEPT ![k] = Child("here", m.entry)])
    <3>1. PICK k \in Children : Commit(m, [rows EXCEPT ![k] = Child("here", m.entry)])
      BY <2>2
    <3>2. m.entry \in Values
      BY <1>1, <1>4, <2>2 DEF InlineWrite, Messages, Entries
    <3>3. Child("here", m.entry) \in Rows
      BY <3>2 DEF Rows
    <3>4. [rows EXCEPT ![k] = Child("here", m.entry)] \in [Children -> Rows]
      BY <1>1, <3>3
    <3> QED BY <1>1, <3>1, <3>4, CommitStep
  <2> QED BY <1>2, <1>4, <2>1, <2>2 DEF InlineWrite
<1>5. CASE signed /\ InlineDelete(m)
  <2>1. /\ Rebuilt(rows) \in Sections /\ Current(Rebuilt(rows))
        /\ [Rebuilt(rows) EXCEPT !.refusal = TRUE] \in Sections /\ Current([Rebuilt(rows) EXCEPT !.refusal = TRUE])
    <3> DEFINE s == Rebuilt(rows)
    <3>1. s \in Sections /\ Current(s)
      BY <1>1, SectionIsTyped, SectionIsRight DEF Rebuilt, Current
    <3> HIDE DEF s
    <3> DEFINE t == [s EXCEPT !.refusal = TRUE]
    <3>2. /\ t \in Sections /\ t.fresh = s.fresh /\ t.offers = s.offers /\ t.text = s.text
          /\ t.typed = s.typed /\ t.wrong = s.wrong
      BY <3>1 DEF Sections
    <3> HIDE DEF t
    <3>3. Current(t)
      BY <3>1, <3>2 DEF Current, CurrentIn
    <3> QED BY <3>1, <3>2, <3>3 DEF s, t
  <2>2. CASE Answer(m, 200, Rebuilt(rows)) \/ Blocked(m)
    BY <1>1, <2>1, <2>2, AnswerStep DEF Blocked, Statuses
  <2>3. CASE Commit(m, [rows EXCEPT ![m.key] = Dead])
    <3>1. Dead \in Rows
      BY DEF Rows
    <3>2. [rows EXCEPT ![m.key] = Dead] \in [Children -> Rows]
      BY <1>1, <3>1
    <3> QED BY <1>1, <2>3, <3>2, CommitStep
  <2> QED BY <1>2, <1>5, <2>2, <2>3 DEF InlineDelete
<1> QED BY <1>2, <1>4, <1>5, <1>3 DEF Serve

LEMMA ReceiveStep ==
  ASSUME IInv, NEW m \in wire, Receive(m)
  PROVE  /\ IInv'
         /\ UNCHANGED page \/ (m.reply.excuse = "session" /\ site.login)
         /\ ~m.detached /\ m.reply.status = 422 =>
              \/ section'.text[m.key] = m.entry /\ section'.wrong = {m.key}
              \/ m.reply.excuse \in {"hidden", "moved"} /\ section'.text[m.key] = Nil
<1>1. /\ m \in Messages /\ m.reply \in Replies /\ m.reply.section \in Sections
      /\ Brings(m) /\ UNCHANGED server
  BY DEF Receive, IInv, Types, Messages, Replies
<1>2. CASE /\ UNCHANGED <<page, section>> /\ wire' = wire \ {m}
           /\ m.detached \/ m.reply.status # 422
  <2>1. IInv'
    BY <1>1, <1>2, WireStep DEF IInv, Types
  <2> QED BY <1>2, <2>1
<1>3. CASE m.reply.status = 303 /\ Away
  <2>1. IInv'
    BY <1>1, <1>3, AwayStep DEF server
  <2>2. m.reply.excuse = "session" /\ site.login
    BY <1>1, <1>3 DEF Brings, Receive
  <2> QED BY <1>3, <2>1, <2>2
<1>4. CASE /\ section' = m.reply.section /\ wire' = Detached(wire \ {m}) /\ UNCHANGED page
           /\ m.reply.status \in {200, 422}
  <2>1. UNCHANGED <<site, grants, denied, signed, alive, rows>>
    BY <1>1 DEF access, server
  <2>2. wire' \subseteq Messages /\ \A x \in wire' : Brings(x)
    BY <1>4, DetachedFine DEF IInv
  <2>3. Current(section') /\ m.reply # Nil
    BY <1>1, <1>4 DEF Brings, Receive
  <2>4. (page.kind = "edit" => Current(section))'
    BY <2>1, <2>3 DEF Current, CurrentIn, SectionOffered, ChildPermissions, Can, Inline
  <2>5. Honest'
    BY <1>4, <2>1, AnsweredKept DEF access, IInv, Honest
  <2>6. \A x \in wire' : Brings(x)'
    BY <2>1, <2>2, CurrentKept DEF Brings, Kept
  <2>7. IInv'
    BY <1>1, <1>4, <2>1, <2>2, <2>4, <2>6, <2>5 DEF IInv, Types
  <2> QED BY <1>1, <1>4, <2>3, <2>7 DEF Brings, Kept
<1> QED BY <1>1, <1>2, <1>4, <1>3 DEF Receive
-----------------------------------------------------------------------------
(* Other sessions, and every step.                                         *)

LEMMA AgeStep ==
  ASSUME IInv, Age, site' = site, rows' \in [Children -> Rows]
  PROVE  IInv'
<1>1. /\ page' = [page EXCEPT !.fresh = FALSE] /\ section' = [section EXCEPT !.fresh = FALSE]
      /\ wire' = Outdated(wire) /\ page \in Shown /\ section \in Sections
  BY DEF Age, IInv, Types
<1>2. page' \in Shown /\ page'.fresh = FALSE /\ section' \in Sections /\ section'.fresh = FALSE
  BY <1>1 DEF Shown, Sections
<1>3. /\ wire' \subseteq Messages
      /\ \A m \in wire' : Brings(m) /\ (m.reply # Nil => ~m.reply.section.fresh)
  BY <1>1, OutdatedFine DEF IInv
<1>4. \A m \in wire' : Brings(m)'
  BY <1>3 DEF Brings, Kept, Current, CurrentIn
<1> QED BY <1>2, <1>3, <1>4 DEF IInv, Types, Honest, Current, CurrentIn

\* The end of a session changes no record and no permission.
LEMMA SessionStep == IInv /\ Session => IInv'
<1> SUFFICES ASSUME IInv, Session PROVE IInv'
  OBVIOUS
<1>1. /\ page' = [page EXCEPT !.fresh = FALSE] /\ page \in Shown
      /\ UNCHANGED <<site, grants, denied, alive, rows, section, wire>>
  BY DEF Session, IInv, Types
<1>2. page' \in Shown /\ page'.fresh = FALSE /\ page'.kind = page.kind
  BY <1>1 DEF Shown
<1>3. \A m \in wire' : Brings(m)'
  BY <1>1, CurrentKept DEF IInv, Brings, Kept
<1>4. (page.kind = "edit" => Current(section))'
  BY <1>1, <1>2 DEF IInv, Current, CurrentIn, SectionOffered, ChildPermissions, Can, Inline
<1> QED BY <1>1, <1>2, <1>3, <1>4 DEF IInv, Types, Honest

LEMMA OthersStep == IInv /\ (Elsewhere \/ Regrant) => IInv'
<1> SUFFICES ASSUME IInv, Elsewhere \/ Regrant PROVE IInv'
  OBVIOUS
<1>1. rows \in [Children -> Rows]
  BY DEF IInv, Types
<1>2. CASE Elsewhere
  <2>1. Age /\ site' = site
    BY <1>2 DEF Elsewhere, access
  <2>2. \/ UNCHANGED rows
        \/ \E k \in Children, row \in Rows : rows' = [rows EXCEPT ![k] = row]
    BY <1>2 DEF Elsewhere, Rows
  <2>3. rows' \in [Children -> Rows]
    BY <1>1, <2>2
  <2> QED BY <2>1, <2>3, AgeStep
<1>3. CASE Regrant
  BY <1>1, <1>3, AgeStep DEF Regrant
<1> QED BY <1>2, <1>3

LEMMA VisitorStep == IInv /\ Visitor => IInv'
<1> SUFFICES ASSUME IInv, Visitor PROVE IInv'
  OBVIOUS
<1>1. CASE \E kind \in {"list", "detail", "edit", "create", "delete"} : Open(kind) \/ Follow(kind)
  BY <1>1, OpenStep DEF Follow, Kinds
<1> QED BY <1>1, FillStep, ConfirmStep, SaveStep, TypeStep, SendStep DEF Visitor

LEMMA NextStep == IInv /\ Capable /\ [Next]_vars => IInv'
<1> SUFFICES ASSUME IInv, Capable, [Next]_vars PROVE IInv'
  OBVIOUS
<1>1. ASSUME NEW m \in wire, Lose(m) PROVE IInv'
  <2>1. wire' = wire \ {m} /\ UNCHANGED <<server, page, section>>
    BY <1>1 DEF Lose
  <2> QED BY <2>1, WireStep DEF IInv, Types
<1>2. CASE UNCHANGED vars
  <2>1. wire' = wire /\ UNCHANGED <<server, page, section>>
    BY <1>2 DEF vars
  <2> QED BY <2>1, WireStep DEF IInv, Types
<1> QED BY <1>1, <1>2, VisitorStep, ServeStep, ReceiveStep, OthersStep, SessionStep DEF Next

\* No swap, answer or new page offers what the ModelAdmin does not allow at all.
LEMMA CapableStep == IInv /\ Capable /\ [Next]_vars => Capable'
<1> SUFFICES ASSUME IInv, Capable, [Next]_vars PROVE Capable'
  OBVIOUS
<1> USE DEF Meek, Able
<1>1. wire \subseteq Messages /\ section \in Sections /\ site' = site
  BY DEF IInv, Types, Next, vars, server, access, Visitor, Open, Follow, Fill, Confirm, Save, Type, Send, Serve, Answer,
         InlineWrite, InlineDelete, Blocked, Commit, Receive, Lose, Elsewhere, Regrant, Session
<1>2. ASSUME NEW requests, requests \subseteq wire
      PROVE  \A m \in Detached(requests) \cup Abandoned(requests) \cup Outdated(requests) : Able(m)
  <2> SUFFICES ASSUME NEW m \in requests,
                      NEW n \in {[m EXCEPT !.detached = TRUE], [m EXCEPT !.detached = TRUE, !.gone = TRUE],
                                 IF m.reply = Nil THEN m ELSE [m EXCEPT !.reply.section.fresh = FALSE]}
               PROVE  Able(n)
    BY DEF Detached, Abandoned, Outdated
  <2>1. m \in Messages /\ Able(m)
    BY <1>1, <1>2 DEF Capable
  <2>2. m.reply # Nil => m.reply \in Replies
    BY <2>1 DEF Messages
  <2>3. CASE n = [m EXCEPT !.detached = TRUE] \/ n = [m EXCEPT !.detached = TRUE, !.gone = TRUE]
    <3>1. n.verb = m.verb /\ n.reply = m.reply
      BY <2>1, <2>3 DEF Messages
    <3> QED BY <2>1, <3>1
  <2>4. CASE n = (IF m.reply = Nil THEN m ELSE [m EXCEPT !.reply.section.fresh = FALSE]) /\ m.reply # Nil
    <3>1. n.verb = m.verb /\ n.reply.section.offers = m.reply.section.offers
      BY <2>1, <2>2, <2>4 DEF Messages, Replies, Sections
    <3> QED BY <2>1, <2>4, <3>1
  <2> QED BY <2>1, <2>3, <2>4
<1>3. \A table, key, entry : Meek(Section(table, key, entry))
  BY DEF Section, NoSection, ChildPermissions
<1>4. Meek(NoSection)
  BY DEF NoSection
<1>5. ASSUME NEW kind, NEW typed, Show(kind, typed) PROVE Capable'
  BY <1>1, <1>2, <1>3, <1>4, <1>5 DEF Show, Capable
<1>6. CASE Away
  BY <1>1, <1>2, <1>4, <1>6 DEF Away, Capable
<1>7. CASE wire' \subseteq wire /\ section' = section
  BY <1>1, <1>7 DEF Capable
<1>8. CASE Age
  <2>1. section'.offers = section.offers
    BY <1>1, <1>8 DEF Age, Sections
  <2> QED BY <1>1, <1>2, <1>8, <2>1 DEF Age, Capable
<1>9. ASSUME NEW m \in wire, NEW status, NEW shown, Meek(shown), Answer(m, status, shown) PROVE Capable'
  <2> DEFINE a == [m EXCEPT !.reply = [status |-> status, section |-> shown, excuse |-> Excuse(m)]]
  <2>1. a.verb = m.verb /\ a.reply.section = shown
    BY <1>1 DEF Messages
  <2>2. wire' \subseteq wire \cup {a} /\ section' = section
    BY <1>9 DEF Answer, Reply
  <2> HIDE DEF a
  <2> QED BY <1>1, <1>9, <2>1, <2>2 DEF Capable
<1>10. ASSUME NEW m \in wire, NEW table, Commit(m, table) PROVE Capable'
  <2> DEFINE a == [m EXCEPT !.reply = [status |-> 200, section |-> Rebuilt(table), excuse |-> Excuse(m)]]
  <2>1. a.verb = m.verb /\ a.reply.section = Rebuilt(table)
    BY <1>1 DEF Messages
  <2>2. wire' \subseteq Outdated(wire \ {m}) \cup {a} /\ section' = [section EXCEPT !.fresh = FALSE]
    BY <1>10 DEF Commit
  <2> HIDE DEF a
  <2>3. section'.offers = section.offers
    BY <1>1, <2>2 DEF Sections
  <2> QED BY <1>1, <1>2, <1>3, <2>1, <2>2, <2>3 DEF Capable, Rebuilt
<1>11. ASSUME NEW m \in wire, Serve(m) PROVE Capable'
  <2>1. Meek([Rebuilt(rows) EXCEPT !.refusal = TRUE]) /\ Meek(Rebuilt(rows))
    BY <1>3 DEF Rebuilt, Section, NoSection
  <2> QED BY <1>3, <1>4, <1>9, <1>10, <1>11, <2>1 DEF Serve, InlineWrite, InlineDelete, Blocked
<1>12. ASSUME NEW m \in wire, Receive(m) PROVE Capable'
  <2>1. CASE section' = m.reply.section /\ wire' = Detached(wire \ {m})
    BY <1>1, <1>2, <1>12, <2>1 DEF Receive, Capable
  <2> QED BY <1>6, <1>7, <1>12, <2>1 DEF Receive
<1>13. ASSUME NEW k, NEW entry, Type(k, entry) PROVE Capable'
  <2>1. section'.offers = section.offers /\ wire' = wire
    BY <1>1, <1>13 DEF Type, Sections
  <2> QED BY <1>1, <2>1 DEF Capable
<1>14. ASSUME NEW verb, NEW k, Send(verb, k) PROVE Capable'
  <2> DEFINE m == [verb |-> verb, key |-> k, entry |-> IF verb = "remove" THEN Nil ELSE section.text[k],
                   reply |-> Nil, detached |-> FALSE, gone |-> FALSE]
  <2>1. wire' = wire \cup {m} /\ section' = section /\ Asks(m.verb) \in section.offers /\ m.reply = Nil
    BY <1>14 DEF Send
  <2> HIDE DEF m
  <2> QED BY <1>1, <2>1 DEF Capable
<1>15. CASE Visitor
  <2>1. CASE \E kind \in {"list", "detail", "edit", "create", "delete"} : Open(kind) \/ Follow(kind)
    BY <1>5, <1>6, <2>1 DEF Follow, Open
  <2>2. CASE Fill
    BY <1>7, <2>2 DEF Fill
  <2>3. CASE Confirm
    BY <1>5, <1>6, <2>3 DEF Confirm
  <2>4. CASE \E c \in Saves : Save(c)
    BY <1>5, <1>6, <2>4 DEF Save
  <2> QED BY <1>13, <1>14, <1>15, <2>1, <2>2, <2>3, <2>4 DEF Visitor
<1>16. CASE UNCHANGED vars
  BY <1>7, <1>16 DEF vars
<1> QED BY <1>7, <1>8, <1>11, <1>12, <1>15, <1>16 DEF Next, Lose, Elsewhere, Regrant, Session

LEMMA InitIInv == Init => IInv /\ Capable
<1> SUFFICES ASSUME Init PROVE IInv /\ Capable
  OBVIOUS
<1>1. Types
  BY DEF Init, Types, Rows, Shown, Kinds, NoSection, Sections
<1>2. Capable
  BY DEF Init, Capable, Meek, NoSection
<1> QED BY <1>1, <1>2 DEF Init, IInv, Honest

LEMMA Invariance == Spec => []IInv
BY InitIInv, NextStep, CapableStep, PTL DEF Spec
-----------------------------------------------------------------------------
(* The properties of RecordPages.                                          *)

\* Pages and handlers agree: for every combination of capabilities, permissions
\* and per-object rules, what a page or a section that is up to date offers is
\* answered.
THEOREM OffersAreAnswered == Spec => []OffersAnswer
<1>1. IInv => OffersAnswer
  <2> SUFFICES ASSUME IInv PROVE OffersAnswer
    OBVIOUS
  <2>1. page.fresh => \A c \in page.offers \cup (IF denied = {} THEN page.menu ELSE {}) : Answered(c)
    BY DEF IInv, Honest
  <2>2. ASSUME page.kind = "edit", page.fresh, section.fresh, NEW k \in Children, NEW verb \in {"save", "remove"},
               section.text[k] # Nil, Asks(verb) \in section.offers
        PROVE  LET m == [verb |-> verb, key |-> k] IN ~Forbidden(m) /\ ~Missing(m)
    <3>1. alive /\ Can("update", "model")
      BY <2>2 DEF IInv, Honest, Granted, Route
    <3>2. Asks(verb) \in ChildPermissions /\ Exists(k)
      BY <2>2 DEF IInv, Current, CurrentIn, Inline, Exists
    <3>3. Can(Asks(verb), "model")
      BY <3>2 DEF ChildPermissions
    <3> QED BY <3>1, <3>2, <3>3 DEF Forbidden, Missing
  <2> QED BY <2>1, <2>2 DEF OffersAnswer
<1> QED BY <1>1, Invariance, PTL

\* However inline requests overlap, are refused, lost or answered out of order,
\* a section that no later commit made old shows the record's children.
THEOREM SectionShowsChildren == Spec => []SectionIsCurrent
<1>1. IInv => SectionIsCurrent
  BY DEF IInv, Current, CurrentIn, SectionOffered, Can, Inline, Exists, SectionIsCurrent
<1> QED BY <1>1, Invariance, PTL

\* No answer to an inline request takes the visitor away from the half-filled
\* form of the record, or empties it, unless the session had ended when it was
\* given and there is a page to sign in on.
THEOREM FormIsKept == Spec => FormSurvives
<1>1. IInv /\ [Next]_vars =>
        [\A m \in wire : Receive(m) =>
           \/ page'.kind = page.kind /\ page'.typed = page.typed
           \/ m.reply.excuse = "session" /\ site.login]_vars
  BY ReceiveStep
<1> QED BY <1>1, Invariance, PTL DEF Spec, FormSurvives

\* A refused row comes back as it was submitted and marked, although the child
\* was changed or deleted meanwhile; it goes only if the child was another
\* record's when the request was answered, or its children hidden from who asks.
THEOREM RefusedRowIsKept == Spec => EntryIsKept
<1>1. IInv /\ [Next]_vars =>
        [\A m \in wire :
           (Receive(m) /\ ~m.detached /\ m.reply.status = 422)
             => \/ section'.text[m.key] = m.entry /\ section'.wrong = {m.key}
                \/ m.reply.excuse \in {"hidden", "moved"} /\ section'.text[m.key] = Nil]_vars
  BY ReceiveStep
<1> QED BY <1>1, Invariance, PTL DEF Spec, EntryIsKept
=============================================================================
