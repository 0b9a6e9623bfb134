----------------------------- MODULE Dashboard ------------------------------
(***************************************************************************)
(* One open dashboard: the filter bar, a card per widget, the fragment     *)
(* requests that fill the cards, the search box and the endless rows of a  *)
(* table, and the exports (contrib/fiber/dashboard.go, core/dashboard.go,  *)
(* dashboard_filter.go, dashboard_widgets.go, widget_context.go, widget.go *)
(* and the scripts of templates/admin/dashboard.html).                     *)
(*                                                                         *)
(* The dashboard has a date range filter, "period", and a select filter,   *)
(* "store".  A day is a number.  Parameters that are absent, empty or      *)
(* unreadable are Nil: the code treats them alike.                         *)
(*                                                                         *)
(* Each htmx element has at most one request under way; one more that it   *)
(* is asked for meanwhile is sent when the first has come back.  The       *)
(* server reads the clock and the permissions when it serves a request,    *)
(* and the answer arrives later, so serving and receiving are two steps.   *)
(***************************************************************************)
EXTENDS Integers, Sequences, FiniteSets

CONSTANTS Dashboards,   \* the dashboards a host may declare: sequences of widgets
          Rows,         \* the host's rows, a sequence of [store, day, text]
          DefaultDays,  \* length of the default period
          Day0, Days,   \* the first day and the days that can be picked
          Stores,       \* the choices of the select filter
          Texts,        \* what can be typed into a search box
          MaxDay,       \* bound on the days that pass
          MaxEdits,     \* bound on what the reader does
          Nil

ASSUME DashboardAssumption ==
  /\ DefaultDays \in Nat /\ Day0 \in Nat /\ MaxDay \in Nat /\ MaxEdits \in Nat
  /\ Days \subseteq Nat
  /\ Nil \notin Int \cup Stores \cup Texts

ASSUME HostAssumption ==
  /\ \A ws \in Dashboards : DOMAIN ws \subseteq Nat /\ \A i \in DOMAIN ws : ws[i].size \in Nat
  /\ Len(Rows) \in Nat /\ DOMAIN Rows = 1..Len(Rows)

VARIABLES
  widgets,   \* the dashboard that was registered
  day,       \* the server's date
  granted,   \* may the reader see the widgets that name a permission?
  cards,     \* the widgets the open page has a card for
  bar,       \* the values in the filter form
  url,       \* the query of the address bar
  box,       \* box[w]: the text in w's search box
  typing,    \* the search boxes whose delay is running
  body,      \* body[w]: what w's card shows
  flight,    \* flight[e]: the request of element e under way, and its reply
  queued,    \* the elements that want one more request
  crossed,   \* history: cards asked for by two elements at once
  edits      \* how much the reader has done

page == <<cards, bar, url>>
search == <<box, typing>>
ajax == <<flight, queued, crossed>>
vars == <<widgets, day, granted, page, search, body, ajax, edits>>

FilterNames == {"period", "store"}

\* What a form or a URL says, a question to a widget, a request for more of
\* the answer, what a card shows, a reply, and a request.
Filters == [from : Int \cup {Nil}, to : Int \cup {Nil}, store : Stores \cup {Nil}]
Queries == [filters : Filters, search : Texts \cup {Nil}]
Asks == [filters : Filters, search : Texts \cup {Nil}, offset : Nat]
States == {"loading", "shown", "empty", "unavailable", "error"}
Bodies == [state : States, of : Nat \cup {Nil}, query : Queries \cup {Nil}, rows : Seq(Nat),
           next : Asks \cup {Nil}, cut : BOOLEAN]
Failed == [kind |-> "error"]
Replies == {Failed} \cup [kind : {"body", "rows"}, body : Bodies]
Pending == [asked : Asks, reply : Replies \cup {Nil}]

\* Nil is none of them.
ASSUME NilAssumption == Nil \notin Queries \cup Asks \cup Replies \cup Pending

W == DOMAIN widgets
Positions == UNION {DOMAIN ws : ws \in Dashboards}
Parts == {"body", "search", "row"}
Elements == Parts \X W
-----------------------------------------------------------------------------
(* Dashboard.Validate and what a widget declares.                          *)

\* Wrong form of ReloadsOn, which SettledCardsFollowBar refutes: without
\* WithDependsOn a widget reloads on nothing.
ReloadsOnDeclared(w) == IF w.deps = Nil THEN {} ELSE w.deps

\* WidgetReloadsOn: every filter unless WithDependsOn named some.
ReloadsOn(w) == IF w.deps = Nil THEN FilterNames ELSE w.deps \cap FilterNames

Valid(ws) ==
  /\ \A i, j \in DOMAIN ws : i # j => ws[i].key # ws[j].key
  /\ \A i \in DOMAIN ws : ws[i].deps = Nil \/ ws[i].deps \subseteq FilterNames

\* Tabs load from their route as soon as one of their panels does.
IsLazy(w) == \/ w.kind \in {"tiles", "table"}
             \/ (w.kind = "tabs" /\ w.panels \cap {"tiles", "table"} # {})

HasRows(w) == w.kind = "table" \/ (w.kind = "tabs" /\ "table" \in w.panels)

VisibleWidgets == {i \in W : ~widgets[i].guarded \/ granted}
-----------------------------------------------------------------------------
(* Filters: query parameters to values and back.                           *)

Bare == [from |-> Nil, to |-> Nil, store |-> Nil]

DateInputs == Days \cup {Nil}

\* Wrong form of Parse, which UrlIsTheDashboard refutes: a reversed range is
\* unreadable.
ParseReversed(q, today) ==
  IF q.from # Nil /\ q.to # Nil /\ q.from <= q.to THEN q
  ELSE [from |-> today - DefaultDays, to |-> today, store |-> q.store]

\* DateRangeFilter.Parse and SelectFilter.Parse: an end that is missing is the
\* default's, and a reversed range is swapped.
Parse(q, today) ==
  LET start == IF q.from = Nil THEN today - DefaultDays ELSE q.from
      end == IF q.to = Nil THEN today ELSE q.to
  IN [from |-> IF start > end THEN end ELSE start,
      to |-> IF start > end THEN start ELSE end, store |-> q.store]

\* Dashboard.QueryParams: always explicit dates.
QueryParams(filters) == filters

\* hx-include: the filter form and the card's search box, as they are when the
\* request is sent.
Included(e, filters, text) == [filters |-> filters, search |-> text, offset |-> 0]
-----------------------------------------------------------------------------
(* The host: rows in a fixed order, a page of them per call.               *)

InQuery(row, q) == /\ row.day \in q.filters.from .. q.filters.to
                   /\ q.filters.store \in {Nil, row.store}
                   /\ q.search \in {Nil, row.text}

\* Positions of the rows that match, in order: the k-th has k - 1 of them
\* before it.
Matching(q) ==
  LET found == {i \in DOMAIN Rows : InQuery(Rows[i], q)}
  IN [k \in 1..Cardinality(found) |->
        CHOOSE i \in found : Cardinality({j \in found : j < i}) = k - 1]

\* A limit of 0 asks for everything.
Items(q, offset, limit) ==
  LET all == Matching(q)
  IN SubSeq(all, offset + 1, IF limit = 0 \/ offset + limit > Len(all) THEN Len(all) ELSE offset + limit)

\* Wrong form of NextOffset, which TableIsOneQuery refutes: any page shorter
\* than the limit is the last, and any full one is not, whatever the total.
NextOffsetFull(items, offset, limit, total) ==
  IF Len(items) < limit \/ limit = 0 THEN Nil ELSE limit

\* NextOffset: Nil after the last page.  A host may not know the total.
NextOffset(items, offset, limit, total) ==
  IF \/ limit = 0 \/ items = <<>>
     \/ IF total = Nil THEN Len(items) # limit ELSE offset + Len(items) >= total
  THEN Nil ELSE offset + Len(items)
-----------------------------------------------------------------------------
(* RenderWidgetFragment: the reply to one fragment request.                *)

Loading == [state |-> "loading", of |-> Nil, query |-> Nil, rows |-> <<>>, next |-> Nil, cut |-> FALSE]

\* A card of a widget that renders with the page (renderWidgetBodyAndData).
Static(w) == [Loading EXCEPT !.state = "shown", !.of = w]

\* handleWidgetFragment: the first visible widget with the key of the URL.
Resolve(key) ==
  LET found == {i \in VisibleWidgets : widgets[i].key = key}
  IN {i \in found : \A j \in found : i <= j}

Limit(w) == IF w.kind = "table" THEN w.size ELSE 0

\* A widget's data: rows from the offset on, where more of them start, and
\* whether there is nothing to show.  Tabs hand their panels no limit.
Data(w, q, offset) ==
  LET items == IF HasRows(w) THEN Items(q, offset, Limit(w)) ELSE <<>>
      total == IF w.total THEN Len(Matching(q)) ELSE Nil
  IN [items |-> items,
      next |-> IF w.kind = "table" THEN NextOffset(items, offset, Limit(w), total) ELSE Nil,
      empty |-> w.kind = "table" /\ offset = 0 /\ items = <<>>]

\* widgetFailure: a card that is unavailable; after the first page, a row that
\* says so and leads no further.
Apology(i, offset) ==
  IF offset = 0 THEN [kind |-> "body", body |-> [Loading EXCEPT !.state = "unavailable", !.of = i]]
  ELSE [kind |-> "rows", body |-> [Loading EXCEPT !.of = i, !.cut = TRUE]]

Reply(i, asked, ok) ==
  LET q == [filters |-> Parse(asked.filters, day), search |-> asked.search]
      data == Data(widgets[i], q, asked.offset)
      more == [filters |-> QueryParams(q.filters), search |-> q.search, offset |-> data.next]
  IN IF ~IsLazy(widgets[i])
     THEN [kind |-> "body", body |-> Static(i)]
     ELSE IF ~ok THEN Apology(i, asked.offset)
     ELSE [kind |-> IF asked.offset > 0 THEN "rows" ELSE "body",
           body |-> [state |-> IF data.empty THEN "empty" ELSE "shown", of |-> i, query |-> q,
                     rows |-> data.items, next |-> IF data.next = Nil THEN Nil ELSE more, cut |-> FALSE]]
-----------------------------------------------------------------------------
(* htmx: requests of elements.                                             *)

Idle(e) == flight[e] = Nil

\* Another element's request for the same card is under way.
Crossing(e) == \E part \in {"body", "search"} \ {e[1]} : e[1] # "row" /\ ~Idle(<<part, e[2]>>)

Request(asked) == [asked |-> asked, reply |-> Nil]

\* The elements in S ask for their cards, the busy ones when they are free.
Issue(S) ==
  LET free == {e \in S : Idle(e)}
  IN /\ flight' = [e \in Elements |-> IF e \in free THEN Request(Included(e, bar', box'[e[2]]))
                                      ELSE flight[e]]
     /\ queued' = queued \cup (S \ free)
     /\ crossed' = {w \in W : \E e \in free : e[2] = w /\ Crossing(e)} \cup
                   {w \in crossed : ~\E e \in free : e[2] = w}

\* Element e has its answer and sends the request that waited for it.  The
\* rows of a card that is replaced are gone, and their request with them.
Settle(e, replaced) ==
  LET after == [flight EXCEPT ![e] = IF e \in queued THEN Request(Included(e, bar, box[e[2]])) ELSE Nil]
  IN /\ flight' = IF replaced THEN [after EXCEPT ![<<"row", e[2]>>] = Nil] ELSE after
     /\ queued' = queued \ {e}
     /\ crossed' = IF e \in queued
                   THEN IF Crossing(e) THEN crossed \cup {e[2]} ELSE crossed \ {e[2]}
                   ELSE crossed
-----------------------------------------------------------------------------
(* RenderDashboard: a page with the filters of query q.                    *)

\* The elements with a "load" trigger.
Loads(shown) == {<<"body", w>> : w \in {i \in shown : IsLazy(widgets[i])}}

\* The page that is open is replaced: its requests are abandoned, and the
\* cards that are lazy ask for their content.
Render(q) ==
  /\ cards' = VisibleWidgets
  /\ url' = q
  /\ bar' = Parse(q, day)
  /\ box' = [w \in W |-> Nil]
  /\ typing' = {}
  /\ body' = [w \in W |-> IF w \in VisibleWidgets /\ ~IsLazy(widgets[w]) THEN Static(w) ELSE Loading]
  /\ flight' = [e \in Elements |->
                  IF e \in Loads(VisibleWidgets)
                  THEN Request(Included(e, Parse(q, day), Nil)) ELSE Nil]
  /\ queued' = {} /\ crossed' = {}
  /\ UNCHANGED <<widgets, day, granted>>

Init ==
  /\ widgets \in {ws \in Dashboards : Valid(ws)}
  /\ day = Day0
  /\ granted = TRUE
  /\ cards = W
  /\ url = Bare
  /\ bar = Parse(Bare, Day0)
  /\ box = [w \in W |-> Nil]
  /\ typing = {}
  /\ body = [w \in W |-> IF IsLazy(widgets[w]) THEN Loading ELSE Static(w)]
  /\ flight = [e \in Elements |-> IF e \in Loads(W)
                                  THEN Request(Included(e, Parse(Bare, Day0), Nil))
                                  ELSE Nil]
  /\ queued = {} /\ crossed = {}
  /\ edits = 0
-----------------------------------------------------------------------------
(* The reader.                                                             *)

Edit == edits < MaxEdits /\ edits' = edits + 1

\* polyadminDashboardFilterChanged: the address bar takes the form's values
\* and the cards that depend on the filter ask again.
ChangeFilter(name) ==
  /\ Edit
  /\ IF name = "store"
     THEN \E s \in (Stores \cup {Nil}) \ {bar.store} : bar' = [bar EXCEPT !.store = s]
     ELSE \E part \in {"from", "to"} : \E d \in DateInputs \ {bar[part]} : bar' = [bar EXCEPT ![part] = d]
  /\ url' = bar'
  /\ UNCHANGED <<widgets, day, granted, cards, search, body>>
  /\ Issue({<<"body", w>> : w \in {i \in cards : name \in ReloadsOn(widgets[i])}})

Type(w) ==
  /\ Edit
  /\ w \in cards /\ widgets[w].searchable
  /\ \E text \in (Texts \cup {Nil}) \ {box[w]} : box' = [box EXCEPT ![w] = text]
  /\ typing' = typing \cup {w}
  /\ UNCHANGED <<widgets, day, granted, page, body, ajax>>

\* The delay of the search box is over.
Search(w) ==
  /\ w \in typing
  /\ typing' = typing \ {w}
  /\ UNCHANGED <<widgets, day, granted, page, box, body, edits>>
  /\ Issue({<<"search", w>>})

\* The row after the last comes into view, once.
Scroll(w) ==
  /\ body[w].next # Nil /\ Idle(<<"row", w>>)
  /\ flight' = [flight EXCEPT ![<<"row", w>>] = Request(body[w].next)]
  /\ UNCHANGED <<widgets, day, granted, page, search, body, queued, crossed, edits>>

Retry(w) ==
  /\ Edit
  /\ body[w].state = "error"
  /\ UNCHANGED <<widgets, day, granted, page, search, body>>
  /\ Issue({<<"body", w>>})

Reload == Edit /\ Render(url)

\* Enter in the filter form submits it to the dashboard's own URL.
Apply == Edit /\ Render(bar)

\* A shared link.
Open == Edit /\ \E from, to \in Days : Render([from |-> from, to |-> to, store |-> Nil])

\* handleDashboardExport: the filters of a file asked for now.  The button
\* submits the filter form, and the handler changes nothing.
Exported == Parse(bar, day)

NewDay == /\ day < Day0 + MaxDay
          /\ day' = day + 1
          /\ UNCHANGED <<widgets, granted, page, search, body, ajax, edits>>

\* The host withdraws the permission that guarded widgets name.
Withdraw == /\ granted /\ \E w \in W : widgets[w].guarded
            /\ granted' = FALSE
            /\ UNCHANGED <<widgets, day, page, search, body, ajax, edits>>
-----------------------------------------------------------------------------
(* A request on its way.                                                   *)

\* The server's side: one handler call.  The host's data function may fail.
Serve(e) ==
  /\ ~Idle(e) /\ flight[e].reply = Nil
  /\ \E ok \in BOOLEAN :
       LET to == Resolve(widgets[e[2]].key)
       IN flight' = [flight EXCEPT ![e].reply = IF to = {} THEN Failed
                                   ELSE Reply(CHOOSE i \in to : TRUE, flight[e].asked, ok)]
  /\ UNCHANGED <<widgets, day, granted, page, search, body, queued, crossed, edits>>

\* Wrong form of ShowError, which CardsLoad refutes: a failed request is
\* forgotten.
ShowErrorNever(e) == body' = body /\ Settle(e, FALSE)

\* The error template replaces the whole card, also when it was a row's
\* request that failed.
ShowError(e) ==
  /\ body' = [body EXCEPT ![e[2]] = [Loading EXCEPT !.state = "error"]]
  /\ Settle(e, TRUE)

\* The row that asked is replaced by the rows of the reply.
AppendRows(shown, more) ==
  [shown EXCEPT !.rows = @ \o more.rows, !.next = more.next, !.cut = more.cut]

Receive(e) ==
  /\ ~Idle(e) /\ flight[e].reply # Nil
  /\ LET reply == flight[e].reply
         w == e[2]
     IN CASE reply.kind = "error" -> ShowError(e)
          [] reply.kind = "rows"  -> /\ body' = [body EXCEPT ![w] = AppendRows(@, reply.body)]
                                     /\ Settle(e, FALSE)
          [] reply.kind = "body"  -> /\ body' = [body EXCEPT ![w] = reply.body]
                                     /\ Settle(e, TRUE)
  /\ UNCHANGED <<widgets, day, granted, page, search, edits>>

\* The request, or its answer, never arrives.
Lose(e) == /\ ~Idle(e)
           /\ ShowError(e)
           /\ UNCHANGED <<widgets, day, granted, page, search, edits>>
-----------------------------------------------------------------------------
Reader == \/ \E name \in FilterNames : ChangeFilter(name)
          \/ \E w \in W : Type(w) \/ Search(w) \/ Scroll(w) \/ Retry(w)
          \/ Reload \/ Apply \/ Open

Server(e) == e \in Elements /\ (Serve(e) \/ Receive(e))

Next == \/ Reader \/ NewDay \/ Withdraw
        \/ \E e \in Elements : Server(e) \/ Lose(e)

\* The handlers run and the network delivers; nothing is assumed of readers.
Spec == Init /\ [][Next]_vars /\ \A e \in Parts \X Positions : WF_vars(Server(e))
-----------------------------------------------------------------------------
(* Properties.                                                             *)

Shown(w) == body[w].state \in {"shown", "empty"}

\* Nothing is under way for a lazy card but perhaps more rows, and its box and
\* the bar have not asked at the same time.
AtRest(w) == /\ Shown(w) /\ IsLazy(widgets[w]) /\ w \notin crossed \cup typing
             /\ \A e \in Elements : e[2] = w /\ e[1] # "row" => Idle(e)

\* Type invariant: values of the page's state, and an element's request is
\* one its card could have sent.
TypeOK ==
  /\ day \in Day0 .. Day0 + MaxDay /\ granted \in BOOLEAN /\ edits \in 0 .. MaxEdits
  /\ cards \subseteq W /\ typing \subseteq cards /\ crossed \subseteq cards
  /\ bar \in Filters /\ url \in Filters /\ box \in [W -> Texts \cup {Nil}]
  /\ body \in [W -> Bodies] /\ flight \in [Elements -> Pending \cup {Nil}]
  /\ \A w \in W : /\ body[w].state # "loading" => w \in cards
                  /\ body[w].next # Nil => Shown(w)
  /\ queued \subseteq {e \in Elements : e[1] # "row" /\ ~Idle(e)}
  /\ \A e \in Elements : ~Idle(e) => /\ e[2] \in cards
                                     /\ e[1] = "row" <=> flight[e].asked.offset > 0

\* The rows of a card are the beginning of the answer to one question, in
\* order and without gaps, whatever was asked meanwhile and although midnight
\* moved the default period; and without a link to more they are all of it,
\* unless a page failed, which the card says (RenderWidgetFragment: nextURL).
TableIsOneQuery ==
  \A w \in cards : Shown(w) /\ HasRows(widgets[w]) =>
    LET all == Matching(body[w].query)
    IN /\ body[w].rows = SubSeq(all, 1, Len(body[w].rows))
       /\ body[w].next = Nil /\ ~body[w].cut => body[w].rows = all
       /\ body[w].next # Nil => body[w].next.offset = Len(body[w].rows)

\* What WithDependsOn promises: without it, every filter.
Depends(w, name) == widgets[w].deps = Nil \/ name \in widgets[w].deps

\* A card at rest shows its own widget's content (requireUnique), and what the
\* bar and its search box say, for the filters it depends on, unless the box
\* and the bar asked for it at the same time (WidgetReloadsOn, hx-include, one
\* request per element).
SettledCardsFollowBar ==
  \A w \in cards :
    AtRest(w) =>
       /\ body[w].of = w
       /\ body[w].query.search = box[w]
       /\ \E today \in Day0 .. day :
            LET now == Parse(bar, today)
                then == body[w].query.filters
            IN /\ Depends(w, "store") => then.store = now.store
               /\ Depends(w, "period") => then.from = now.from /\ then.to = now.to

\* "A filtered dashboard is a plain URL you can reload or share"
\* (docs/dashboard.md): once the URL names a period, it means on every day
\* what the bar shows; and an export asked for now covers what the cards at
\* rest show that depend on every filter (handleDashboardExport).
UrlIsTheDashboard ==
  /\ url.from # Nil /\ url.to # Nil => Parse(url, day) = Parse(bar, day)
  /\ \A w \in cards :
       AtRest(w) /\ widgets[w].deps = Nil /\ bar.from # Nil /\ bar.to # Nil
         => Exported = body[w].query.filters

\* No card stays at "Loading…": content, an apology or an error with a way to
\* retry replaces it (showError, widgetFailure).
CardsLoad == \A i \in Positions : []<>(i \in cards => body[i].state # "loading")
=============================================================================
