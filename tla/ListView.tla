------------------------------ MODULE ListView ------------------------------
(***************************************************************************)
(* Browsing one list page: the request a URL means, the page it shows, and *)
(* the URLs and forms of that page's controls, followed by a reader while  *)
(* other sessions create and delete records and midnight passes            *)
(* (contrib/fiber/handlers.go handleList, contrib/fiber/render.go,         *)
(* core/query.go, core/pagination.go, core/filter.go,                      *)
(* contrib/gorm/query.go).                                                 *)
(*                                                                         *)
(* The list has a search box, a boolean filter "flag" that may have a      *)
(* default, and a date filter "day".  A raw day is a sequence of days:     *)
(* <<>> is the empty value, <<0>> the preset "today", <<from, to>> a range *)
(* in which 0 is an input left blank.                                      *)
(***************************************************************************)
EXTENDS Integers, FiniteSets, Sequences

CONSTANTS
  Content,          \* Content[k]: what record k holds, were it in the table
  LastDay,          \* the last day; the server's clock starts the day before
  FlagDefault,      \* the value storage assumes for an absent "flag", or Nil
  DefaultOrdering,  \* the ModelAdmin's
  Sortable,         \* its SortableFields
  AdminSize,        \* its PageSize; 0 when it names none
  DefaultPageSize,  \* core.DefaultPageSize and render.go's defaultPageSize
  Sizes,            \* pageSizeChoices
  MaxChanges,       \* bound on the changes of other sessions
  Nil

ASSUME ListAssumption ==
  /\ LastDay \in Nat \ {0, 1} /\ MaxChanges \in Nat
  /\ Content \in Seq([found : BOOLEAN, flag : BOOLEAN, day : 1..LastDay])
  /\ FlagDefault \in {Nil, "true", "false"}
  /\ DefaultOrdering \in {"", "day", "-day", "flag", "-flag"} /\ Sortable \subseteq {"day", "flag"}
  /\ AdminSize \in Nat /\ DefaultPageSize \in Nat \ {0} /\ Sizes \subseteq Nat \ {0}

VARIABLES
  source,    \* which path of ListObjects the ModelAdmin takes
  present,   \* the records in the table
  changes,   \* how often another session changed it
  today,     \* the server's date
  pc,        \* where the request is
  url,       \* the query of the URL the browser asked for
  via,       \* the control that led there
  wanted,    \* history: the request its reader meant
  asof,      \* history: the value of changes and the days of the page "next" is on
  total,     \* what Count answered, the value of changes then, and the days
  shown,     \* the last page shown
  walk       \* history: the rows of an unbroken walk over "next" from page 1

vars == <<source, present, changes, today, pc, url, via, wanted, asof, total, shown, walk>>
-----------------------------------------------------------------------------
Days == 1..LastDay
Preset == <<0>>
Sorts == {"", "day", "-day", "flag", "-flag"}
FlagRaw == {"", "true", "false", "TRUE", "other"}
DayRaw == {<<>>, Preset} \cup ((0..LastDay) \X (0..LastDay))

Requests == [search : BOOLEAN, flag : FlagRaw \cup {Nil}, day : DayRaw \cup {Nil}, sort : Sorts,
             page : Nat, size : Nat]

\* Nil is no value of any other kind.
ASSUME NilAssumption ==
  /\ Nil \notin Nat \cup FlagRaw \cup DayRaw \cup Seq(DOMAIN Content)
  /\ Nil \notin [n : Nat, at : Nat, days : SUBSET Days]
  /\ Nil \notin [req : Requests, items : Seq(DOMAIN Content), total : Nat,
                days : SUBSET Days, at : Nat, upto : Nat]

(* A URL's query, and the ListRequest it is parsed into.  Nil is a         *)
(* parameter the URL does not have.                                        *)

\* FoldRangeParams: the range form's two inputs become the filter's value.
FoldRange(u) == IF u.range = Nil THEN u.day ELSE IF u.range = <<0, 0>> THEN Nil ELSE u.range

Parse(u) == [search |-> u.search, flag |-> u.flag, day |-> FoldRange(u), sort |-> u.sort,
             page |-> IF u.page = Nil THEN 1 ELSE u.page, size |-> IF u.size = Nil THEN 0 ELSE u.size]

Column(sort) == IF sort \in {"day", "-day"} THEN "day" ELSE "flag"

\* A sort the admin does not offer is dropped; an absent one is the admin's.
ApplyDefaults(r) ==
  [r EXCEPT !.sort = IF @ = "" \/ Column(@) \notin Sortable THEN DefaultOrdering ELSE @,
            !.size = IF @ < 1 THEN AdminSize ELSE @]

Request == ApplyDefaults(Parse(url))

\* What Window and PageOf make of a page and a size that are not positive.
Number(r) == IF r.page < 1 THEN 1 ELSE r.page
Limit(r) == IF r.size < 1 THEN DefaultPageSize ELSE r.size
-----------------------------------------------------------------------------
(* What a request selects.                                                 *)

\* BooleanFilter.Apply, in memory, and its translation in filters.go, which
\* does not mind the case.  Anything but a "true" asks for false.
Truthy(src) == IF src = "query" THEN {"true", "TRUE"} ELSE {"true"}

Defaulted == source = "query" /\ FlagDefault # Nil

\* DefaultFilters apply until the reader picks the filter.
Flag(r) == IF r.flag # Nil THEN r.flag ELSE IF Defaulted THEN FlagDefault ELSE ""

FlagFits(src, raw, k) == raw = "" \/ Content[k].flag = (raw \in Truthy(src))

\* DateFilterRange: a blank start, and an end before the start, are not a
\* window and narrow nothing; a blank end is today, on the day it is asked.
WindowOn(date, raw) ==
  IF raw \in {Nil, <<>>} THEN Days
  ELSE IF Len(raw) = 1 THEN {date}
  ELSE LET end == IF raw[2] = 0 THEN date ELSE raw[2]
       IN IF raw[1] = 0 \/ end < raw[1] THEN Days ELSE raw[1]..end

Window(raw) == WindowOn(today, raw)

\* A record on one of the days of a window.
Matches(r, days, k) == /\ r.search => Content[k].found
                       /\ FlagFits(source, Flag(r), k)
                       /\ Content[k].day \in days

Rank(sort, k) == IF sort = "" THEN 0
                 ELSE IF Column(sort) = "day" THEN Content[k].day
                 ELSE IF Content[k].flag THEN 1 ELSE 0

\* Ties keep the order of the primary keys, whichever way the list is sorted.
Before(sort, j, k) ==
  IF Rank(sort, j) = Rank(sort, k) THEN j < k
  ELSE IF sort \in {"day", "flag"} THEN Rank(sort, j) < Rank(sort, k) ELSE Rank(sort, j) > Rank(sort, k)

\* Records in order: the i-th is the one that i - 1 of them precede.
Ordered(S, sort) ==
  [i \in 1..Cardinality(S) |->
     CHOOSE k \in S : Cardinality({j \in S : Before(sort, j, k)}) = i - 1]

\* Every matching record, in order: the list, an export, "select all".
ListingOn(r, days) == Ordered({k \in present : Matches(r, days, k)}, r.sort)

Listing(r) == ListingOn(r, Window(r.day))

\* Wrong form of PageRows, which WalkCoversList refutes: the page number is
\* not made zero-based.
PageRowsFromOne(r, list) ==
  LET offset == Number(r) * Limit(r)
  IN SubSeq(list, offset + 1, IF offset + Limit(r) < Len(list) THEN offset + Limit(r) ELSE Len(list))

\* Offset and limit of the page.
PageRows(r, list) ==
  LET offset == (Number(r) - 1) * Limit(r)
  IN SubSeq(list, offset + 1, IF offset + Limit(r) < Len(list) THEN offset + Limit(r) ELSE Len(list))
-----------------------------------------------------------------------------
(* The page and its controls.                                              *)

NumPages(p) == IF p.total <= 0 THEN 1 ELSE (p.total + Limit(p.req) - 1) \div Limit(p.req)
HasPrevious(p) == Number(p.req) > 1
HasNext(p) == Number(p.req) < NumPages(p)

\* Wrong form of ListURL, which LinksKeepTheRest refutes: an empty filter is
\* left out like any other empty parameter.
ListURLDropsEmpty(r, page) ==
  [search |-> r.search, flag |-> IF r.flag = "" THEN Nil ELSE r.flag, day |-> r.day, range |-> Nil,
   sort |-> r.sort, page |-> IF page > 1 THEN page ELSE Nil,
   size |-> IF r.size > 0 /\ r.size # DefaultPageSize THEN r.size ELSE Nil]

\* listURL: page 1 and the default size are left out, a filter that is
\* there is kept even when it is empty.
ListURL(r, page) ==
  [search |-> r.search, flag |-> r.flag, day |-> r.day, range |-> Nil, sort |-> r.sort,
   page |-> IF page > 1 THEN page ELSE Nil,
   size |-> IF r.size > 0 /\ r.size # DefaultPageSize THEN r.size ELSE Nil]

\* Wrong form of ListForm, which SelectionIsList refutes: the same slip.
ListFormDropsEmpty(r) ==
  [search |-> r.search, flag |-> IF r.flag = "" THEN Nil ELSE r.flag, day |-> r.day, range |-> Nil,
   sort |-> r.sort, page |-> Nil, size |-> Nil]

\* exportQuery, and the hidden fields of the search box and of the bulk
\* action form: neither page nor size.
ListForm(r) ==
  [search |-> r.search, flag |-> r.flag, day |-> r.day, range |-> Nil, sort |-> r.sort,
   page |-> Nil, size |-> Nil]

FlagChoices == {"", "true", "false"}
DayChoices == {<<>>, Preset}

\* The value of a choice link; "All" drops the filter unless it has a default.
Chosen(value, empty, keepEmpty) == IF value = empty /\ ~keepEmpty THEN Nil ELSE value

\* filterChoiceSelected: the choices a page marks.
SelectedFlags(r) ==
  {c \in FlagChoices : /\ c = (IF r.flag = Nil THEN "" ELSE r.flag)
                       /\ r.flag # Nil \/ ~Defaulted \/ c # ""}
-----------------------------------------------------------------------------
(* The reader.                                                             *)

\* A control of the page shown asks for the URL u; its reader meant the
\* request w.
Ask(control, u, w) ==
  /\ pc' = "requested" /\ url' = u /\ via' = control /\ wanted' = w
  /\ asof' = IF control \in {"next", "last"} THEN [changes |-> shown.at, days |-> shown.days] ELSE Nil
  /\ UNCHANGED <<source, present, changes, today, total, shown, walk>>

FollowPage ==
  LET r == shown.req
      Jump(control, page) == Ask(control, ListURL(r, page), [r EXCEPT !.page = page])
  IN \/ HasPrevious(shown) /\ (Jump("first", 1) \/ Jump("previous", Number(r) - 1))
     \/ HasNext(shown) /\ (Jump("next", Number(r) + 1) \/ Jump("last", NumPages(shown)))

\* A link of a column header, of the size menu or of the filter panel: all
\* return to page 1.
FollowLink(control, w, u) == Ask(control, ListURL(u, 1), [w EXCEPT !.page = 1])

FollowSort ==
  \E sort \in Sorts \ {""} :
    /\ Column(sort) \in Sortable
    /\ LET w == [shown.req EXCEPT !.sort = sort] IN FollowLink("sort", w, w)

FollowSize ==
  \E size \in Sizes : LET w == [shown.req EXCEPT !.size = size] IN FollowLink("size", w, w)

FollowChoice ==
  \/ \E c \in FlagChoices :
       FollowLink("flag", [shown.req EXCEPT !.flag = c], [shown.req EXCEPT !.flag = Chosen(c, "", Defaulted)])
  \/ \E c \in DayChoices :
       FollowLink("day", [shown.req EXCEPT !.day = c], [shown.req EXCEPT !.day = Chosen(c, <<>>, FALSE)])

\* "Clear all", offered when there is something to clear.  It means "" for
\* every filter (docs/lists.md), and leaves them out of the URL.
FollowReset ==
  /\ shown.req.search \/ shown.req.flag # Nil \/ shown.req.day # Nil
  /\ FollowLink("reset", [shown.req EXCEPT !.search = FALSE, !.flag = "", !.day = <<>>],
                         [shown.req EXCEPT !.search = FALSE, !.flag = Nil, !.day = Nil])

\* To a record and back: the list token is the list's own URL.
Return == Ask("return", ListURL(shown.req, shown.req.page), shown.req)

SubmitSearch ==
  \E b \in BOOLEAN :
    LET w == [shown.req EXCEPT !.search = b] IN Ask("search", ListForm(w), [w EXCEPT !.page = 1])

\* The range form: filterFormHidden leaves its own filter out.
SubmitRange ==
  \E range \in (0..LastDay) \X (0..LastDay) :
    Ask("range", [ListForm(shown.req) EXCEPT !.day = Nil, !.range = range],
        [shown.req EXCEPT !.day = range, !.page = 1])
-----------------------------------------------------------------------------
(* The server.                                                             *)

\* The page is rendered: n records matched on those days when the value of
\* changes was at.
Show(rows, n, days, at) ==
  /\ pc' = "shown" /\ total' = Nil
  /\ shown' = [req |-> Request, items |-> rows, total |-> n, days |-> days, at |-> at, upto |-> changes]
  /\ walk' = IF at # changes THEN Nil
             ELSE IF Number(Request) = 1 THEN rows
             ELSE IF via = "next" /\ walk # Nil /\ asof = [changes |-> changes, days |-> days]
             THEN walk \o rows ELSE Nil
  /\ UNCHANGED <<source, present, changes, today, url, via, wanted, asof>>

\* ListPage: the conditions are made once, the day's date in them, and the total
\* is one statement ...
Count ==
  /\ pc = "requested" /\ source = "query"
  /\ total' = [n |-> Len(Listing(Request)), at |-> changes, days |-> Window(Request.day)]
  /\ pc' = "counted"
  /\ UNCHANGED <<source, present, changes, today, url, via, wanted, asof, shown, walk>>

\* Wrong form of Find, which PagerAgrees refutes: the conditions are made anew,
\* after midnight perhaps.
FindAnew == /\ pc = "counted"
            /\ Show(PageRows(Request, Listing(Request)), total.n, Window(Request.day), total.at)

\* ... and the page's rows another.
Find == /\ pc = "counted"
        /\ Show(PageRows(Request, ListingOn(Request, total.days)), total.n, total.days, total.at)

\* Not a ListQuerier: one GetQueryset, and the rest in memory.
Load ==
  /\ pc = "requested" /\ source = "memory"
  /\ Show(PageRows(Request, Listing(Request)), Len(Listing(Request)), Window(Request.day), changes)

\* A statement fails: a 500, and the reader reloads.
Fail ==
  /\ pc \in {"requested", "counted"}
  /\ pc' = "failed" /\ total' = Nil
  /\ UNCHANGED <<source, present, changes, today, url, via, wanted, asof, shown, walk>>

Reload ==
  /\ pc = "failed"
  /\ pc' = "requested"
  /\ UNCHANGED <<source, present, changes, today, url, via, wanted, asof, total, shown, walk>>

\* Another session creates or deletes a record.
Change ==
  /\ changes < MaxChanges
  /\ changes' = changes + 1
  /\ \E k \in DOMAIN Content : present' = IF k \in present THEN present \ {k} ELSE present \cup {k}
  /\ UNCHANGED <<source, today, pc, url, via, wanted, asof, total, shown, walk>>

\* Midnight.
NewDay ==
  /\ today < LastDay
  /\ today' = today + 1
  /\ UNCHANGED <<source, present, changes, pc, url, via, wanted, asof, total, shown, walk>>

\* URLs typed by hand, or kept from before; none spells the framework's own
\* size, as no URL of the admin does.
Typed == [search : {FALSE}, flag : FlagRaw \cup {Nil}, day : {Nil, Preset}, range : {Nil},
          sort : {"", "flag"}, page : {Nil, 0, 3}, size : {Nil, 0}]

Init ==
  /\ source \in {"query", "memory"}
  /\ present \in {DOMAIN Content, {}}
  /\ changes = 0 /\ today = LastDay - 1
  /\ pc = "requested" /\ url \in Typed /\ via = "typed"
  /\ wanted = Nil /\ asof = Nil /\ total = Nil /\ shown = Nil /\ walk = Nil

Browse ==
  /\ pc = "shown"
  /\ \/ FollowPage \/ FollowSort \/ FollowSize \/ FollowChoice \/ FollowReset \/ Return
     \/ SubmitSearch \/ SubmitRange

Next == Browse \/ Count \/ Find \/ Load \/ Fail \/ Reload \/ Change \/ NewDay

Spec == Init /\ [][Next]_vars
-----------------------------------------------------------------------------
Forms == {"search", "range"}
Links == {"first", "previous", "next", "last", "sort", "size", "flag", "day", "reset", "return"}

\* A range up to today.
OpenEnded(raw) == raw # Nil /\ Len(raw) = 2 /\ raw[1] # 0 /\ raw[2] = 0

\* Every variable holds what the code can put there.
TypeOK ==
  /\ source \in {"query", "memory"} /\ present \subseteq DOMAIN Content /\ changes \in 0..MaxChanges
  /\ today \in Days
  /\ pc \in {"requested", "counted", "shown", "failed"}
  /\ Request \in Requests /\ via \in Links \cup Forms \cup {"typed"}
  /\ wanted \in Requests \cup {Nil} /\ (asof # Nil => asof.changes \in 0..changes /\ asof.days \subseteq Days)
  /\ total # Nil <=> pc = "counted"
  /\ shown # Nil => /\ shown.req \in Requests /\ shown.total \in 0..Cardinality(DOMAIN Content)
                    /\ Len(shown.items) <= Limit(shown.req)
                    /\ shown.days \subseteq Days /\ shown.at <= shown.upto /\ shown.upto <= changes

\* What a request comes to, however it is spelled.
Meaning(r) == [search |-> r.search, flag |-> Flag(r), day |-> Window(r.day), sort |-> r.sort,
               page |-> Number(r), size |-> Limit(r)]

\* A page size that a URL can carry: the framework's own is left out, which
\* brings back the ModelAdmin's where it has another.
Told(size) == size # DefaultPageSize \/ AdminSize \in {0, DefaultPageSize}

\* What the code is known not to keep: the page size a form drops or a URL
\* cannot tell, and the "no filter" that "Clear all" should set on a filter
\* with a default, which comes back.
Forgotten(part) ==
  \/ part = "size" /\ (via \in Forms \/ ~Told(wanted.size))
  \/ part = "flag" /\ via = "reset" /\ Defaulted

\* A control changes what it is about, and nothing else: after URL, parsing
\* and defaults, the request is the one its reader meant, but for what is
\* forgotten.  And the choice that was clicked is the one the next page
\* marks, the "All" of a filter with a default included, and its rows agree.
LinksKeepTheRest ==
  /\ via \in Links \cup Forms
       => \A part \in {"search", "flag", "day", "sort", "page", "size"} :
            Forgotten(part) \/ Meaning(Request)[part] = Meaning(wanted)[part]
  /\ pc = "shown" /\ via = "flag"
       => /\ SelectedFlags(shown.req) = {wanted.flag}
          /\ \A i \in DOMAIN shown.items : FlagFits(source, wanted.flag, shown.items[i])

\* "Select all matching", resolved from the bulk form, and an export are
\* the list the reader is looking at: the same records in the same order,
\* with whatever filters, defaults and sort are in force, of which the rows on
\* the page are a part unless another session changed the table; only the
\* preset and the open range mean other days after midnight.
SelectionIsList ==
  shown # Nil /\ (shown.days = Window(shown.req.day) \/ (shown.req.day # Preset /\ ~OpenEnded(shown.req.day)))
    => LET selected == Listing(ApplyDefaults(Parse(ListForm(shown.req))))
       IN /\ selected = ListingOn(shown.req, shown.days)
          /\ shown.upto = changes => PageRows(shown.req, selected) = shown.items

\* Following "next" from the first page to the last shows every record of
\* the list once, when neither another session nor midnight changes it on the
\* way.
WalkCoversList ==
  pc = "shown" /\ walk # Nil /\ ~HasNext(shown) /\ shown.upto = changes
    => walk = ListingOn(shown.req, shown.days)

\* When no session commits between the two statements, the number of rows
\* is the one that total and page number announce, although midnight may pass
\* between them; so the next and the last page that a page offers have rows to
\* show, unless records went away or midnight moved the window meanwhile.
PagerAgrees ==
  /\ pc = "shown" /\ shown.at = shown.upto
       => Len(shown.items) = IF Number(shown.req) < NumPages(shown) THEN Limit(shown.req)
                             ELSE IF Number(shown.req) > NumPages(shown) THEN 0
                             ELSE shown.total - (NumPages(shown) - 1) * Limit(shown.req)
  /\ pc = "shown" /\ via \in {"next", "last"} /\ asof = [changes |-> shown.upto, days |-> shown.days]
       => shown.items # <<>>
=============================================================================
