# go-polyadmin in TLA+

TLA+ modules, TLC configurations and TLAPS proofs about go-polyadmin, an admin
framework for Go: `core/` declares what an admin is made of, `contrib/fiber/`
serves it over HTTP, `contrib/gorm/` gives a resource a database. Paths below
are relative to the repository's root; a line number points at the code a
definition translates.

`PROJECT.json` is the index: the parts of the system, the runs, the mutants that
show each property can be broken by a slip in the code, the source lines of
every definition, the findings, the hazards and the theorems.

## The system

| Part | State | Operations | Hard because |
|---|---|---|---|
| Record writes (`handlers.go`, `gorm/writes.go`) | rows of the database; per request: form, object, result | create, edit, save as new, delete, row delete, inline create / update / delete | every handler is several statements, no lock or transaction spans them; requests race on one record; any statement fails; the process may stop |
| Audit log (`core/audit.go`, `fiber/audit.go`) | entries the host's logger took | `recordAudit`, after the write | the entry is not in the write's transaction; the logger may refuse it |
| Bulk actions (`core/action.go`, `bulk_edit.go`, `fiber/action_forms.go`, `deletepreview.go`) | the selection; the confirmation page the browser holds; how far the loop is | resolve, confirm or fill the form, loop over the hooks, record | the set may change between page and post; the k-th record fails; pages are re-posted |
| CSV export (`fiber/export.go`, `core/exporter.go`) | objects, csv buffer, pipe | encode, flush, copy, close | a goroutine outlives its handler; a client leaves half-way; 200 was already sent |
| XLSX export | none | build in memory | — |
| List view (`handlers.go` handleList, `render.go` buildListData, `core/query.go`, `filter.go`, `pagination.go`) | none on the server: the URL is the state | parse, defaults, filter, sort, count, page; about ten kinds of links and forms that re-spell the state | "absent", "empty" and "default" differ; total and rows are two statements; two data sources must agree |
| GORM data source | database | `ListPage`, `GetObject`, `Create`, `Update`, `Delete` | UPDATE writes the row that was loaded; a failed read and a missing row are both nil |
| Authorization (`fiber/auth.go`, `core/auth.go`) | the host's | checks at several points of each handler | order of the checks |
| Browser session (`csrf.go`, `flash.go`, `login.go`) | cookies | mint and compare a token, set and pop messages, log in and out | several tabs share the cookies |
| Locale (`core/i18n.go`, `fiber/locale.go`) | cookie, catalogs | resolve a request's locale, translate | several sources in an order, each of which changes; some texts are translated twice |
| Templates (`render.go`) | one compiled set per locale, caches filled lazily | find an override, build, cache | files change while requests of every locale fill the caches; sets are built outside the lock |
| Dashboard (`fiber/dashboard.go`, `core/dashboard*.go`, `widget*.go`, `templates/admin/dashboard.html`) | none on the server: filter form, URL and cards in the browser | render, one fragment per widget, rows of a table, export | fragments of one page are separate requests, served at different times, on different days; any is lost |
| Forms (`core/model_admin.go`, `field.go`, `render_helpers.go`, `gorm/writes.go`) | none: the form is in the browser, the row in the database | show, post, parse, validate, convert, insert or update, show again | a value passes six layers with different ideas of "empty"; the row changes between form and save |
| Record pages and inlines (`render.go`, `handlers.go`, `auth.go`, `inlines.go`) | none | pages of a record, sections of its children | what a page offers and what a route allows are asked separately; inline requests overlap, each answering with the whole section |
| Registration (`core/admin.go`, `slug.go`) | configuration, fixed before serving | register | — |

How they interact: a handler authorizes (a call to the host), calls the
`ModelAdmin`'s hook (a call into `contrib/gorm` or the host), hands an entry to
the logger (a call to the host) and puts a message into a cookie that the next
page reads. Nothing is shared between requests but the database, the log, the
template cache and, through the browser, the cookies and URLs. Nothing retries
and nothing has a timeout; only the CSV export starts a goroutine.

What makes each part correct:

- *Writes and log*: a refused request changed nothing; an entry names a change
  that happened; a success has its entry; a success message is true; a delete
  is final whatever races it; no child loses its parent.
- *Bulk actions*: only reviewed records change; a page that asks again changed
  nothing; the entries are exactly the records handled.
- *Export*: a file only grows at its end, a complete one is the whole export in
  order, and nothing follows the end; the encoder stays within its buffer; the
  goroutine ends.
- *List*: a link changes only what it is about; the export and "select all" are
  the list shown; paging covers the list; a choice is shown as chosen.
- *Session*: a form is accepted unless there is a reason; no request sent after a
  message was shown brings it back; signing in leads back; redirects end.
- *Dashboard*: a table is one answer, without gaps; a card at rest, the bar, the
  URL and an export agree; no card loads for ever.
- *Locale and templates*: a page is in one language, the one the visitor chose
  where they may choose; the template is the one that applies, as far as the disk
  keeps still.
- *Forms*: a refusal keeps the entries and says why; a save changes what the
  visitor changed; a create stores what its form showed.
- *Record pages*: what is offered is allowed; an inline section shows the
  record's children; no inline answer takes typing away from who is signed in.

## Modules

### AuditTrail (abstract) and AdminWrites

`AuditTrail` is what the log promises and knows nothing of requests: a key is
unused, live, then gone; an entry may say "deleted" only of a gone key and
anything else only of a key that has held a record.

`AdminWrites` is the handlers. One variable per thing the code keeps: `rows`
(the database), `pc/job/target/status/flash` (one request each), `audit`,
`rejected` (entries the logger refused), `changes` (history of committed
changes). Each database statement, and each check between two statements, is an
action: `Authorize`, `GetParent` (inlines), `ObjectMissing`/`ObjectFound`,
`Preview`, `Insert`, `UpdateLoad`, `UpdateWrite`, `ReadBack`, `DeleteLoad`,
`Remove`, `RecordAudit` (the logger is called), `Respond` (message and answer).
`Fail` is any statement failing, `Crash` the end of the process, also between an
entry and the answer. The eight routes differ in where they branch, as in `router.go`.

Abstractions: a row is the value of one unique column; the row of an inline
child is its foreign key. The database's unique index, foreign key and key
assignment are external definitions (`Duplicate`, `Referenced`, `Fresh`). The
create transaction (insert, then `explicitZeros`) is one action because nobody
sees inside it: its failure is a rollback, which is assumed of the database and
not checked.

`ImplementsTrail` is the refinement: `Trail!Spec` under `life <- Life`,
`log <- audit`.

### BulkActions

One browser, one action at a time, other sessions committing in between
(`Commit`, at most `MaxCommits`). `screen` is the confirmation page the browser
holds and may post again at any later time (Back). `post`, `todo`, `objs`, `n`,
`loaded` are `handleAction`'s locals. The request is one sequential goroutine;
`Serve` is the disjunction of its steps. The list's query is a filter on one
column, so that an edit or another session can move a record in and out of the
matching set; its order is any order, since no property may depend on it.

`Actions` are the two built-in ones and two of a host, with a form page and
without. A host's code (`HostHandle`, `HostReturn`) does anything to each record
and ends in each way `handleAction` tells apart. `Hosted` says whose code runs an
action, so a replaced `delete_selected` and a `BulkUpdater` are in the model as
well; the run checks the two host actions, the proofs hold for every `Hosted`.

### CsvStream and Download

`Goroutine` (query, encode, flush through the pipe, close) against `Server` (the
body stream's reads and the end of the response) and a client that may leave.
`io.Pipe`, `csv.Writer`'s buffer and fasthttp's copy loop are external, modelled
from how `export.go` uses them: a pipe write returns when everything was read or
the read end was closed. Data is counted in rows; a buffer holds `Capacity` of
them. Its specification and type invariant are called `CsvSpec` and `CsvTypeOK`,
so that one module of proofs can extend it and `Rendering`.

`Download` is what whoever downloads may rely on: a file that grows by what comes
next (`Grow`) and one end (`End`): refused before anything came, complete when it
is whole, broken, or left. `ImplementsDownload` says that `CsvStream` does this,
with its own `client` and `received`: no step sends anything after the end, and a
query that fails after the client has left does not turn the download into a
refused one.

### ListView

A URL's query is a record in which `Nil` is "parameter absent"; `Parse`,
`ApplyDefaults`, `Listing` and `PageRows` are the server's way from URL to rows,
`ListURL` and `ListForm` the way back from a request to a URL or to a form's
hidden fields. Each kind of control is an action (`FollowPage`, `FollowSort`,
`FollowSize`, `FollowChoice`, `FollowReset`, `Return`, `SubmitSearch`,
`SubmitRange`) that also keeps what its reader meant (`wanted`, history).
`source` chooses, in the initial state, between a `ListQuerier` (`Count`, then
`Find`) and the in-memory path (`Load`); the same properties are checked of both.
Other sessions create and delete records (`Change`, at most `MaxChanges`).

Abstractions: a boolean filter and a date filter stand for the filters; the
preset "today" for the presets, which differ in their window only; a page number
is an unbounded natural. One midnight passes at any time (`NewDay`), also between
two pages or two statements: a preset is resolved once per request, so `total`
and `shown` carry the days they were asked for, and `asof` those of the page whose
"next" is followed.

### BrowserSession

One browser: `jar` is its three cookies (CSRF token, queued message, session),
shared by its tabs; `page[t]` is what tab `t` shows, with the token its forms
carry; `request[t]` its request in flight. A request carries the cookies the
browser had when it was sent; the Set-Cookie headers of the answer apply when it
arrives. So two tabs race on the jar, although a handler reads nothing but its
own request; serving a request and receiving its answer are one step for that
reason. `dashboard` says whether the admin has one: without, "/" redirects to the
first list (`FirstList`, `router.go:119`). The middleware's order (CSRF, authentication, handler) is the order of
the cases. A URL is a sequence whose tail is its `next` parameter; five
destinations stand for the routes, because they differ in what matters here: a
page that shows messages, a form page, the dashboard, a fragment, a route that
takes POST only. How a `next` URL is recognised as the admin's own is left out:
the URLs are ones that are.

`wanted`, `seen`, and in a request `quiet`, `resumed` and `hops` are history, for
the properties only.

### Dashboard

One open page: `bar` is the filter form, `url` the address bar, `box[w]` a search
box, `body[w]` what a card shows. Each htmx element (a card's body, its search
box, the row after a table's last) has a request in `flight`, and at most one
more that waits for it (`queued`). `Serve` is the handler, which reads clock and
permissions when it runs; `Receive` is the swap, later. `ChangeFilter`, `Type`,
`Search`, `Scroll`, `Retry`, `Reload`, `Apply` and `Open` are the reader; `NewDay`,
`Withdraw` and `Lose` the world. `Render` is a whole page.

`Dashboards` is the set of declarations that are tried: every kind of card, with
and without a known total, with dependencies, permissions, and two that
`Validate` must refuse. A date range filter and a select filter stand for the
filters; a metric stands for the cards that render with the page. `GetRows` is
the host's: rows in a fixed order, so `Matching` numbers the ones a question
selects. `Filters`, `Queries`, `Asks`, `Bodies`, `Replies` and `Pending` are the
values that travel between page and server. A card's search box and the filter bar are two
elements that may ask for one card at the same time, and the older answer may
win: `crossed` (history) marks those cards, which the property leaves out.

### Locales and Rendering

`Locales` is `core/i18n.go` as operators: options of an admin to supported
locales, matching, the order of the sources, and translation of a string that
may have been translated already. `Rendering` is a request from the locale
middleware to the page. `Send` passes the middleware, `Authorize` authenticates;
`Stat` (one look at the disk, for one name in one directory), `NotFound` (the
search is over), `Lookup` (under the read lock), `Build` (outside it) and `Store`
(under the lock) are steps of their own, so requests and edits interleave between
any two of them. `Edit` changes a file of the host, `Account` a session
or an account, `Redeploy` the process and its options, `Forget` the cookie.
`choice`, and in a request `choice`, `consulted` and `seen`, are history. A view
has three names in the host's directories (`render.go:574`): its override, the
resource's, and the framework's own name; only then comes the built-in template.
The search is no snapshot of the disk. When the host adds an override behind it and
removes the resource's file before it, the page is the framework's, which applied
at no single moment; `OverridesFollowDisk` says what does hold: the file that is
used was there, and each preferred one was missing, at some moment of the request.
A message that an earlier request translated into another locale, and put into the
flash cookie, is outside `PageInOneLanguage`.

### Forms

One form of one model on a GORM table. `Shown` is what a control makes of a
column, `ParseFormValue` and `Convert` what becomes of an entry, `Validate` and
`Assigned`/`Inserted` the two ends of a save. `Check` is the POST handler up to the
write, `RefuseSave`, `Create`, `UpdateLoad` and `UpdateWrite` the write and its
refusals, `Elsewhere` another writer, who may come between any two of these.
`layout` is the declaration, one of seven. Seven kinds of column stand for Go's
types, and each has the values at which the layers disagree: a nil pointer, a zero,
an enum value that is no longer offered, a time with seconds or of another zone
than the server's. A validator may refuse any value, and may let nil pass where it
refuses a zero; a flat list may be left over beside fieldsets. `omitted` (which
columns were saved from an empty control) and `overtaken` (whether the row changed
after `Update` read it) are history. The other statements of a write, and its
read-back, are in `AdminWrites`.

### RecordPages

The pages of one record, for a visitor with some `grants`, under a per-object
rule (`denied`) and capabilities (`site.caps`) that are fixed. `Offers` and `Menu`
are the controls a page shows; `Route` and `Granted` what the routes behind them
ask. On the edit page there is an inline section: `Send` posts a row, `Serve` is
one of the three inline handlers as one action, `Receive` the swap of the whole
section. `signed` says whether the visitor still has a session (`Session` ends it,
or begins it again in another tab), and `site.login` whether there is a sign-in
page, to which an inline request is then sent on (`writeAuthError`). `page.fresh`
and `section.fresh` (history) say that nobody else changed anything since the server
answered; `excuse` in an answer (history) says what had become of the session or the
row by then. The children's statements are in
`AdminWrites`; here only their order relative to other requests matters.

## Runs

| Run | Question | Bounds, and why they are enough |
|---|---|---|
| `AdminWrites` | do two racing requests of any kind keep log, store, answers and messages in agreement, and children with their parents? | 2 requests: every property relates one or two requests. 3 records: each request can create one and share a third. 1 child, 2 values: enough for a duplicate and for a reference. Symmetry on all four sets, over which the specification only tests equality. |
| `BulkActions` | does a bulk action, built in or the host's, do what was reviewed, and report what it did? | 2 records: one before and one after the failing one, and a set can change without changing its size. 2 columns (filtered and not), 2 values. 2 commits of other sessions: one between page and post and one inside the loop, or a swap. |
| `CsvStream` | is a download one that `Download` allows, bounded, and over in the end? | 20 rows of a 4-row buffer: several full flushes and a final one, a last buffer that is not full (21 rows with the header), and reads of any size. |
| `ListView` | do links, forms and paging keep the reader's request, over both sources? | 4 records, ties in both columns, page sizes 2 (the framework's) and 3 (the ModelAdmin's own): full and partly filled last pages. Sort and filter values that are offered, not offered, unknown, empty and absent. One change and one midnight, each between any two statements. |
| `BrowserSession` | do tabs that share cookies accept each other's forms, show no message again, come back from sign-in to where they were going, and stop being redirected? | 2 tabs: every race on the jar is between two. 2 messages: one can overtake, overwrite or outlive the other. 1 sign-in or sign-out form and 1 cookie lost otherwise: a session that ends in the middle of a visit, before or after the other tab's request left. With and without a dashboard. Symmetry on the tabs. |
| `Dashboard` | do cards, bar, URL and export of one page agree once answers are in? | Five rows, of which three match most questions, in pages of 2: a full page, a partly filled one, and a total at a multiple of the page. 2 things the reader does (`MaxEdits`): one overtakes the other's answers. 1 midnight. Days inside and after the default period, so that a range can be reversed. |
| `Rendering` | is a page of one language, one visitor and the template that applies? | 2 requests: every race on a cache is between two. 2 versions of a file in 2 directories under 3 names: an override that appears, goes and changes, between two looks at the disk too. `Budgets` bounds the events by what they are about: two edits, or an edit around a choice, or two choices with an account, a redeployment and a lost cookie. Symmetry on the requests. |
| `Forms` | does a save do what its form showed, and a refusal lose nothing? | 2 rows: one edited, one created or copied. 2 entries typed (`MaxTyped`): one refused, then corrected. 1 commit of another writer: before or after the handler's read, or between `Update`'s read and its write. Seven declarations. Symmetry on the rows. |
| `RecordPages` | is what a page offers answered, and does an inline section survive overlapping requests? | 2 children, 2 values: one row is changed and another kept. 2 requests under way: every race of answers is between two. All permissions, or all but one; four rules; three sets of capabilities. `Budgets`: two entries and three clicks; or three clicks with an entry and a commit, with a change of permissions, or with an entry and a session that ends and begins again. Symmetry on children and values. |

Three more runs expect a violation, one for each finding below; each uses the
smallest bounds that show it.

`CHECK_DEADLOCK FALSE` stands in `AdminWrites`, `CsvStream`, `Dashboard`, `Forms`
and `RecordPages`, and in their violation runs: requests and downloads end, a
reader's budget is used up, and nothing starts anew. The other modules never stop.

Every property of a passing run has a mutant: a "wrong form" defined next to the
definition it replaces, the slip it stands for named in its comment. Every
module with state has a type invariant `TypeOK` (`CsvTypeOK` in `CsvStream`,
`TrailTypeOK` in `AuditTrail`; `Download` is two of `CsvStream`'s variables);
the `AdminWrites` run checks it because the proofs rest on it, and the others
hold it too under their configurations (add `INVARIANT TypeOK` to check it),
where it says no more than what the module's variables are.

## Fairness

- `CsvStream`: `WF(Goroutine)` and `WF(Server)`. The second holds as long as the
  client reads or goes away. A client that stalls with its connection open holds
  the copy loop back, and no timeout in this code releases the goroutine.
- `Dashboard`: `WF(Server(e))` for each htmx element: the handler runs, and the
  browser takes the answer in. Nothing is assumed of the reader; a lost request
  is an event of its own (`Lose`), which the browser notices (`htmx:sendError`,
  `htmx:responseError`).
- The other modules state no liveness and no fairness: that a chain of redirects
  ends is `NavigationEnds`, a bound on its length, which needs none; forms and
  pages wait for their visitor.

## Findings

Each is a violation run whose one property says what a document, a comment or a
test of the repository says (quoted in `PROJECT.json`).

- `EveryWriteIsAudited`: inline writes have no audit entry.
- `OnlyTickedColumnsChange`: a bulk edit writes back columns nobody ticked, over
  another session's commit.
- `WritesAreValidated`: with fieldsets and no flat list of fields, nothing is
  validated.

Also met while modelling, true of the code and without a run of their own.
Writes and bulk actions:

- a bulk edit whose read-back fails after the UPDATE leaves a changed record out
  of the audit log (`core/bulk_edit.go:57` against `docs/audit.md:27`);
- a failed read during a confirmed bulk delete passes for a missing record; the
  delete reports success without it (`gorm/query.go:67` against
  `docs/deletes.md:165`);
- of two racing deletes of a record both are audited (`gorm/writes.go:80` does not
  ask how many rows went);
- what a host's action did before it failed with an error that is no `ActionError`,
  showed its form again, or answered with an invalid `Download`, is not logged
  (`fiber/handlers.go:713`, `730`, `734`; the last one after the action succeeded);
- a row delete and an inline write set no message (`README.md:48`);
- an entry is made after the commit (`fiber/audit.go:24`), so an update can be
  logged after the delete that followed it;
- an action's permission is not asked when actions are offered, only when one is
  run (`core/action.go:107`);

Lists, exports and sessions:

- an export loads every object before it streams (`fiber/export.go:28` against
  `docs/exports.md:26`);
- the search and range forms lose the page size (`render.go:1101`, `1107`), which
  `LinksKeepTheRest` excepts, as it does the next case and the framework's size;
- "Clear all" brings default filters back (`render.go:1038` against
  `docs/lists.md:242`), and an unknown value of a boolean filter means false
  (`core/filter.go:60` against `docs/lists.md:244`);
- "Save and continue editing" and "Save and add another" land on a page that shows
  no message, so it waits for the next list (`handlers.go:324`, `328`,
  `flash.go:10`);
- on a ModelAdmin with a page size of its own, the framework's default size cannot
  be chosen (`render.go:1203` against the comment at `render.go:1141`);
- "TRUE" is true in the SQL translation of a boolean filter and false in memory
  (`gorm/filters.go:34` against the comment at `gorm/filters.go:19`);
- a session that ends under an open dashboard leads, after signing in, to a bare
  widget fragment (`login.go:34` against `docs/authentication.md:90`);
- without a dashboard, a navigation may be redirected three times: a sign-out whose
  `EndSession` fails leads to the sign-in page, from there to "/", and on to the
  first list (`router.go:119`).

Dashboard, locales and templates:

- a host's own `Container` that loads by fragment gets its data and not its panels
  rendered (`fiber/dashboard.go:284` against `render.go:1817` and
  `docs/dashboard.md`);
- a card with a search box may keep the older of two answers when box and bar ask
  at the same time (`crossed`);
- of two requests that build one set at the same time, the older content may stay
  cached until the process ends; the cache is keyed by name, so an edited override
  is not read again (`render.go:623`);
- the search for a template is no snapshot of the disk (`render.go:588`): two edits
  during it can bring a page of the framework's while an override was always there.

Forms:

- a relation chosen on a form that is refused is not kept
  (`fiber/relations.go:45` against `docs/model-admin.md:269`);
- a relation whose target cannot be listed has no options, and saving clears it;
  so does an enum value no longer among its choices, and a disabled control;
- a nullable number column is shown as an address, which the input discards, and
  is saved NULL; the seconds of a time are dropped, and a time of another zone than
  the server's shifts when it is saved untouched: it is shown as the clock of its own
  zone (`render_helpers.go:361`) and read as one of the server's
  (`gorm/columns.go:101`);
- a validator that lets nil pass is asked about nil for an empty control, and the
  column's zero or default is stored, which it may refuse (`core/field.go:222`,
  `gorm/writes.go:39`);
- a flat list left over beside fieldsets, which `core/model_admin.go:136` and
  `docs/model-admin.md:187` call unused, is still what is validated
  (`core/model_admin.go:429`): a required name that is in no fieldset refuses every
  save, under a key the form does not render;
- `Update` writes back the whole row it read, so what another writer commits between
  its read and its write is turned back, columns that are not in the form included
  (`gorm/writes.go:71`; the bulk edit's `OnlyTickedColumnsChange` is the same line);
- a required number refuses 0; "Save as new" leaves a required read-only field
  empty; a field's default is not filled in; overriding `ReadOnlyFields`
  (`docs/model-admin.md:211`) has no effect on an embedded `BaseModelAdmin`.

Record pages:

- a row's menu on the list asks about the model, so under a per-object rule it
  offers what the route refuses (`docs/permissions.md`);
- a refused inline row re-renders the section, and typing in its other rows is
  lost (`docs/inlines.md:74`), as it is when the record's own save is refused;
- of two overlapping inline requests the later answer has nowhere to go, so the
  section shows the older one, and a refusal may go unseen;
- an inline Save of a child that has moved to another record moves it back, and
  Remove deletes it; inline handlers ask nothing about the record itself;
- a refused inline row whose child has moved to another record meanwhile goes, with
  what was submitted, since the section is rebuilt from the record's children;
- after the session has ended, an inline request is answered with an HX-Redirect to
  the sign-in page (`handlers.go:109`), which takes a half-filled form of the record
  away, although the handler of Remove takes care not to
  (`handlers.go:906`);
- a constraint that refuses an inline write is a 500, which htmx does not show;
- a save leads to the detail page also for who may not view it.

## Proofs

`AdminWrites_proofs` proves, for any number of requests, records, children and
values and from `WritesAssumption` alone (the sets do not overlap), every
property the `AdminWrites` run checks.

The argument: `TypeOK` is not inductive, because what a step writes depends on
what earlier steps of the same request established. `Control(r)` collects that,
step by step: the job is one a browser sends; past the lookup, the target is a
key of the right kind that has held a record; at `readback`, the request's change
is in `changes` or the row is gone; at `audit`, the entry about to be written is
true. Other requests cannot disturb it, since keys only move from unused to live
to gone and `changes` only grows. `StepInv` has one case per action.

1. `TypeCorrect` and `Controlled` give everything else its footing.
2. `DeletionIsFinal`: only `Insert`, `UpdateWrite` and `Remove` touch `rows`, on
   keys that are unused, live, or made gone.
3. `LogFollowsStore`: an entry is true when written (`Control` at `audit`) and
   stays so.
4. `SuccessAudited`, `RefusalsAreHarmless`, `FlashIsTrue`: each needs an
   invariant about what a request not yet answered has done so far; the first also
   who can have an entry and no answer yet: a request at `answer`, or one cut off.
5. `NoOrphans`: from the foreign key, which the model asks of the database at
   `Insert`, `UpdateWrite` and `Remove`, whatever was read before.
6. `HandlersKeepTrail`: initial states map to initial states; `Insert` is `Born`,
   `Remove` of a live row is `Removed`, an accepted entry is `Recorded`, whose
   guard is the `audit` clause of `Control`; everything else is a stutter.

`Responses_proofs` is about what leaves the server: the CSV download and the
rendered page. Its first part proves, for an export of any size and a buffer of any
capacity (`CsvAssumption`), every safety property of the `CsvStream` run. `Inv`
adds to `CsvTypeOK`:

- `Flow`: `InOrder` row by row. `received` counts from 0; while the read end is
  open `pending` and `buffer` count on from it up to `next`. After the read end is
  closed nothing more is received, so only the first clause is still needed; that
  is why it stands outside the condition.
- `Stage`: which of buffer and pipe can hold rows at which `pc`. It is what makes
  `BufferIsBounded` inductive (one of the two is always empty), and it carries
  "the pipe was closed with an EOF" back to "all rows were encoded", from which
  `CompleteMeansAll` follows, and back to "nothing was sent" while the query runs.

`Copy` is the one hard step: a read may take any part of the pending write, so it
splits one sequence and extends another. `ExportIsDownload` is the refinement:
`Copy` is `Grow` while the client is there, since what has arrived is a prefix of
the export before and after; a failed `Query`, `Finish` and `Leave` are `End`, where
`CompleteMeansAll` in the next state gives the guard of a complete one; everything
else leaves `client` and `received` alone.

`BulkActions_proofs` proves the three safety properties of the `BulkActions` run
for any number of records, columns and values and any commits of other sessions.
None is inductive: the invariant is `TypeOK` and

- `Phase`, what each step has behind it: before the loop nothing was written,
  which is why an answer that asks, warns or refuses has changed nothing, unless a
  host's own code answered;
- `Resolving`: the records found so far are distinct, were once there, and for
  ticked ones are among those ticked, while `GetObject` still has others to find;
- `Chosen`: once the loop may run, or has written, the records are those of the
  page that was posted. It is established at one step, the comparison of
  fingerprints, and holds on although the set moves, because `post` and `objs` do
  not;
- `Worked` and `Logged`: the first `n` records are gone or written, and the
  entries are exactly those of the first `Recorded`. A commit of another session
  keeps `Worked`, since a key that is gone is never used again. What a host's code
  does to a record is unknown, so `Worked` speaks of built-in actions; the others
  are of all.

Records are found in any order (`SetToSeqs`), so nothing rests on the one the
database happens to use. From `BulkAssumption` the proof needs that the markers
for "no row" and "no answer" are no values.

`AloneOnlyTickedChange` bounds a finding: with `MaxCommits = 0`, that is while no
other session commits, a bulk edit changes only columns that were ticked. What
`OnlyTickedColumnsChange` finds is the race between `GetObject` and `UpdateRow` and
nothing else. The invariant behind it (`Untouched`): the row about to be written is
the one that was loaded.

The second part of `Responses_proofs` proves all four properties of the `Rendering`
run for any deployments, directories, files and number of requests. `Caches` says that a
renderer holds only templates of its locale, each under its name; it is inductive
because a set is built for the name and the locale it is stored under, and so says
nothing of what is on the disk. The rest is per request (`Sound`): `Asked`, the
order of `Resolve` once the middleware has run (`FirstOfFour` is the lemma about
it); `Visitor`, one account per request; `Looked`, that every file the search has
passed was missing at some time since the request arrived, and the one it is after
was there, which edits cannot undo since `seen` only grows; `Replied`, which carries
these to the answer, where translating twice is shown to be translating once. The
search visits names and, for each, directories in the order `Upto`; that there is
always a next place to look at uses that a set of naturals has a first element
(`WellFoundedInduction`).

`RecordPages_proofs` proves all four properties of the `RecordPages` run for any
children and values, any sets of permissions, rules and capabilities, and any
number of overlapping inline requests. The invariant is `Types`, `Honest` (a page
that is up to date offers what is answered), and `Current`: a section that is up
to date shows the record's children. The properties speak of the section on the
screen only, which the next answer replaces, so `Brings` says the same of the
section in every answer on its way, that an answer that refuses a row has that
row in it unless its `excuse` says why not, and that one which redirects was given
to a visitor whose session had ended. That the child may go missing from a section
only when it has moved needs `Capable`: an add-row is offered, and asked for, only
under the capability to create, so it does not vanish while the request is on its
way. The hard step is a commit: the one section it answers with shows the
new children, and every other, on the screen or on its way, is out of date from
then on (`OutdatedFine`, `CommitStep`). `FormIsKept` and `RefusedRowIsKept` are
action properties, and follow from what `Receive` may bring.

`BrowserSession_proofs` proves all four properties of the `BrowserSession` run for
any number of tabs and any bounds. `ToastShownOnce` needs `New`: a message on its
way is neither in the jar nor shown nor in any other request, so whichever tab
answers last cannot put an old one back. `QuietFormsAccepted` needs `Quiet`: a page
or request that is still quiet holds the token of the jar while nobody else is
bringing a new one (`Current`). `SignInResumesPage` needs `Resumes`, which follows
the URL a visitor wanted through the `next` of every sign-in page and back, and
`NavigationEnds` needs `Ends`: redirects so far and redirects ahead are at most two
together, or three where they end at the first list for want of a dashboard; those
ahead depend on the URL and on whether somebody is signed in.
`SessionAssumption` says that the marker for "none" is no message and no form.

`Forms_proofs` proves the properties of the `Forms` run for any declaration of a
model, any number of rows and edits and any other writer. `Source` ties every
control nobody touched to the record the form was rendered from, over refusals;
`Parsed` says that what is about to be written is what was posted and passed the
flat list's validation; `Held`, that the row `Update` is about to write back is the
one in the table, unless another writer came in between. Nothing is asked of a
validator: `Sane` (`RowsStayValid` of one row) says that a column holds what its
validators refuse only as the zero or default that an empty control came to, and only
where they let nil pass, and `omitted` remembers those columns until another writer
sets them. `Explains` (`RefusalIsExplained` of one refusal) says that every refusal
has a message on the page unless all are about names left over in the flat list.
`LayoutAssumption` says that a declaration names fields of the model, and that a
default has the type of its column. `FlatListsAreValidated` bounds a finding:
whatever a declaration without fieldsets writes was validated, so what
`WritesAreValidated` finds is due to fieldsets alone.

`ListView_proofs` proves the four properties of the `ListView` run for a table of
any content, any sizes, defaults and sortable columns, any number of changes by
other sessions and of midnights, and for pages of any length and number.

- `OrderedIsSorted`: `Before` is a strict total order (ties go by primary key), the
  number of records before a record is its place, and places are a bijection; so a
  list is what matches, each record once, in order. This is why the model numbers
  the records instead of calling a sorting operator.
- `PageNumbers` and `PageRowsOfList`: the rounding in `NumPages` and the window of a
  page, for all lengths and sizes: which pages are full, which is the last.
- `Kept`, the request that a URL means after parsing and defaults, against the one
  its reader meant (`RequestOfLink`, `RequestOfForm`). Midnight does not disturb it
  because the two day filters are equal or both narrow nothing.
- `ShownRows` and `Counted`: until another session changes the table, the page
  shown is the page of its list, and the total is the list's. `Onward` says the
  same of the page a reader is leaving, which is what a "next" that was offered
  relies on; `Walked` adds up the pages of a walk, `ConcatAdjacentSubSeq` page by
  page.

`LinksKeepRequests` has no hypothesis on the page sizes: what a URL cannot tell (the
framework's size, where the ModelAdmin has another), what a form drops and what
"Clear all" fails to clear are named in the property (`Told`, `Forgotten`), which
compares everything else; each is a finding above. `FollowReset` states what the
reader of `docs/lists.md:242` means, not what the link comes to. The run has a
ModelAdmin with a size of its own.

`Dashboard_proofs` proves the three invariants of the `Dashboard` run for any
dashboards a host declares, any rows, and any number of things the reader does and
of midnights. The lemmas come first: `MatchingIsSorted`, the positions of the rows
that match, each once and in order (counted, as in `ListView`); `PageOfRows`, that a
page continues what stands before its offset and offers more exactly when more is
left; `ParseIsExplicit` and `ParseIsStable`, on filters. The invariant is `TypeOK`,
`Registered` (the dashboard was validated) and

- `CardsHold`: what a card shows is its own widget's, its rows begin the answer to
  one question, and what it offers next is the rest of the same question;
- `RepliesFit`: the same of a card once the reply under way is put into it. A row's
  request is for what its card offers *now*: a card that is replaced takes its
  row's request with it (`Settle`), which is what keeps rows of an older question
  from being appended to a newer one;
- `Current`, for the cards not asked for by box and bar at once: at rest, a card
  says what bar and box say, as read on some day so far (`Says`); otherwise the
  request that no other will replace asks for that (`AsksFor`), and so does its
  answer. A request with another waiting behind it (`queued`) may ask for
  anything, because its answer will be overwritten;
- `Link`: a URL that names a period means what the bar shows.

The hard step is the end of a request (`SettleInv`): the answer goes into the card
at the same time as the one that waited is sent, so what was promised of the answer
or of the one waiting becomes a promise of the card or of the one sent. From a
change of the bar, only the cards whose widget declares no interest keep what they
showed; `Agrees` compares on what a widget depends on, and that is why
`ReloadsOn` must ask every other. `HostAssumption` says that page sizes are numbers
and that the rows are a sequence; `NilAssumption` that "none" is no request and no
reply.

Only model-checked: liveness (`GoroutineEnds`, `CardsLoad`), which is beyond the prover under fairness. Every other property of a
passing run is proved. The three violation runs state what the code does not do;
for two of them the theorems above say where the boundary is.

## Not modelled

See `components` in `PROJECT.json` for each part. Left out for good: markup, class
strings, icons and catalogs (`ui.go`, most of `render_helpers.go`, templates), the
reflection that maps struct fields to columns, the XLSX writer, examples.
Registration is left out because it is over before the first request. Not modelled
either: the choice, relation and emptiness filters of a list, the relation
typeahead, and arithmetic at the width of `int`.

## Plan

In order of importance; what is done first.

1. `AuditTrail`, `AdminWrites`, `BulkActions`, `CsvStream`, `ListView`,
   `BrowserSession`, `Dashboard`, `Locales` and `Rendering`, `Forms`,
   `RecordPages` — done.
2. Proofs of the safety of all of them — done, with `CsvStream` as an
   implementation of `Download`.
3. `ListView`: choice, relation and emptiness filters.
4. `WindowArithmetic`: offset and page counts at the width of `int`, against their
   definition over integers.

An abstract specification worth stating beside `AuditTrail` and `Download`: a bulk
action as one step from the reviewed set to the entries, which `BulkActions`
implements when nothing fails.
