--------------------------- MODULE BrowserSession ---------------------------
(***************************************************************************)
(* One browser in a mounted admin: several tabs that share the CSRF, flash *)
(* and session cookies, the middleware and handlers that read and set them *)
(* and the redirects between sign-in page and destination                  *)
(* (contrib/fiber/csrf.go, flash.go, login.go, auth.go, core/csrf.go,      *)
(* core/login.go).                                                         *)
(*                                                                         *)
(* A request carries the cookies the browser had when it sent it, and its  *)
(* Set-Cookie headers apply when the response arrives: tabs race on the    *)
(* cookie jar.  A handler reads nothing but its request, so serving it and *)
(* receiving the response are one step.                                    *)
(*                                                                         *)
(* A URL is a sequence: <<"login", "edit">> is /login?next=/edit.  "list"  *)
(* stands for the pages that show messages, "edit" for the form pages,     *)
(* "home" for "/", "widget" for a fragment of the dashboard, "action" for a*)
(* route that only takes POST.                                             *)
(***************************************************************************)
EXTENDS Naturals, Sequences

CONSTANTS Tabs,         \* the tabs of the browser
          MaxMessages,  \* bound on the forms posted that set a message
          MaxSignIns,   \* bound on sign-in and sign-out forms posted
          MaxLosses,    \* bound on cookies lost otherwise
          Nil

ASSUME SessionAssumption ==
  /\ MaxMessages \in Nat /\ MaxSignIns \in Nat /\ MaxLosses \in Nat
  /\ Nil \notin Nat \cup {"save", "continue", "action", "login", "logout"}

VARIABLES
  dashboard, \* whether the host declared one; else "/" leads to the first list
  jar,       \* the browser's cookies: csrf, flash, session
  page,      \* page[t]: the last page tab t can submit a form of
  request,   \* request[t]: its request in flight
  wanted,    \* history: where the visitor in tab t was going, and how
  seen,      \* history: the messages shown so far
  minted,    \* how many tokens the server has minted
  posted,    \* how many forms were posted that set a message
  signins,   \* how many sign-in and sign-out forms were posted
  losses     \* how often cookies were lost

vars == <<dashboard, jar, page, request, wanted, seen, minted, posted, signins, losses>>
-----------------------------------------------------------------------------
Waiting(t) == request[t] # Nil

\* Another tab's request is under way that will bring back a new token.
Minting(t) == \E u \in Tabs \ {t} : Waiting(u) /\ request[u].cookies.csrf = Nil

(* A request: history notes whether it was sent when no token was being    *)
(* minted, whether it resumes where a visitor was going, and how many      *)
(* redirects led to it since the session last began or ended.              *)

Get(t, url, cookies) ==
  [method |-> "GET", url |-> url, form |-> Nil, token |-> Nil, message |-> Nil, cookies |-> cookies,
   htmx |-> FALSE, quiet |-> ~Minting(t), resumed |-> FALSE, hops |-> 0]

Post(t, url, form, message) ==
  [Get(t, url, jar) EXCEPT !.method = "POST", !.form = form, !.token = page[t].token, !.message = message,
                           !.quiet = page[t].quiet]
-----------------------------------------------------------------------------
(* The visitor, who reaches the other pages from the URLs typed here.      *)

Typed == {<<"edit">>, <<"login", "login", "edit">>}

\* Wrong form of NextURL, which NavigationEnds refutes: a signed-in visitor
\* is sent on to the page that sends them on.
NextURLKept(url) == url

\* SafeNextURL: without a next, the admin's home.
NextURL(url) == IF Len(url) = 1 THEN <<"home">> ELSE Tail(url)

\* Where a typed URL leads a visitor who is signed in.
Destination(url) == IF Head(url) = "login" THEN <<url[Len(url)]>> ELSE url

Send(t, r, goal, how) ==
  /\ request' = [request EXCEPT ![t] = r]
  /\ wanted' = [wanted EXCEPT ![t] = [url |-> goal, how |-> how]]
  /\ UNCHANGED <<dashboard, jar, page, seen, minted, losses>>

Open(t) == \E url \in Typed : /\ Send(t, Get(t, url, jar), Destination(url), "open")
                              /\ UNCHANGED <<posted, signins>>

\* A widget of the dashboard refreshes itself.
Poll(t) == /\ page[t] # Nil /\ page[t].url = <<"home">>
           /\ Send(t, [Get(t, <<"widget">>, jar) EXCEPT !.htmx = TRUE], <<"home">>, "fragment")
           /\ UNCHANGED <<posted, signins>>

\* A save or a bulk action.
SubmitChange(t) ==
  /\ page[t] # Nil /\ posted < MaxMessages
  /\ \/ /\ page[t].url = <<"edit">>
        /\ \E form \in {"save", "continue"} : Send(t, Post(t, <<"edit">>, form, posted + 1), <<"edit">>, "form")
     \/ /\ page[t].url = <<"list">>
        /\ Send(t, Post(t, <<"action">>, "action", posted + 1), <<"list">>, "action")
  /\ posted' = posted + 1
  /\ UNCHANGED signins

SubmitSignIn(t) ==
  /\ page[t] # Nil /\ signins < MaxSignIns
  /\ IF Head(page[t].url) = "login"
     THEN Send(t, Post(t, page[t].url, "login", Nil), page[t].goal.url, page[t].goal.how)
     ELSE /\ page[t].url # <<"widget">>
          /\ Send(t, Post(t, <<"logout">>, "logout", Nil), <<"home">>, "open")
  /\ signins' = signins + 1
  /\ UNCHANGED posted

\* The visitor stops the page before its response arrives.
Stop(t) == /\ Waiting(t)
           /\ request' = [request EXCEPT ![t] = Nil] /\ wanted' = [wanted EXCEPT ![t] = Nil]
           /\ UNCHANGED <<dashboard, jar, page, seen, minted, posted, signins, losses>>

Visit(t) == ~Waiting(t) /\ (Open(t) \/ Poll(t) \/ SubmitChange(t) \/ SubmitSignIn(t))
-----------------------------------------------------------------------------
(* csrfMiddleware, and the cookies of a response.                          *)

\* Wrong form of Minted, which QuietFormsAccepted refutes: a token for every
\* page that is opened.
MintedPerPage(r) == r.method = "GET"

\* Every request gets a token cookie, minted if absent.
Minted(r) == r.cookies.csrf = Nil

Token(r) == IF Minted(r) THEN minted + 1 ELSE r.cookies.csrf

\* An unsafe request must echo the token of its own cookie; a token minted
\* for it matches nothing.
Refused(r) == r.method = "POST" /\ r.token # Token(r)

\* The jar after the middleware's own cookie.
Cookies(r) == [jar EXCEPT !.csrf = IF Minted(r) THEN Token(r) ELSE @]

Mint(r) == minted' = IF Minted(r) THEN minted + 1 ELSE minted

Served(t, r) == /\ Mint(r)
                /\ request' = [request EXCEPT ![t] = Nil] /\ wanted' = [wanted EXCEPT ![t] = Nil]
                /\ UNCHANGED <<dashboard, posted, signins, losses>>

\* A page whose forms hold the token.  It is quiet when no other tab was
\* being given a token between its request and its response.
Show(t, r, url) ==
  /\ page' = [page EXCEPT ![t] = [url |-> url, token |-> Token(r), quiet |-> r.quiet /\ ~Minting(t),
                                  goal |-> IF Head(url) = "login" THEN wanted[t] ELSE Nil]]
  /\ Served(t, r)

\* A fragment swapped into the page, or an error, from which the visitor may
\* go back to it.
Stay(t, r) == jar' = Cookies(r) /\ Served(t, r) /\ UNCHANGED <<page, seen>>

\* The requests in flight, their redirects counted anew if the session
\* begins or ends.
Resettled(cookies) ==
  [u \in Tabs |-> IF Waiting(u) /\ cookies.session # jar.session THEN [request[u] EXCEPT !.hops = 0] ELSE request[u]]

\* redirectTo: the browser follows with the cookies it has by then.
Redirect(t, r, url, cookies) ==
  /\ Mint(r)
  /\ jar' = cookies
  /\ request' = [Resettled(cookies) EXCEPT ![t] = [Get(t, url, cookies) EXCEPT
                     !.resumed = Head(r.url) = "login",
                     !.hops = IF cookies.session = jar.session THEN r.hops + 1 ELSE 0]]
  /\ wanted' = IF "login" \in {Head(r.url), Head(url)} THEN wanted
               ELSE [wanted EXCEPT ![t] = [url |-> url, how |-> "open"]]
  /\ UNCHANGED <<dashboard, page, seen, posted, signins, losses>>
-----------------------------------------------------------------------------
(* The handlers.                                                           *)

\* The routes that do not authenticate.
Public(url) == Head(url) \in {"login", "logout"}

Refuse(t, r) == Refused(r) /\ Stay(t, r)

\* Wrong form of SendToLogin, which SignInResumesPage refutes: nobody
\* remembers where the visitor was going.
SendToLoginBare(t, r) ==
  /\ ~Refused(r) /\ ~Public(r.url) /\ ~r.cookies.session
  /\ Redirect(t, r, <<"login">>, Cookies(r))

\* writeAuthError: to the sign-in page, carrying the requested URL.
SendToLogin(t, r) ==
  /\ ~Refused(r) /\ ~Public(r.url) /\ ~r.cookies.session
  /\ r.method = "POST" \/ r.url # <<"action">>
  /\ Redirect(t, r, <<"login">> \o r.url, Cookies(r))

\* The sign-in page, which sends on whoever is signed in already.
LoginPage(t, r) ==
  /\ r.method = "GET" /\ Head(r.url) = "login"
  /\ IF r.cookies.session THEN Redirect(t, r, NextURL(r.url), Cookies(r))
     ELSE Show(t, r, r.url) /\ jar' = Cookies(r) /\ UNCHANGED seen

\* Credentials that are wrong, or a session that cannot be stored, answer
\* with the form again.
Login(t, r) ==
  /\ ~Refused(r) /\ r.form = "login"
  /\ \/ Show(t, r, r.url) /\ jar' = Cookies(r) /\ UNCHANGED seen
     \/ Redirect(t, r, NextURL(r.url), [Cookies(r) EXCEPT !.session = TRUE])

\* EndSession may fail; the visitor is sent to the sign-in page either way.
Logout(t, r) ==
  /\ ~Refused(r) /\ r.form = "logout"
  /\ \E session \in {FALSE, jar.session} : Redirect(t, r, <<"login">>, [Cookies(r) EXCEPT !.session = session])

Authorized(r) == ~Refused(r) /\ ~Public(r.url) /\ r.cookies.session

\* The principal may not, or nothing is there: a 403, a 404.  A route that
\* only takes POST has no page to show.
Deny(t, r) == /\ Authorized(r) \/ (r.method = "GET" /\ r.url = <<"action">>)
              /\ Stay(t, r)

\* Wrong form of ListPage, which ToastShownOnce refutes: the messages are
\* popped and the cookie is kept.
ListPageKeeps(t, r) ==
  /\ Authorized(r) /\ r.method = "GET" /\ r.url = <<"list">>
  /\ Show(t, r, r.url)
  /\ seen' = seen \cup ({r.cookies.flash} \ {Nil})
  /\ jar' = Cookies(r)

\* A page that pops the messages and clears their cookie.
ListPage(t, r) ==
  /\ Authorized(r) /\ r.method = "GET" /\ r.url = <<"list">>
  /\ Show(t, r, r.url)
  /\ seen' = seen \cup ({r.cookies.flash} \ {Nil})
  /\ jar' = [Cookies(r) EXCEPT !.flash = Nil]

\* A page that leaves messages alone; a fragment requested by a page is
\* swapped into it.
OtherPage(t, r) ==
  /\ Authorized(r) /\ r.method = "GET" /\ r.url \in {<<"edit">>, <<"home">>, <<"widget">>}
  /\ r.url = <<"home">> => dashboard
  /\ IF r.htmx THEN Stay(t, r)
     ELSE Show(t, r, r.url) /\ jar' = Cookies(r) /\ UNCHANGED seen

\* Without a dashboard "/" sends on to the first list.
FirstList(t, r) ==
  /\ Authorized(r) /\ r.method = "GET" /\ r.url = <<"home">> /\ ~dashboard
  /\ Redirect(t, r, <<"list">>, Cookies(r))

\* A change: an invalid form is shown again; a valid one sets a message and
\* redirects, to the record or back to its form.
Change(t, r) ==
  /\ Authorized(r) /\ r.message # Nil
  /\ \/ r.form # "action" /\ Show(t, r, r.url) /\ jar' = Cookies(r) /\ UNCHANGED seen
     \/ Redirect(t, r, IF r.form = "continue" THEN <<"edit">> ELSE <<"list">>,
                 [Cookies(r) EXCEPT !.flash = r.message])

Answer(t) ==
  /\ Waiting(t)
  /\ LET r == request[t]
     IN Refuse(t, r) \/ SendToLogin(t, r) \/ LoginPage(t, r) \/ Login(t, r) \/ Logout(t, r)
          \/ Deny(t, r) \/ ListPage(t, r) \/ OtherPage(t, r) \/ FirstList(t, r) \/ Change(t, r)
-----------------------------------------------------------------------------
(* Time.                                                                   *)

\* The flash cookie lives ten seconds.
FlashExpires == /\ jar.flash # Nil
                /\ jar' = [jar EXCEPT !.flash = Nil]
                /\ UNCHANGED <<dashboard, page, request, wanted, seen, minted, posted, signins, losses>>

\* The host ends the session, or the browser drops all its cookies; a page
\* loaded before that is quiet no longer.
Lose ==
  /\ losses < MaxLosses
  /\ losses' = losses + 1
  /\ \/ jar.session /\ jar' = [jar EXCEPT !.session = FALSE] /\ request' = Resettled(jar') /\ UNCHANGED page
     \/ /\ jar' = [csrf |-> Nil, flash |-> Nil, session |-> FALSE]
        /\ page' = [t \in Tabs |-> IF page[t] = Nil THEN Nil ELSE [page[t] EXCEPT !.quiet = FALSE]]
        /\ request' = [t \in Tabs |-> IF Waiting(t) THEN [Resettled(jar')[t] EXCEPT !.quiet = FALSE] ELSE Nil]
  /\ UNCHANGED <<dashboard, wanted, seen, minted, posted, signins>>

Init ==
  /\ dashboard \in BOOLEAN
  /\ jar \in [csrf : {Nil}, flash : {Nil}, session : BOOLEAN]
  /\ page = [t \in Tabs |-> Nil] /\ request = [t \in Tabs |-> Nil]
  /\ wanted = [t \in Tabs |-> Nil]
  /\ seen = {} /\ minted = 0 /\ posted = 0 /\ signins = 0 /\ losses = 0

Next == FlashExpires \/ Lose \/ \E t \in Tabs : Visit(t) \/ Stop(t) \/ Answer(t)

Spec == Init /\ [][Next]_vars
-----------------------------------------------------------------------------
Tokens == 1..minted
Messages == 1..posted

\* Every variable holds what the code can put there; a page's forms always
\* hold a token, and a cookie a token the server has minted.
TypeOK ==
  /\ dashboard \in BOOLEAN
  /\ jar \in [csrf : Tokens \cup {Nil}, flash : Messages \cup {Nil}, session : BOOLEAN]
  /\ \A t \in Tabs : /\ page[t] # Nil => page[t].token \in Tokens /\ page[t].quiet \in BOOLEAN
                     /\ Waiting(t) => request[t].cookies.csrf \in Tokens \cup {Nil}
  /\ seen \subseteq Messages /\ minted \in Nat
  /\ posted \in 0..MaxMessages /\ signins \in 0..MaxSignIns /\ losses \in 0..MaxLosses

\* A form is refused only if the browser lost its cookies after the page
\* was loaded, or another tab was being given its first token meanwhile:
\* neither signing in or out nor working in other tabs makes it stale, and
\* a page reloaded in quiet is accepted.
QuietFormsAccepted == \A t \in Tabs : Waiting(t) /\ request[t].quiet => ~Refused(request[t])

\* Once a page has shown a message, no later request brings it back.
ToastShownOnce == jar.flash \notin seen

\* Whoever is sent to sign in while opening a page or saving a form is led
\* back to it, whatever other tabs do to the session meanwhile.
SignInResumesPage ==
  \A t \in Tabs : Waiting(t) /\ request[t].resumed /\ wanted[t].how \in {"open", "form"}
                    => request[t].url \in {wanted[t].url, <<"login">> \o wanted[t].url}

\* Sign-in page and destination do not send a visitor back and forth: while
\* the session neither begins nor ends, a navigation is redirected at most
\* twice, also by a next that is itself a sign-in URL, and once more from "/"
\* to the first list where there is no dashboard.
NavigationEnds ==
  \A t \in Tabs : Waiting(t) => request[t].hops <= IF request[t].url = <<"list">> /\ ~dashboard THEN 3 ELSE 2
=============================================================================
