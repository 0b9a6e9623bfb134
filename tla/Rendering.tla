----------------------------- MODULE Rendering ------------------------------
(***************************************************************************)
(* A visitor's requests from the locale middleware to the page: which      *)
(* language and which principal a request has (contrib/fiber/locale.go),   *)
(* and the template it is rendered with, from files a host may change      *)
(* while requests are served and from a cache that requests fill side by   *)
(* side (contentTemplate, PageTemplate of contrib/fiber/render.go).        *)
(*                                                                         *)
(* A "view" is a page of a resource: its template is an override, else one *)
(* of the resource's own, else the host's default for the view, else the   *)
(* framework's, and the search is repeated on every request.  A "page" (a  *)
(* custom page; a widget's template is alike) has only the host's file,    *)
(* and the cache is asked before the disk.  A search asks the disk for one *)
(* file after the other, and the disk may change between two of them.  A   *)
(* file is a directory and a name; its content is a version.               *)
(***************************************************************************)
EXTENDS Locales

CONSTANTS Requests,    \* requests that may be under way together
          Principals,
          Deployments, \* the options an admin may be deployed with
          Headers,     \* Accept-Language headers: sequences of tags
          Typed,       \* what may be posted to the switcher's route
          Saved,       \* what an account may have saved
          Dirs,        \* the template directories, in order
          Files,       \* the host's template files: pairs of directory and name
          Disks,       \* what they may hold at first
          Versions,    \* sound contents of a template file
          Budgets,     \* bounds on what host and visitor do, by kind of event
          Nobody, Missing, Broken

Events == {"choose", "edit", "account", "deploy", "forget"}

ASSUME RenderingAssumption ==
  /\ Budgets \subseteq [Events -> Nat]
  /\ {Missing, Broken} \cap Versions = {} /\ Missing # Broken
  /\ Nobody \notin Principals /\ Nil \notin Principals \cup {Nobody}
  /\ "saved" \notin DOMAIN Base

VARIABLES
  deploy,   \* the options of the running process
  cache,    \* cache[l][name]: overrideCache of locale l's Renderer
  disk,     \* disk[f]: the content of file f: a version, Missing or Broken
  session,  \* whom the Authenticator finds
  saved,    \* saved[p]: the locale in p's account
  header, cookie,  \* of the browser
  choice,   \* history: the visitor's last choice, or Nil
  req,      \* req[r]
  left      \* left[e]: how many more events of kind e there may be

vars == <<deploy, cache, disk, session, saved, header, cookie, choice, req, left>>
world == <<deploy, disk, session, saved, header>>

\* templateCandidates; the last is the framework's own name for the view, which
\* a host's directory may hold too.
ViewNames == <<"override", "resource", "default">>
Names == {"override", "resource", "default", "page"}
Candidates(kind) == IF kind = "view" THEN ViewNames ELSE <<"page">>

ASSUME FilesAssumption ==
  /\ Len(Dirs) \in Nat /\ DOMAIN Dirs = 1..Len(Dirs)
  /\ Files \subseteq {Dirs[i] : i \in DOMAIN Dirs} \X Names
  /\ Nil \notin Files
-----------------------------------------------------------------------------
Blank == [pc |-> "idle", kind |-> Nil, value |-> Nil, choice |-> Nil, locale |-> Nil,
          consulted |-> Nil, principal |-> Nil, missed |-> {}, found |-> Nil, built |-> Nil,
          reply |-> Nil, seen |-> {}]

\* NewRenderers: one Renderer, with an empty cache, per supported locale.
Renderers(a) == [l \in Supported(a) |-> [name \in Names |-> Nil]]

\* Wrong form of RendererOf, which PageInOneLanguage refutes: one set of
\* templates for every locale.
RendererOfDefault(l) == Default(deploy)

\* byLocaleOrDefault
RendererOf(l) == IF l \in DOMAIN cache THEN l ELSE Default(deploy)

\* The search for a template of this kind: its spots, pairs of a candidate and
\* a directory, and the file at each.
File(kind, p) == <<Dirs[p[2]], Candidates(kind)[p[1]]>>
Spots(kind) == {p \in (DOMAIN Candidates(kind)) \X (DOMAIN Dirs) : File(kind, p) \in Files}

\* Wrong form of Upto, which OverridesFollowDisk refutes: the directories in
\* order, and for each the names.
UptoByDir(p, o) == p[2] < o[2] \/ (p[2] = o[2] /\ p[1] <= o[1])

\* resolveContentSource: names in order, and for each the directories in order.
Upto(p, o) == p[1] < o[1] \/ (p[1] = o[1] /\ p[2] <= o[2])

CacheKey(kind, name) == name

\* A template set: which file it was parsed from, and the locale its t, tn and
\* tjs are bound to (localeFuncs).
Template(l, name, version) == [locale |-> l, name |-> name, version |-> version]

Init ==
  /\ deploy \in {a \in Deployments : Mountable(a)}
  /\ cache = Renderers(deploy)
  /\ disk \in Disks
  /\ session \in Principals \cup {Nobody}
  /\ saved \in [Principals -> Saved]
  /\ header \in Headers
  /\ cookie = Nil /\ choice = Nil
  /\ req = [r \in Requests |-> Blank]
  /\ left \in Budgets

At(r, pc) == req[r].pc = pc

Spend(event) == left[event] > 0 /\ left' = [left EXCEPT ![event] = @ - 1]
-----------------------------------------------------------------------------
(* The middleware.                                                         *)

\* The switcher's cookie counts while its route is mounted.
Considered(sent) == IF SwitcherOn(deploy) THEN sent ELSE Nil

\* The host's LocaleResolver: one locale for all, or what the account saved.
Answered(who) ==
  IF deploy.resolver # "saved" THEN deploy.resolver
  ELSE IF who = Nobody THEN Nil ELSE saved[who]

\* A request leaves the browser and passes localeMiddleware; nothing it reads
\* can be told from what it would have read on the way.  A cookie that decides
\* spares the resolver, and so the Authenticator.
Send(r) ==
  /\ At(r, "idle")
  /\ \E kind \in {"view", "page", "switch"} :
     /\ IF kind = "switch" THEN Spend("choose") ELSE UNCHANGED left
     /\ \E value \in (IF kind = "switch" THEN Typed ELSE {Nil}) :
       LET kept == Considered(cookie)
           asks == Match(deploy, kept) = Nil /\ deploy.resolver # Nil
       IN req' = [req EXCEPT ![r] = [Blank EXCEPT
            !.pc = "handler", !.kind = kind, !.value = value, !.choice = choice, !.seen = {disk},
            !.consulted = IF asks THEN session ELSE Nil,
            !.locale = Resolve(deploy, kept, IF asks THEN Answered(session) ELSE Nil, header)]]
  /\ UNCHANGED <<world, cache, cookie, choice>>
-----------------------------------------------------------------------------
(* The handlers.                                                           *)

\* Wrong form of Authenticate, which SameVisitor refutes: the Authenticator is
\* asked again.
AuthenticateAgain(r) == session

\* authenticate: at most once per request.
Authenticate(r) == IF req[r].consulted # Nil THEN req[r].consulted ELSE session

\* A page made with template t: what its template says, and what its handler
\* says, a message that the host translated and the framework translates again.
Page(r, t) ==
  LET notice == Translate(deploy, req[r].locale, Msgid("host"))
  IN [kind |-> "page", template |-> t,
      chrome |-> Translate(deploy, t.locale, Msgid("framework")),
      notice |-> Translate(deploy, req[r].locale, notice)]

\* The set newRenderer built from the embedded templates.
BuiltIn(r) == Template(RendererOf(req[r].locale), "framework", 0)

\* handleLocalePost.  The route is there only with the switcher.
SwitchLocale(r) ==
  /\ At(r, "handler") /\ req[r].kind = "switch"
  /\ LET locale == Match(deploy, req[r].value)
     IN req' = [req EXCEPT ![r].pc = "done",
                           ![r].reply = IF SwitcherOn(deploy) THEN [kind |-> "redirect", cookie |-> locale]
                                        ELSE [kind |-> "error"]]
  /\ UNCHANGED <<world, cache, cookie, choice, left>>

\* authorize; who is not signed in gets the sign-in page.
Authorize(r) ==
  /\ At(r, "handler") /\ req[r].kind # "switch"
  /\ LET who == Authenticate(r)
     IN req' = [req EXCEPT ![r].principal = who,
                           ![r].pc = IF who = Nobody THEN "done"
                                     ELSE IF req[r].kind = "view" THEN "find" ELSE "lookup",
                           ![r].reply = IF who = Nobody THEN Page(r, BuiltIn(r)) ELSE Nil]
  /\ UNCHANGED <<world, cache, cookie, choice, left>>

\* resolveContentSource, an os.Stat: the next spot not found empty so far.
Stat(r) ==
  /\ At(r, "find")
  /\ LET spots == Spots(req[r].kind) \ req[r].missed
         spot == CHOOSE p \in spots : \A o \in spots : Upto(p, o)
         file == File(req[r].kind, spot)
     IN /\ spots # {}
        /\ IF disk[file] = Missing
           THEN req' = [req EXCEPT ![r].missed = @ \cup {spot}]
           ELSE req' = [req EXCEPT ![r].pc = IF req[r].kind = "view" THEN "lookup" ELSE "build",
                                   ![r].found = file, ![r].missed = {}]
  /\ UNCHANGED <<world, cache, cookie, choice, left>>

\* Nothing but the framework's: its view, or no such page.
NotFound(r) ==
  /\ At(r, "find") /\ Spots(req[r].kind) \subseteq req[r].missed
  /\ req' = [req EXCEPT ![r].pc = "done", ![r].missed = {},
                        ![r].reply = IF req[r].kind = "view" THEN Page(r, BuiltIn(r)) ELSE [kind |-> "error"]]
  /\ UNCHANGED <<world, cache, cookie, choice, left>>

\* The cache, under the read lock.
Lookup(r) ==
  /\ At(r, "lookup")
  /\ LET kind == req[r].kind
         cached == cache[RendererOf(req[r].locale)][CacheKey(kind, IF kind = "view" THEN req[r].found[2] ELSE "page")]
     IN req' = [req EXCEPT ![r].pc = IF cached # Nil THEN "done" ELSE IF kind = "view" THEN "build" ELSE "find",
                           ![r].found = IF cached # Nil THEN Nil ELSE @,
                           ![r].reply = IF cached # Nil THEN Page(r, cached) ELSE Nil]
  /\ UNCHANGED <<world, cache, cookie, choice, left>>

\* ParseFS, outside the lock: the file may have gone or changed since.
Build(r) ==
  /\ At(r, "build")
  /\ LET found == req[r].found
         content == disk[found]
     IN IF content \in {Missing, Broken}
        THEN req' = [req EXCEPT ![r].pc = "done", ![r].found = Nil, ![r].reply = [kind |-> "error"]]
        ELSE req' = [req EXCEPT ![r].pc = "store", ![r].found = Nil,
                                ![r].built = Template(RendererOf(req[r].locale), found[2], content)]
  /\ UNCHANGED <<world, cache, cookie, choice, left>>

\* The cache, under the lock; the page is rendered with the set just built.
Store(r) ==
  /\ At(r, "store")
  /\ cache' = [cache EXCEPT ![RendererOf(req[r].locale)][CacheKey(req[r].kind, req[r].built.name)] = req[r].built]
  /\ req' = [req EXCEPT ![r].pc = "done", ![r].built = Nil, ![r].reply = Page(r, req[r].built)]
  /\ UNCHANGED <<world, cookie, choice, left>>

Handle(r) == \/ SwitchLocale(r) \/ Authorize(r)
             \/ Stat(r) \/ NotFound(r) \/ Lookup(r) \/ Build(r) \/ Store(r)
-----------------------------------------------------------------------------
(* The browser, the network and the host.                                  *)

\* The answer arrives, and its cookie with it.  What the visitor chose, among
\* the options of the switcher, is remembered.
Deliver(r) ==
  /\ At(r, "done")
  /\ LET reply == req[r].reply
         stored == reply.kind = "redirect" /\ reply.cookie # Nil
     IN /\ cookie' = IF stored THEN reply.cookie ELSE cookie
        /\ choice' = IF ~stored THEN choice
                     ELSE IF req[r].value \in Supported(deploy) THEN req[r].value ELSE Nil
  /\ req' = [req EXCEPT ![r] = Blank]
  /\ UNCHANGED <<world, cache, left>>

\* The answer of the switcher is lost.
Lose(r) == /\ At(r, "done") /\ req[r].kind = "switch"
           /\ req' = [req EXCEPT ![r] = Blank]
           /\ UNCHANGED <<world, cache, cookie, choice, left>>

\* A file of the host is written, spoilt or removed.  The requests under way
\* may see either content (history).
Edit ==
  /\ Spend("edit")
  /\ \E f \in Files : \E content \in (Versions \cup {Missing, Broken}) \ {disk[f]} : disk' = [disk EXCEPT ![f] = content]
  /\ req' = [r \in Requests |-> IF At(r, "idle") THEN req[r] ELSE [req[r] EXCEPT !.seen = @ \cup {disk'}]]
  /\ UNCHANGED <<deploy, session, saved, header, cache, cookie, choice>>

\* The host signs the visitor in or out, or saves a locale in an account.
Account ==
  /\ Spend("account")
  /\ \/ session' \in (Principals \cup {Nobody}) \ {session} /\ UNCHANGED saved
     \/ \E p \in Principals : \E l \in Saved \ {saved[p]} : saved' = [saved EXCEPT ![p] = l]
        /\ UNCHANGED session
  /\ UNCHANGED <<deploy, disk, header, cache, cookie, choice, req>>

\* The process is replaced, by one with other options perhaps: requests and
\* caches are gone, the browser keeps its cookie.
Redeploy ==
  /\ Spend("deploy")
  /\ \E a \in Deployments : Mountable(a) /\ deploy' = a /\ cache' = Renderers(a)
  /\ req' = [r \in Requests |-> Blank]
  /\ UNCHANGED <<disk, session, saved, header, cookie, choice>>

Forget == /\ Spend("forget")
          /\ cookie # Nil
          /\ cookie' = Nil /\ choice' = Nil
          /\ UNCHANGED <<world, cache, req>>

Next == \/ \E r \in Requests : Send(r) \/ Handle(r) \/ Deliver(r) \/ Lose(r)
        \/ Edit \/ Account \/ Redeploy \/ Forget

Spec == Init /\ [][Next]_vars
-----------------------------------------------------------------------------
(* Properties.                                                             *)

Done(r, kind) == At(r, "done") /\ req[r].reply.kind = kind

\* Type invariant: cookies and caches hold supported locales of some
\* deployment and templates that parsed.
TypeOK ==
  /\ Mountable(deploy)
  /\ DOMAIN cache = Supported(deploy)
  /\ \A l \in DOMAIN cache, name \in Names :
       cache[l][name] # Nil => cache[l][name] \in [locale : {l}, name : {name}, version : Versions]
  /\ disk \in [Files -> Versions \cup {Missing, Broken}]
  /\ cookie = Nil \/ \E a \in Deployments : cookie \in Supported(a)
  /\ \A r \in Requests : At(r, "idle") <=> req[r] = Blank
  /\ left \in [Events -> Nat]

\* The words a message has for readers of locale l, by its catalogs; the
\* pseudo-locale's are English in brackets.
Words(l, m) ==
  [says |-> m, in |-> IF l # Pseudo /\ InCatalog(deploy, l, m) THEN l ELSE English,
   brackets |-> IF l = Pseudo THEN 1 ELSE 0]

\* A page is in one language, a supported one: what its template says and what
\* its handler says, the texts that were translated twice included, whichever
\* requests filled the cache ("each locale gets its own template sets",
\* i18n_funcs.go; isAlreadyPseudo).
PageInOneLanguage ==
  \A r \in Requests : Done(r, "page") =>
    /\ req[r].locale \in Supported(deploy)
    /\ req[r].reply.chrome = Words(req[r].locale, "framework")
    /\ req[r].reply.notice = Words(req[r].locale, "host")

\* A visitor's explicit choice decides every page asked for after it arrived,
\* whatever the account, the browser's header or a redeployment say, while the
\* switcher is on and the locale is supported (docs/i18n.md, Resolve).  And in
\* "a deployment that must serve one language", with the switcher off and a
\* resolver that always returns it, no leftover cookie overrides it
\* (localeMiddleware).
ChoiceSticks ==
  \A r \in Requests : Done(r, "page") =>
    /\ SwitcherOn(deploy) /\ req[r].choice \in Supported(deploy)
         => req[r].locale = req[r].choice
    /\ ~deploy.switcher /\ deploy.resolver \in Supported(deploy)
         => req[r].locale = deploy.resolver

\* Who a page is for is who its language was resolved for, although the
\* session may end in between (authenticate).
SameVisitor ==
  \A r \in Requests : req[r].consulted # Nil /\ req[r].principal # Nil
                      => req[r].principal = req[r].consulted

\* The names a search prefers to this one.
Preferred(name) ==
  CASE name = "override" -> {} [] name = "resource" -> {"override"}
    [] name = "default" -> {"override", "resource"} [] OTHER -> {"override", "resource", "default"}

\* What request q may have been rendered with: a file that was there at a
\* moment of q, while every file preferred to it was missing at a moment of q;
\* without an edit meanwhile, the one file that applies.
Applied(q, name) ==
  /\ name = "framework" \/ \E f \in Files, d \in q.seen : f[2] = name /\ d[f] # Missing
  /\ \A f \in Files : f[2] \in Preferred(name) => \E d \in q.seen : d[f] = Missing

\* A request has the template that applied, as far as the disk kept still for
\* it: a cached override that was removed, or that another one came to precede,
\* is not used (contentTemplate).  The moments may differ from file to file: the
\* search is no snapshot, and when an override is added behind it and the
\* resource's file removed before it, the page is the framework's, which applied
\* at no single moment.  And a request that found its file in place and sound
\* all the time is answered with a page: errors are not cached, and of two
\* requests that build the same set neither spoils it for the other
\* (overrideMu).
OverridesFollowDisk ==
  \A r \in Requests :
    /\ Done(r, "page") /\ req[r].kind = "view" /\ req[r].principal # Nobody
         => Applied(req[r], req[r].reply.template.name)
    /\ Done(r, "error") /\ req[r].kind # "switch"
         => LET mine == {f \in Files : (f[2] = "page") <=> (req[r].kind = "page")}
            IN \E d \in req[r].seen :
                 \/ \E f \in mine : d[f] = Broken
                 \/ \E f \in mine : d[f] = Missing /\ \E e \in req[r].seen : e[f] # Missing
                 \/ req[r].kind = "page" /\ \A f \in mine : d[f] = Missing
=============================================================================
