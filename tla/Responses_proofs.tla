-------------------------- MODULE Responses_proofs --------------------------
(***************************************************************************)
(* Proofs about the two parts of the server that go on beside a handler:   *)
(* the renderer with its shared template cache (Rendering), for any number *)
(* of requests, any deployments, directories and template files, and any   *)
(* history of edits, sign-ins and redeployments; and the goroutine that    *)
(* streams a CSV export after its handler has returned (CsvStream), for an *)
(* export of any size and a buffer of any capacity.                        *)
(***************************************************************************)
EXTENDS Rendering, CsvStream, WellFoundedInduction, SequenceTheorems, TLAPS

-----------------------------------------------------------------------------
(* Locales.                                                                *)

LEMMA SupportedParse ==
  ASSUME NEW a, Mountable(a)
  PROVE  /\ Supported(a) \subseteq DOMAIN Base
         /\ Default(a) \in Supported(a) /\ Default(a) # Nil
         /\ Nil \notin Supported(a) /\ "saved" \notin Supported(a)
BY LocalesAssumption, RenderingAssumption
   DEF Mountable, Supported, Listed, Available, Default, English, Pseudo

LEMMA MatchTagSupported ==
  ASSUME NEW a, NEW tag PROVE MatchTag(a, tag) \in Supported(a) \cup {Nil}
BY DEF MatchTag

\* What is supported is matched by itself, and nothing else by what is not.
LEMMA MatchSupported ==
  ASSUME NEW a, NEW candidate
  PROVE  /\ Match(a, candidate) \in Supported(a) \cup {Nil}
         /\ candidate \in Supported(a) => Match(a, candidate) = candidate
         /\ candidate \notin Supported(a) \cup DOMAIN Base => Match(a, candidate) = Nil
BY MatchTagSupported DEF Match

LEMMA MatchHeaderSupported ==
  ASSUME NEW a, NEW h PROVE MatchAcceptLanguage(a, h) \in Supported(a) \cup {Nil}
BY MatchTagSupported DEF MatchAcceptLanguage

\* The order of four answers, the last of which is always there.
LEMMA FirstOfFour ==
  ASSUME NEW x1, NEW x2, NEW x3, NEW x4, x4 # Nil
  PROVE  FirstFound(<<x1, x2, x3, x4>>) = IF x1 # Nil THEN x1 ELSE IF x2 # Nil THEN x2
                                          ELSE IF x3 # Nil THEN x3 ELSE x4
<1> DEFINE s == <<x1, x2, x3, x4>>
           P(i) == i \in DOMAIN s /\ s[i] # Nil /\ \A j \in DOMAIN s : j < i => s[j] = Nil
           first == IF x1 # Nil THEN 1 ELSE IF x2 # Nil THEN 2 ELSE IF x3 # Nil THEN 3 ELSE 4
<1>1. DOMAIN s = {1, 2, 3, 4} /\ s[1] = x1 /\ s[2] = x2 /\ s[3] = x3 /\ s[4] = x4
  OBVIOUS
<1> HIDE DEF s
<1>2. P(first) /\ \A i \in DOMAIN s : P(i) => i = first
  BY <1>1
<1>3. (CHOOSE i \in DOMAIN s : s[i] # Nil /\ \A j \in DOMAIN s : j < i => s[j] = Nil) = first
  BY <1>2
<1>4. FirstFound(s) = s[first]
  BY <1>3 DEF FirstFound
<1> QED BY <1>1, <1>4 DEF s

LEMMA ResolveSupported ==
  ASSUME NEW a, Mountable(a), NEW kept, NEW answer, NEW h
  PROVE  /\ Resolve(a, kept, answer, h) \in Supported(a)
         /\ kept \in Supported(a) => Resolve(a, kept, answer, h) = kept
         /\ kept = Nil /\ answer \in Supported(a) => Resolve(a, kept, answer, h) = answer
<1>1. Resolve(a, kept, answer, h) =
        IF Match(a, kept) # Nil THEN Match(a, kept)
        ELSE IF Match(a, answer) # Nil THEN Match(a, answer)
        ELSE IF MatchAcceptLanguage(a, h) # Nil THEN MatchAcceptLanguage(a, h) ELSE Default(a)
  BY SupportedParse, FirstOfFour DEF Resolve
<1>2. kept = Nil => Match(a, kept) = Nil
  BY SupportedParse, MatchSupported, LocalesAssumption
<1> QED BY <1>1, <1>2, SupportedParse, MatchSupported, MatchHeaderSupported

\* Translating a message, once or twice, gives its words.
LEMMA TranslateWords ==
  ASSUME NEW l, NEW m
  PROVE  /\ Translate(deploy, l, Msgid(m)) = Words(l, m)
         /\ Translate(deploy, l, Translate(deploy, l, Msgid(m))) = Words(l, m)
<1>1. CASE l = Pseudo
  BY <1>1 DEF Translate, Localize, Words, Msgid, InCatalog, Pseudo, English
<1>2. CASE l # Pseudo
  BY <1>2 DEF Translate, Localize, Words, Msgid, InCatalog, Pseudo, English
<1> QED BY <1>1, <1>2
-----------------------------------------------------------------------------
(* The inductive invariant.                                                *)

Fields == DOMAIN Blank

Shape == DOMAIN req = Requests /\ \A r \in Requests : DOMAIN req[r] = Fields

\* A locale's Renderer has only templates of that locale, each under its name.
Caches ==
  /\ DOMAIN cache = Supported(deploy)
  /\ \A l \in DOMAIN cache :
       /\ DOMAIN cache[l] = Names
       /\ \A name \in Names : cache[l][name] # Nil => cache[l][name].locale = l /\ cache[l][name].name = name

\* The browser's cookie is what the visitor chose, as long as it is known.
ChoiceKept == choice # Nil => cookie = choice

\* The locale of request q, from the middleware to the answer.
Asked(q) ==
  q.pc # "idle" /\ q.kind # "switch" =>
    /\ q.locale \in Supported(deploy)
    /\ SwitcherOn(deploy) /\ q.choice \in Supported(deploy) => q.locale = q.choice
    /\ ~deploy.switcher /\ deploy.resolver \in Supported(deploy) => q.locale = deploy.resolver

Visitor(q) == q.consulted # Nil /\ q.principal # Nil => q.principal = q.consulted

\* What q knows of the file it is after.
Sought(q) ==
  /\ q.found \in Files /\ (q.found[2] = "page" <=> q.kind = "page")
  /\ \E d \in q.seen : d[q.found] # Missing
  /\ q.kind = "view" => Applied(q, q.found[2])

\* What q may rely on in its search, with d on the disk.
Looked(q, d) ==
  /\ \A p \in q.missed : \E e \in q.seen : e[File(q.kind, p)] = Missing
  /\ q.pc # "idle" => d \in q.seen /\ q.kind \in {"view", "page", "switch"}
  /\ q.pc \in {"find", "lookup", "build", "store"} => q.kind # "switch"
  /\ q.pc = "build" \/ (q.pc = "lookup" /\ q.kind = "view") => Sought(q)
  /\ q.pc = "store" => q.built.locale = q.locale /\ (q.kind = "view" => Applied(q, q.built.name))

\* What excuses an error answer to q.
Excuse(q) ==
  LET mine == {f \in Files : (f[2] = "page") <=> (q.kind = "page")}
  IN \E d \in q.seen :
       \/ \E f \in mine : d[f] = Broken
       \/ \E f \in mine : d[f] = Missing /\ \E e \in q.seen : e[f] # Missing
       \/ q.kind = "page" /\ \A f \in mine : d[f] = Missing

Replied(q) ==
  q.pc = "done" =>
    /\ q.reply.kind = "redirect" => q.reply.cookie = Match(deploy, q.value)
    /\ q.reply.kind = "page" =>
         /\ q.kind # "switch"
         /\ q.reply.chrome = Words(q.locale, "framework") /\ q.reply.notice = Words(q.locale, "host")
         /\ q.kind = "view" /\ q.principal # Nobody => Applied(q, q.reply.template.name)
    /\ q.reply.kind = "error" /\ q.kind # "switch" => Excuse(q)

Sound(q) == Asked(q) /\ Visitor(q) /\ Looked(q, disk) /\ Replied(q)

IInv ==
  /\ Mountable(deploy) /\ Caches /\ ChoiceKept /\ Shape
  /\ \A r \in Requests : Sound(req[r])
-----------------------------------------------------------------------------
(* The search for a template file.                                         *)

LEMMA LeastNumber ==
  ASSUME NEW T, T \subseteq Nat, T # {}
  PROVE  \E x \in T : \A y \in T : x <= y
<1>1. PICK x \in T : \A y \in T : ~ (<<y, x>> \in OpToRel(<, Nat))
  BY WFMin, NatLessThanWellFounded
<1>2. \A y \in T : ~ (y < x)
  BY <1>1 DEF OpToRel
<1> QED BY <1>2

LEMMA SpotsInOrder ==
  ASSUME NEW kind
  PROVE  /\ DOMAIN Candidates(kind) \subseteq Nat /\ DOMAIN Dirs \subseteq Nat
         /\ kind = "view" => /\ DOMAIN Candidates(kind) = 1..3
                            /\ Candidates(kind)[1] = "override" /\ Candidates(kind)[2] = "resource"
                            /\ Candidates(kind)[3] = "default"
         /\ kind # "view" => DOMAIN Candidates(kind) = {1} /\ Candidates(kind)[1] = "page"
<1>1. CASE kind = "view"
  BY <1>1, FilesAssumption DEF Candidates, ViewNames
<1>2. CASE kind # "view"
  BY <1>2, FilesAssumption DEF Candidates
<1> QED BY <1>1, <1>2

\* There is a next spot, as long as a spot is left.
LEMMA NextSpot ==
  ASSUME NEW kind, NEW S \in SUBSET Spots(kind), S # {}
  PROVE  \E p \in S : \A o \in S : Upto(p, o)
<1>1. \A o \in S : o[1] \in Nat /\ o[2] \in Nat
  BY SpotsInOrder DEF Spots
<1> DEFINE K == {p[1] : p \in S}
<1>2. PICK k \in K : \A j \in K : k <= j
  <2>1. K \subseteq Nat /\ K # {}
    BY <1>1
  <2> QED BY <2>1, LeastNumber
<1> DEFINE T == {p \in S : p[1] = k}
           I == {p[2] : p \in T}
<1>3. PICK i \in I : \A j \in I : i <= j
  <2>1. I \subseteq Nat /\ I # {}
    BY <1>1
  <2> QED BY <2>1, LeastNumber
<1>4. PICK p \in S : p[1] = k /\ p[2] = i
  OBVIOUS
<1>5. \A o \in S : o[1] \in K /\ (o[1] = k => o[2] \in I)
  OBVIOUS
<1> HIDE DEF K, I
<1>6. \A o \in S : Upto(p, o)
  BY <1>1, <1>2, <1>3, <1>4, <1>5 DEF Upto
<1> QED BY <1>6

\* A file of one of the names a search of this kind tries is at some spot of it.
LEMMA EveryFileHasASpot ==
  ASSUME NEW kind, NEW f \in Files, NEW k \in DOMAIN Candidates(kind), f[2] = Candidates(kind)[k]
  PROVE  \E p \in Spots(kind) : p[1] = k /\ File(kind, p) = f
<1>1. PICK i \in DOMAIN Dirs : f[1] = Dirs[i]
  BY FilesAssumption
<1>2. f = <<f[1], f[2]>>
  BY FilesAssumption
<1>3. <<k, i>> \in Spots(kind) /\ File(kind, <<k, i>>) = f
  BY <1>1, <1>2 DEF Spots, File
<1> QED BY <1>3

\* The names a view's search prefers to the k-th are those before it, and to
\* the framework's template all.
LEMMA PreferredComeFirst ==
  ASSUME NEW k \in 1..3, NEW j \in 1..3
  PROVE  /\ ViewNames[j] \in Preferred(ViewNames[k]) => j < k
         /\ \A name : name \in Preferred(ViewNames[k]) => \E i \in 1..3 : name = ViewNames[i]
         /\ \A name : name \in Preferred("framework") => \E i \in 1..3 : name = ViewNames[i]
<1>1. k \in {1, 2, 3} /\ j \in {1, 2, 3}
  OBVIOUS
<1>2. ViewNames[1] = "override" /\ ViewNames[2] = "resource" /\ ViewNames[3] = "default"
  BY DEF ViewNames
<1> QED BY <1>1, <1>2 DEF Preferred

\* The first spot that is not empty has the file that applies.
LEMMA FirstSpotApplies ==
  ASSUME NEW q, NEW d \in q.seen, q.kind = "view",
         \A p \in q.missed : \E e \in q.seen : e[File(q.kind, p)] = Missing,
         NEW spot \in Spots(q.kind) \ q.missed,
         \A o \in Spots(q.kind) \ q.missed : Upto(spot, o),
         d[File(q.kind, spot)] # Missing
  PROVE  Applied(q, File(q.kind, spot)[2])
<1> DEFINE C == Candidates(q.kind)
           k == spot[1]
<1>1. C = ViewNames /\ DOMAIN C = 1..3 /\ k \in 1..3 /\ File(q.kind, spot) \in Files
  BY SpotsInOrder DEF Spots, Candidates
<1>2. File(q.kind, spot)[2] = ViewNames[k]
  BY <1>1 DEF File
<1>3. ASSUME NEW f \in Files, f[2] \in Preferred(ViewNames[k]) PROVE \E e \in q.seen : e[f] = Missing
  <2>1. PICK j \in 1..3 : f[2] = ViewNames[j]
    BY <1>1, <1>3, PreferredComeFirst
  <2>2. j < k
    BY <1>1, <1>3, <2>1, PreferredComeFirst
  <2>3. PICK o \in Spots(q.kind) : o[1] = j /\ File(q.kind, o) = f
    BY <1>1, <2>1, EveryFileHasASpot
  <2>4. ~Upto(spot, o)
    BY <1>1, <2>2, <2>3 DEF Upto
  <2> QED BY <2>3, <2>4
<1> QED BY <1>1, <1>2, <1>3 DEF Applied

\* When every spot was found empty, nothing of the host's need apply.
LEMMA EmptySpotsExcuse ==
  ASSUME NEW q, NEW d \in q.seen, q.kind \in {"view", "page"},
         \A p \in q.missed : \E e \in q.seen : e[File(q.kind, p)] = Missing,
         Spots(q.kind) \subseteq q.missed
  PROVE  /\ q.kind = "view" => Applied(q, "framework")
         /\ q.kind = "page" => Excuse(q)
<1>1. ASSUME NEW f \in Files, NEW k \in DOMAIN Candidates(q.kind), f[2] = Candidates(q.kind)[k]
      PROVE  \E e \in q.seen : e[f] = Missing
  BY <1>1, EveryFileHasASpot
<1>2. ASSUME q.kind = "view" PROVE Applied(q, "framework")
  <2>1. Candidates(q.kind) = ViewNames
    BY <1>2 DEF Candidates
  <2>2. DOMAIN Candidates(q.kind) = 1..3
    BY <1>2, SpotsInOrder
  <2>3. ASSUME NEW f \in Files, f[2] \in Preferred("framework") PROVE \E e \in q.seen : e[f] = Missing
    <3>1. 1 \in 1..3
      OBVIOUS
    <3>2. PICK i \in 1..3 : f[2] = ViewNames[i]
      BY <2>3, <3>1, PreferredComeFirst
    <3> QED BY <1>1, <2>1, <2>2, <3>2
  <2> QED BY <2>3 DEF Applied
<1>3. ASSUME q.kind = "page" PROVE Excuse(q)
  <2>1. \A f \in Files : f[2] = "page" => \E e \in q.seen : e[f] = Missing
    BY <1>1, <1>3, SpotsInOrder
  <2>2. CASE \A f \in Files : f[2] = "page" => d[f] = Missing
    BY <1>3, <2>2 DEF Excuse
  <2>3. CASE \E f \in Files : f[2] = "page" /\ d[f] # Missing
    BY <1>3, <2>1, <2>3 DEF Excuse
  <2> QED BY <2>2, <2>3
<1> QED BY <1>2, <1>3
-----------------------------------------------------------------------------
(* The steps of one request.                                               *)

\* A request that is given up, or not begun, is sound.
LEMMA BlankSound == Sound(Blank)
BY DEF Sound, Asked, Visitor, Looked, Replied, Blank

\* What is said of a request rests on deploy and disk alone: a step of r that
\* leaves the world as it is need only keep what is said of r, and the caches.
LEMMA StepOfOne ==
  ASSUME IInv, NEW r \in Requests, UNCHANGED world,
         ChoiceKept', Caches',
         NEW q, req' = [req EXCEPT ![r] = q], DOMAIN q = Fields, Sound(q)
  PROVE  IInv'
<1>1. deploy' = deploy /\ disk' = disk
  BY DEF world
<1>2. req'[r] = q /\ \A s \in Requests \ {r} : req'[s] = req[s]
  BY DEF IInv, Shape
<1>3. \A s \in Requests : Sound(req[s])' <=> Sound(req'[s])
  BY <1>1 DEF Sound, Asked, Visitor, Looked, Sought, Applied, File, Candidates, Replied, Excuse, Words, InCatalog,
              Match, MatchTag, Supported, Listed, Available, SwitcherOn
<1>4. Shape'
  BY <1>2 DEF IInv, Shape
<1> QED BY <1>1, <1>2, <1>3, <1>4 DEF IInv, Mountable, Listed, Available, Default

LEMMA CachesKept ==
  ASSUME IInv, deploy' = deploy, cache' = cache
  PROVE  Caches'
BY DEF IInv, Caches, Supported, Listed, Available

LEMMA SendStep ==
  ASSUME IInv, NEW r \in Requests, Send(r)
  PROVE  IInv'
<1>1. PICK kind \in {"view", "page", "switch"}, value \in Typed \cup {Nil} :
        LET kept == Considered(cookie)
            asks == Match(deploy, kept) = Nil /\ deploy.resolver # Nil
        IN req' = [req EXCEPT ![r] = [Blank EXCEPT
             !.pc = "handler", !.kind = kind, !.value = value, !.choice = choice, !.seen = {disk},
             !.consulted = IF asks THEN session ELSE Nil,
             !.locale = Resolve(deploy, kept, IF asks THEN Answered(session) ELSE Nil, header)]]
  BY DEF Send
<1> DEFINE kept == Considered(cookie)
           asks == Match(deploy, kept) = Nil /\ deploy.resolver # Nil
           answer == IF asks THEN Answered(session) ELSE Nil
           q == [Blank EXCEPT
             !.pc = "handler", !.kind = kind, !.value = value, !.choice = choice, !.seen = {disk},
             !.consulted = IF asks THEN session ELSE Nil,
             !.locale = Resolve(deploy, kept, answer, header)]
<1>2. UNCHANGED <<world, cache, cookie, choice>>
  BY DEF Send
<1>3. /\ DOMAIN q = Fields
      /\ q.pc = "handler" /\ q.kind = kind /\ q.choice = choice /\ q.seen = {disk} /\ q.principal = Nil /\ q.missed = {}
      /\ q.locale = Resolve(deploy, kept, answer, header)
  BY DEF Blank, Fields
<1>4. Asked(q)
  <2>1. Mountable(deploy) /\ ChoiceKept
    BY DEF IInv
  <2>2. q.locale \in Supported(deploy)
    BY <1>3, <2>1, ResolveSupported
  <2>3. ASSUME SwitcherOn(deploy), choice \in Supported(deploy) PROVE q.locale = choice
    <3>1. kept = choice
      BY <2>1, <2>3, SupportedParse DEF Considered, ChoiceKept
    <3> QED BY <1>3, <2>1, <2>3, <3>1, ResolveSupported
  <2>4. ASSUME ~deploy.switcher, deploy.resolver \in Supported(deploy) PROVE q.locale = deploy.resolver
    <3>1. kept = Nil
      BY <2>4 DEF Considered, SwitcherOn
    <3>2. answer = deploy.resolver
      BY <2>1, <2>4, <3>1, SupportedParse, MatchSupported, LocalesAssumption DEF Answered
    <3> QED BY <1>3, <2>1, <2>4, <3>1, <3>2, ResolveSupported
  <2> QED BY <1>3, <2>2, <2>3, <2>4 DEF Asked
<1>5. Sound(q)
  BY <1>3, <1>4 DEF Sound, Visitor, Looked, Replied
<1>6. ChoiceKept' /\ Caches'
  BY <1>2, CachesKept DEF world, IInv, ChoiceKept
<1>7. req' = [req EXCEPT ![r] = q]
  BY <1>1
<1> QED BY <1>2, <1>3, <1>5, <1>6, <1>7, StepOfOne

\* The locale of a request has a Renderer of its own.
LEMMA OwnRenderer ==
  ASSUME IInv, NEW r \in Requests, req[r].pc # "idle", req[r].kind # "switch"
  PROVE  /\ req[r].locale \in DOMAIN cache /\ RendererOf(req[r].locale) = req[r].locale
         /\ BuiltIn(r).locale = req[r].locale /\ BuiltIn(r).name = "framework"
BY DEF IInv, Sound, Asked, Caches, RendererOf, BuiltIn, Template

\* A page made with a template of the request's locale is in that locale.
LEMMA PageWords ==
  ASSUME NEW r, NEW t, t.locale = req[r].locale
  PROVE  /\ Page(r, t).kind = "page" /\ Page(r, t).template = t
         /\ Page(r, t).chrome = Words(req[r].locale, "framework")
         /\ Page(r, t).notice = Words(req[r].locale, "host")
BY TranslateWords DEF Page

\* What a handler leaves alone stays true of its request.
LEMMA StillAsked ==
  ASSUME NEW q, NEW p, Asked(q), q.pc # "idle", q.kind = p.kind, q.locale = p.locale, q.choice = p.choice
  PROVE  Asked(p)
BY DEF Asked

LEMMA SwitchStep ==
  ASSUME IInv, NEW r \in Requests, SwitchLocale(r)
  PROVE  IInv'
<1> DEFINE locale == Match(deploy, req[r].value)
           q == [req[r] EXCEPT !.pc = "done",
                               !.reply = IF SwitcherOn(deploy) THEN [kind |-> "redirect", cookie |-> locale]
                                         ELSE [kind |-> "error"]]
<1>1. req' = [req EXCEPT ![r] = q] /\ req[r].kind = "switch" /\ req[r].pc = "handler"
  BY DEF SwitchLocale, At
<1>2. DOMAIN q = Fields /\ Sound(req[r]) /\ DOMAIN req[r] = Fields
  BY DEF IInv, Shape
<1>3. /\ q.pc = "done" /\ q.kind = "switch" /\ q.value = req[r].value /\ q.seen = req[r].seen
      /\ q.missed = req[r].missed /\ q.consulted = req[r].consulted /\ q.principal = req[r].principal
      /\ q.reply = IF SwitcherOn(deploy) THEN [kind |-> "redirect", cookie |-> locale] ELSE [kind |-> "error"]
  BY <1>1, <1>2 DEF Fields, Blank
<1> HIDE DEF q
<1>4. Sound(q)
  BY <1>1, <1>2, <1>3 DEF Sound, Asked, Visitor, Looked, Replied
<1>5. UNCHANGED world /\ ChoiceKept' /\ Caches'
  BY CachesKept DEF SwitchLocale, world, IInv, ChoiceKept
<1> QED BY <1>1, <1>2, <1>4, <1>5, StepOfOne

LEMMA AuthorizeStep ==
  ASSUME IInv, NEW r \in Requests, Authorize(r)
  PROVE  IInv'
<1> DEFINE who == Authenticate(r)
           q == [req[r] EXCEPT !.principal = who,
                               !.pc = IF who = Nobody THEN "done"
                                      ELSE IF req[r].kind = "view" THEN "find" ELSE "lookup",
                               !.reply = IF who = Nobody THEN Page(r, BuiltIn(r)) ELSE Nil]
<1>1. req' = [req EXCEPT ![r] = q] /\ req[r].kind # "switch" /\ req[r].pc = "handler"
  BY DEF Authorize, At
<1>2. DOMAIN q = Fields /\ Sound(req[r]) /\ DOMAIN req[r] = Fields
  BY DEF IInv, Shape
<1>3. /\ q.kind = req[r].kind /\ q.locale = req[r].locale /\ q.choice = req[r].choice
      /\ q.seen = req[r].seen /\ q.missed = req[r].missed /\ q.consulted = req[r].consulted /\ q.principal = who
      /\ q.pc = IF who = Nobody THEN "done" ELSE IF req[r].kind = "view" THEN "find" ELSE "lookup"
      /\ q.reply = IF who = Nobody THEN Page(r, BuiltIn(r)) ELSE Nil
  BY <1>2 DEF Fields, Blank
<1> HIDE DEF q, who
<1>4. Asked(q)
  BY <1>1, <1>2, <1>3, StillAsked DEF Sound
<1>5. Visitor(q)
  BY <1>2, <1>3 DEF Sound, Visitor, Authenticate, who
<1>6. Looked(q, disk)
  BY <1>1, <1>2, <1>3 DEF Sound, Looked
<1>7. Replied(q)
  <2> SUFFICES ASSUME who = Nobody PROVE Replied(q)
    BY <1>3 DEF Replied
  <2> QED BY <1>1, <1>3, OwnRenderer, PageWords DEF Replied
<1>8. UNCHANGED world /\ ChoiceKept' /\ Caches'
  BY CachesKept DEF Authorize, world, IInv, ChoiceKept
<1>9. Sound(q)
  BY <1>4, <1>5, <1>6, <1>7 DEF Sound
<1> QED BY <1>1, <1>2, <1>8, <1>9, StepOfOne

LEMMA StatStep ==
  ASSUME IInv, NEW r \in Requests, Stat(r)
  PROVE  IInv'
<1> DEFINE kind == req[r].kind
           spots == Spots(kind) \ req[r].missed
           spot == CHOOSE p \in spots : \A o \in spots : Upto(p, o)
           file == File(kind, spot)
           empty == disk[file] = Missing
           q == IF empty
                THEN [req[r] EXCEPT !.missed = @ \cup {spot}]
                ELSE [req[r] EXCEPT !.pc = IF kind = "view" THEN "lookup" ELSE "build",
                                    !.found = file, !.missed = {}]
<1>1. req' = [req EXCEPT ![r] = q] /\ req[r].pc = "find" /\ spots # {}
  BY DEF Stat, At
<1>2. DOMAIN q = Fields /\ Sound(req[r]) /\ DOMAIN req[r] = Fields
  BY DEF IInv, Shape
<1>3. /\ kind \in {"view", "page"} /\ disk \in req[r].seen
      /\ \A p \in req[r].missed : \E e \in req[r].seen : e[File(kind, p)] = Missing
  BY <1>1, <1>2 DEF Sound, Looked
<1>4. /\ q.kind = kind /\ q.locale = req[r].locale /\ q.choice = req[r].choice
      /\ q.seen = req[r].seen /\ q.consulted = req[r].consulted /\ q.principal = req[r].principal
  BY <1>2 DEF Fields, Blank
<1>5. empty => q.pc = "find" /\ q.missed = req[r].missed \cup {spot}
  BY <1>1, <1>2 DEF Fields, Blank
<1>6. ~empty => q.pc = (IF kind = "view" THEN "lookup" ELSE "build") /\ q.found = file /\ q.missed = {}
  BY <1>2 DEF Fields, Blank
<1>7. spot \in spots /\ \A o \in spots : Upto(spot, o)
  <2>1. \E p \in spots : \A o \in spots : Upto(p, o)
    <3>1. spots \in SUBSET Spots(kind)
      OBVIOUS
    <3> QED BY <1>1, <3>1, NextSpot
  <2> HIDE DEF spots
  <2> QED BY <2>1
<1>8. UNCHANGED world /\ ChoiceKept' /\ Caches'
  BY CachesKept DEF Stat, world, IInv, ChoiceKept
<1>9. empty <=> disk[file] = Missing
  OBVIOUS
<1> HIDE DEF q, spot, empty
<1>10. Asked(q) /\ Visitor(q)
  BY <1>1, <1>2, <1>4, StillAsked DEF Sound, Visitor
<1>11. ASSUME empty PROVE Sound(q)
  <2>1. \A p \in q.missed : \E e \in q.seen : e[File(q.kind, p)] = Missing
    BY <1>3, <1>4, <1>5, <1>9, <1>11
  <2> QED BY <1>3, <1>4, <1>5, <1>10, <1>11, <2>1 DEF Sound, Looked, Replied
<1>12. ASSUME ~empty PROVE Sound(q)
  <2>1. file \in Files /\ (file[2] = "page" <=> kind = "page")
    <3>1. spot[1] \in DOMAIN Candidates(kind) /\ file \in Files /\ file[2] = Candidates(kind)[spot[1]]
      BY <1>7 DEF Spots, File
    <3>2. CASE kind = "view"
      <4>1. spot[1] \in {1, 2, 3}
        BY <3>1, <3>2, SpotsInOrder
      <4> QED BY <3>1, <3>2, <4>1, SpotsInOrder
    <3>3. CASE kind = "page"
      BY <3>1, <3>3, SpotsInOrder
    <3> QED BY <1>3, <3>2, <3>3
  <2>2. kind = "view" => Applied(req[r], file[2])
    BY <1>3, <1>7, <1>9, <1>12, FirstSpotApplies
  <2>3. kind = "view" => Applied(q, file[2])
    BY <1>4, <2>2 DEF Applied
  <2>4. Sought(q)
    BY <1>3, <1>4, <1>6, <1>9, <1>12, <2>1, <2>3 DEF Sought
  <2> QED BY <1>3, <1>4, <1>6, <1>10, <1>12, <2>4 DEF Sound, Looked, Replied
<1> QED BY <1>1, <1>2, <1>8, <1>11, <1>12, StepOfOne

LEMMA NotFoundStep ==
  ASSUME IInv, NEW r \in Requests, NotFound(r)
  PROVE  IInv'
<1> DEFINE reply == IF req[r].kind = "view" THEN Page(r, BuiltIn(r)) ELSE [kind |-> "error"]
           q == [req[r] EXCEPT !.pc = "done", !.missed = {}, !.reply = reply]
<1>1. req' = [req EXCEPT ![r] = q] /\ req[r].pc = "find" /\ Spots(req[r].kind) \subseteq req[r].missed
  BY DEF NotFound, At
<1>2. DOMAIN q = Fields /\ Sound(req[r]) /\ DOMAIN req[r] = Fields
  BY DEF IInv, Shape
<1>3. /\ req[r].kind \in {"view", "page"} /\ disk \in req[r].seen
      /\ \A p \in req[r].missed : \E e \in req[r].seen : e[File(req[r].kind, p)] = Missing
  BY <1>1, <1>2 DEF Sound, Looked
<1>4. /\ q.kind = req[r].kind /\ q.locale = req[r].locale /\ q.choice = req[r].choice
      /\ q.seen = req[r].seen /\ q.consulted = req[r].consulted /\ q.principal = req[r].principal
      /\ q.pc = "done" /\ q.missed = {} /\ q.reply = reply
  BY <1>2 DEF Fields, Blank
<1>5. /\ req[r].kind = "view" => Applied(req[r], "framework")
      /\ req[r].kind = "page" => Excuse(req[r])
  BY <1>1, <1>3, EmptySpotsExcuse
<1> HIDE DEF q
<1>6. Asked(q) /\ Visitor(q)
  BY <1>1, <1>2, <1>4, StillAsked DEF Sound, Visitor
<1>7. Replied(q)
  <2>1. CASE req[r].kind = "view"
    <3>1. BuiltIn(r).locale = req[r].locale /\ BuiltIn(r).name = "framework"
      BY <1>1, <1>3, OwnRenderer
    <3>2. Applied(q, "framework")
      BY <1>4, <1>5, <2>1 DEF Applied
    <3> QED BY <1>4, <2>1, <3>1, <3>2, PageWords DEF Replied
  <2>2. CASE req[r].kind = "page"
    <3>1. Excuse(q)
      BY <1>4, <1>5, <2>2 DEF Excuse
    <3> QED BY <1>4, <2>2, <3>1 DEF Replied
  <2> QED BY <1>3, <2>1, <2>2
<1>8. UNCHANGED world /\ ChoiceKept' /\ Caches'
  BY CachesKept DEF NotFound, world, IInv, ChoiceKept
<1>9. Sound(q)
  BY <1>3, <1>4, <1>6, <1>7 DEF Sound, Looked
<1> QED BY <1>1, <1>2, <1>8, <1>9, StepOfOne

LEMMA LookupStep ==
  ASSUME IInv, NEW r \in Requests, Lookup(r)
  PROVE  IInv'
<1> DEFINE key == CacheKey(req[r].kind, IF req[r].kind = "view" THEN req[r].found[2] ELSE "page")
           cached == cache[RendererOf(req[r].locale)][key]
           q == [req[r] EXCEPT
                   !.pc = IF cached # Nil THEN "done" ELSE IF req[r].kind = "view" THEN "build" ELSE "find",
                   !.found = IF cached # Nil THEN Nil ELSE @,
                   !.reply = IF cached # Nil THEN Page(r, cached) ELSE Nil]
<1>1. req' = [req EXCEPT ![r] = q] /\ req[r].pc = "lookup"
  BY DEF Lookup, At
<1>2. DOMAIN q = Fields /\ Sound(req[r]) /\ DOMAIN req[r] = Fields
  BY DEF IInv, Shape
<1>3. /\ req[r].kind \in {"view", "page"} /\ disk \in req[r].seen
      /\ \A p \in req[r].missed : \E e \in req[r].seen : e[File(req[r].kind, p)] = Missing
      /\ req[r].kind = "view" => Sought(req[r])
  BY <1>1, <1>2 DEF Sound, Looked
<1>4. /\ q.kind = req[r].kind /\ q.locale = req[r].locale /\ q.choice = req[r].choice
      /\ q.seen = req[r].seen /\ q.missed = req[r].missed
      /\ q.consulted = req[r].consulted /\ q.principal = req[r].principal
      /\ q.pc = (IF cached # Nil THEN "done" ELSE IF req[r].kind = "view" THEN "build" ELSE "find")
      /\ q.found = (IF cached # Nil THEN Nil ELSE req[r].found)
      /\ q.reply = (IF cached # Nil THEN Page(r, cached) ELSE Nil)
  BY <1>2 DEF Fields, Blank
<1>5. cached # Nil => cached.locale = req[r].locale /\ cached.name = key
  <2>1. key \in Names
    BY <1>3, FilesAssumption DEF CacheKey, Names, Sought
  <2>2. req[r].locale \in DOMAIN cache /\ RendererOf(req[r].locale) = req[r].locale
    BY <1>1, <1>3, OwnRenderer
  <2> QED BY <2>1, <2>2 DEF IInv, Caches
<1>6. req[r].kind = "view" => Applied(req[r], key)
  BY <1>3 DEF Sought, CacheKey
<1> HIDE DEF q, cached, key
<1>7. Asked(q) /\ Visitor(q)
  BY <1>1, <1>2, <1>4, StillAsked DEF Sound, Visitor
<1>8. ASSUME cached # Nil PROVE Sound(q)
  <2>1. Replied(q)
    BY <1>3, <1>4, <1>5, <1>6, <1>8, PageWords DEF Replied, Applied
  <2> QED BY <1>3, <1>4, <1>7, <1>8, <2>1 DEF Sound, Looked
<1>9. ASSUME cached = Nil PROVE Sound(q)
  BY <1>3, <1>4, <1>7, <1>9 DEF Sound, Looked, Replied, Sought, Applied
<1>10. UNCHANGED world /\ ChoiceKept' /\ Caches'
  BY CachesKept DEF Lookup, world, IInv, ChoiceKept
<1> QED BY <1>1, <1>2, <1>8, <1>9, <1>10, StepOfOne

LEMMA BuildStep ==
  ASSUME IInv, NEW r \in Requests, Build(r)
  PROVE  IInv'
<1> DEFINE found == req[r].found
           bad == disk[found] \in {Missing, Broken}
           q == IF bad
                THEN [req[r] EXCEPT !.pc = "done", !.found = Nil, !.reply = [kind |-> "error"]]
                ELSE [req[r] EXCEPT !.pc = "store", !.found = Nil,
                                    !.built = Template(RendererOf(req[r].locale), found[2], disk[found])]
<1>1. req' = [req EXCEPT ![r] = q] /\ req[r].pc = "build"
  BY DEF Build, At
<1>2. DOMAIN q = Fields /\ Sound(req[r]) /\ DOMAIN req[r] = Fields
  BY DEF IInv, Shape
<1>3. /\ req[r].kind \in {"view", "page"} /\ disk \in req[r].seen /\ Sought(req[r])
      /\ \A p \in req[r].missed : \E e \in req[r].seen : e[File(req[r].kind, p)] = Missing
  BY <1>1, <1>2 DEF Sound, Looked
<1>4. /\ q.kind = req[r].kind /\ q.locale = req[r].locale /\ q.choice = req[r].choice
      /\ q.seen = req[r].seen /\ q.missed = req[r].missed
      /\ q.consulted = req[r].consulted /\ q.principal = req[r].principal
  BY <1>2 DEF Fields, Blank
<1>5. bad => q.pc = "done" /\ q.reply = [kind |-> "error"]
  BY <1>2 DEF Fields, Blank
<1>6. ~bad => q.pc = "store" /\ q.built = Template(RendererOf(req[r].locale), found[2], disk[found])
  BY <1>2 DEF Fields, Blank
<1>7. bad => disk[found] \in {Missing, Broken}
  OBVIOUS
<1> HIDE DEF q, bad
<1>8. Asked(q) /\ Visitor(q)
  BY <1>1, <1>2, <1>4, StillAsked DEF Sound, Visitor
<1>9. ASSUME bad PROVE Sound(q)
  <2>1. Excuse(q)
    BY <1>3, <1>4, <1>7, <1>9 DEF Excuse, Sought
  <2>2. Replied(q)
    BY <1>5, <1>9, <2>1 DEF Replied
  <2> QED BY <1>3, <1>4, <1>5, <1>8, <1>9, <2>2 DEF Sound, Looked
<1>10. ASSUME ~bad PROVE Sound(q)
  <2>1. q.built.locale = q.locale /\ q.built.name = found[2]
    BY <1>1, <1>3, <1>4, <1>6, <1>10, OwnRenderer DEF Template
  <2> QED BY <1>3, <1>4, <1>6, <1>8, <1>10, <2>1 DEF Sound, Looked, Replied, Sought, Applied
<1>11. UNCHANGED world /\ ChoiceKept' /\ Caches'
  BY CachesKept DEF Build, world, IInv, ChoiceKept
<1> QED BY <1>1, <1>2, <1>9, <1>10, <1>11, StepOfOne

LEMMA StoreStep ==
  ASSUME IInv, NEW r \in Requests, Store(r)
  PROVE  IInv'
<1> DEFINE t == req[r].built
           q == [req[r] EXCEPT !.pc = "done", !.built = Nil, !.reply = Page(r, t)]
<1>1. req' = [req EXCEPT ![r] = q] /\ req[r].pc = "store"
  BY DEF Store, At
<1>2. DOMAIN q = Fields /\ Sound(req[r]) /\ DOMAIN req[r] = Fields
  BY DEF IInv, Shape
<1>3. /\ req[r].kind \in {"view", "page"} /\ disk \in req[r].seen
      /\ \A p \in req[r].missed : \E e \in req[r].seen : e[File(req[r].kind, p)] = Missing
      /\ t.locale = req[r].locale /\ (req[r].kind = "view" => Applied(req[r], t.name))
  BY <1>1, <1>2 DEF Sound, Looked
<1>4. /\ q.kind = req[r].kind /\ q.locale = req[r].locale /\ q.choice = req[r].choice
      /\ q.seen = req[r].seen /\ q.missed = req[r].missed
      /\ q.consulted = req[r].consulted /\ q.principal = req[r].principal
      /\ q.pc = "done" /\ q.reply = Page(r, t)
  BY <1>2 DEF Fields, Blank
<1>5. req[r].locale \in DOMAIN cache /\ RendererOf(req[r].locale) = req[r].locale
  BY <1>1, <1>3, OwnRenderer
<1>6. cache' = [cache EXCEPT ![req[r].locale][t.name] = t] /\ UNCHANGED <<world, cookie, choice>>
  BY <1>5 DEF Store, CacheKey
<1> HIDE DEF q, t
<1>7. Asked(q) /\ Visitor(q)
  BY <1>1, <1>2, <1>4, StillAsked DEF Sound, Visitor
<1>8. Replied(q)
  BY <1>3, <1>4, PageWords DEF Replied, Applied
<1>9. Sound(q)
  BY <1>3, <1>4, <1>7, <1>8 DEF Sound, Looked
<1>10. Caches'
  <2>1. deploy' = deploy /\ Supported(deploy)' = Supported(deploy)
    BY <1>6 DEF world, Supported, Listed, Available
  <2> QED BY <1>3, <1>5, <1>6, <2>1 DEF IInv, Caches
<1>11. UNCHANGED world /\ ChoiceKept'
  BY <1>6 DEF IInv, ChoiceKept
<1> QED BY <1>1, <1>2, <1>9, <1>10, <1>11, StepOfOne
-----------------------------------------------------------------------------
(* The browser, the network and the host.                                  *)

LEMMA LeaveStep ==
  ASSUME IInv, NEW r \in Requests, Deliver(r) \/ Lose(r)
  PROVE  IInv'
<1>1. req' = [req EXCEPT ![r] = Blank] /\ UNCHANGED world /\ cache' = cache /\ DOMAIN Blank = Fields
  BY DEF Deliver, Lose, Fields
<1>2. Caches'
  BY <1>1, CachesKept DEF world
<1>3. ChoiceKept'
  <2>1. CASE Lose(r)
    BY <2>1 DEF Lose, IInv, ChoiceKept
  <2>2. CASE Deliver(r)
    <3>1. req[r].reply.kind = "redirect" => req[r].reply.cookie = Match(deploy, req[r].value)
      BY <2>2 DEF Deliver, At, IInv, Sound, Replied
    <3>2. req[r].value \in Supported(deploy) => Match(deploy, req[r].value) = req[r].value
      BY MatchSupported
    <3> QED BY <2>2, <3>1, <3>2 DEF Deliver, IInv, ChoiceKept
  <2> QED BY <2>1, <2>2
<1> QED BY <1>1, <1>2, <1>3, BlankSound, StepOfOne

\* What is said of a request stays true when more contents become possible.
LEMMA SeenGrows ==
  ASSUME NEW q, NEW p, Looked(q, disk), Replied(q), NEW d, q.pc # "idle",
         p.pc = q.pc, p.kind = q.kind, p.value = q.value, p.locale = q.locale, p.found = q.found,
         p.built = q.built, p.reply = q.reply, p.principal = q.principal, p.missed = q.missed,
         p.seen = q.seen \cup {d}
  PROVE  Looked(p, d) /\ Replied(p)
<1>1. \A name : Applied(q, name) => Applied(p, name)
  BY DEF Applied
<1>2. Excuse(q) => Excuse(p)
  <2> SUFFICES ASSUME Excuse(q) PROVE Excuse(p)
    OBVIOUS
  <2>1. q.seen \subseteq p.seen
    OBVIOUS
  <2> QED BY <2>1 DEF Excuse
<1>3. Sought(q) => Sought(p)
  BY <1>1 DEF Sought
<1>4. Looked(p, d)
  BY <1>1, <1>3 DEF Looked
<1>5. Replied(p)
  BY <1>1, <1>2 DEF Replied
<1> QED BY <1>4, <1>5

LEMMA EditStep ==
  ASSUME IInv, Edit
  PROVE  IInv'
<1>1. /\ UNCHANGED <<deploy, session, saved, header, cache, cookie, choice>>
      /\ req' = [r \in Requests |-> IF At(r, "idle") THEN req[r] ELSE [req[r] EXCEPT !.seen = @ \cup {disk'}]]
  BY DEF Edit
<1>2. Caches' /\ ChoiceKept' /\ Mountable(deploy)'
  BY <1>1, CachesKept DEF IInv, ChoiceKept
<1>3. Shape'
  BY <1>1 DEF IInv, Shape
<1>4. \A r \in Requests : Sound(req[r])' <=>
        Asked(req'[r]) /\ Visitor(req'[r]) /\ Looked(req'[r], disk') /\ Replied(req'[r])
  BY <1>1 DEF Sound, Asked, Visitor, Looked, Sought, Applied, File, Candidates, Replied, Excuse, Words, InCatalog,
              Match, MatchTag, Supported, Listed, Available, SwitcherOn
<1>5. ASSUME NEW r \in Requests
      PROVE  Asked(req'[r]) /\ Visitor(req'[r]) /\ Looked(req'[r], disk') /\ Replied(req'[r])
  <2> DEFINE q == req[r]
             p == req'[r]
  <2>1. Sound(q) /\ DOMAIN q = Fields
    BY DEF IInv, Shape
  <2>2. CASE q.pc = "idle"
    <3>1. p = q
      BY <1>1, <2>2 DEF At
    <3> QED BY <2>1, <2>2, <3>1 DEF Sound, Asked, Visitor, Looked, Replied
  <2>3. CASE q.pc # "idle"
    <3>1. p = [q EXCEPT !.seen = @ \cup {disk'}]
      BY <1>1, <2>3 DEF At
    <3>2. /\ p.pc = q.pc /\ p.kind = q.kind /\ p.value = q.value /\ p.locale = q.locale /\ p.found = q.found
          /\ p.built = q.built /\ p.reply = q.reply /\ p.principal = q.principal /\ p.seen = q.seen \cup {disk'}
          /\ p.choice = q.choice /\ p.consulted = q.consulted /\ p.missed = q.missed
      BY <2>1, <3>1 DEF Fields, Blank
    <3> HIDE DEF q, p
    <3>3. Looked(p, disk') /\ Replied(p)
      BY <2>1, <2>3, <3>2, SeenGrows DEF Sound
    <3>4. Asked(p) /\ Visitor(p)
      BY <2>1, <2>3, <3>2, StillAsked DEF Sound, Visitor
    <3> QED BY <3>3, <3>4 DEF p
  <2> QED BY <2>2, <2>3
<1> QED BY <1>2, <1>3, <1>4, <1>5 DEF IInv

LEMMA HostStep ==
  ASSUME IInv, Account \/ Forget \/ UNCHANGED vars
  PROVE  IInv'
<1>1. deploy' = deploy /\ disk' = disk /\ cache' = cache /\ req' = req
  BY DEF Account, Forget, world, vars
<1>2. ChoiceKept'
  BY DEF Account, Forget, vars, IInv, ChoiceKept
<1>3. Caches' /\ Shape' /\ Mountable(deploy)'
  BY <1>1, CachesKept DEF IInv, Shape
<1>4. \A r \in Requests : Sound(req[r])' <=> Sound(req'[r])
  BY <1>1 DEF Sound, Asked, Visitor, Looked, Sought, Applied, File, Candidates, Replied, Excuse, Words, InCatalog,
              Match, MatchTag, Supported, Listed, Available, SwitcherOn
<1> QED BY <1>1, <1>2, <1>3, <1>4 DEF IInv

\* A process starts with empty caches and no requests.
LEMMA FreshProcess ==
  ASSUME NEW a, Mountable(a)
  PROVE  /\ DOMAIN Renderers(a) = Supported(a)
         /\ \A l \in Supported(a) : /\ DOMAIN Renderers(a)[l] = Names
                                    /\ \A name \in Names : Renderers(a)[l][name] = Nil
BY DEF Renderers

LEMMA RedeployStep ==
  ASSUME IInv, Redeploy
  PROVE  IInv'
<1>1. Mountable(deploy') /\ cache' = Renderers(deploy')
  BY DEF Redeploy
<1>2. req' = [r \in Requests |-> Blank] /\ cookie' = cookie /\ choice' = choice
  BY DEF Redeploy
<1>3. Mountable(deploy)' /\ Supported(deploy)' = Supported(deploy')
  BY <1>1 DEF Supported, Listed, Available, Mountable, Default
<1>4. Caches'
  BY <1>1, <1>3, FreshProcess DEF Caches
<1>5. Shape' /\ ChoiceKept'
  BY <1>2 DEF Shape, Fields, Blank, IInv, ChoiceKept
<1>6. \A r \in Requests : Sound(req[r])'
  BY <1>2 DEF Sound, Asked, Visitor, Looked, Replied, Blank
<1> QED BY <1>3, <1>4, <1>5, <1>6 DEF IInv

LEMMA InitIInv == Init => IInv
<1> SUFFICES ASSUME Init PROVE IInv
  OBVIOUS
<1>1. Mountable(deploy) /\ cache = Renderers(deploy) /\ choice = Nil /\ req = [r \in Requests |-> Blank]
  BY DEF Init
<1> QED BY <1>1, FreshProcess, BlankSound DEF IInv, Caches, ChoiceKept, Shape, Fields

LEMMA NextIInv == IInv /\ [Next]_vars => IInv'
<1> SUFFICES ASSUME IInv, [Next]_vars PROVE IInv'
  OBVIOUS
<1>1. ASSUME NEW r \in Requests, Send(r) \/ Handle(r) \/ Deliver(r) \/ Lose(r) PROVE IInv'
  BY <1>1, SendStep, SwitchStep, AuthorizeStep, StatStep, NotFoundStep, LookupStep, BuildStep, StoreStep, LeaveStep DEF Handle
<1> QED BY <1>1, EditStep, HostStep, RedeployStep DEF Next

LEMMA Invariance == Spec => []IInv
BY InitIInv, NextIInv, PTL DEF Spec
-----------------------------------------------------------------------------
(* The properties of Rendering.                                            *)

\* Whatever is deployed and whichever requests filled the caches, a page's
\* template and its handler's messages, translated once or twice, are in the
\* one language its request was given.
THEOREM OneLanguage == Spec => []PageInOneLanguage
<1>1. IInv => PageInOneLanguage
  BY DEF IInv, Sound, Asked, Replied, PageInOneLanguage, Done, At
<1> QED BY <1>1, Invariance, PTL

\* A visitor's choice, once it arrived, decides the language of every page
\* until it is forgotten, through redeployments; and where there is no switcher
\* and the host insists on a locale, an old cookie never does.
THEOREM ChoiceDecides == Spec => []ChoiceSticks
<1>1. IInv => ChoiceSticks
  BY DEF IInv, Sound, Asked, Replied, ChoiceSticks, Done, At
<1> QED BY <1>1, Invariance, PTL

\* A page is for the visitor whose account its language was taken from,
\* however often the session changes meanwhile.
THEOREM OneVisitor == Spec => []SameVisitor
<1>1. IInv => SameVisitor
  BY DEF IInv, Sound, Visitor, SameVisitor
<1> QED BY <1>1, Invariance, PTL

\* However requests and edits interleave, between any two looks at the disk, a
\* view has a template whose file was there while every file preferred to it was
\* missing, each at some moment of its request; and a request fails only for a
\* file that was spoilt, missing or changed meanwhile: never for what another
\* request left in the cache.
THEOREM DiskDecides == Spec => []OverridesFollowDisk
<1>1. IInv => OverridesFollowDisk
  BY DEF IInv, Sound, Replied, Excuse, Applied, OverridesFollowDisk, Done, At
<1> QED BY <1>1, Invariance, PTL
-----------------------------------------------------------------------------
(* CsvStream.                                                              *)

\* How many rows left the encoder before those of the buffer.
Flushed == Len(received) + Len(pending)

\* Row by row, what InOrder says of whole sequences: while the read end is
\* open the three stages hold the rows 0 .. next - 1 without a gap.
Flow ==
  /\ \A i \in 1..Len(received) : received[i] = i - 1
  /\ Len(received) <= NRows + 1
  /\ reading => /\ \A i \in 1..Len(pending) : pending[i] = Len(received) + i - 1
                /\ \A i \in 1..Len(buffer) : buffer[i] = Flushed + i - 1
                /\ next = Flushed + Len(buffer)

\* What each step of the goroutine may rely on.
Stage ==
  /\ Len(buffer) <= Capacity /\ Len(pending) <= Capacity
  /\ pc # "writing" => pending = <<>>
  /\ pc # "rows" => buffer = <<>>
  /\ pc = "abort" => ~reading
  /\ pc = "query" => received = <<>>
  /\ pc \in {"query", "rows", "writing", "close", "abort"} => pipe = "open"
  /\ pc = "close" => next = NRows + 1
  /\ pipe = "eof" => pc = "ended" /\ next = NRows + 1
  /\ client = "complete" => ~reading /\ Len(received) = NRows + 1

Inv == CsvTypeOK /\ Flow /\ Stage

LEMMA InitInv == CsvInit => Inv
BY CsvAssumption, EmptySeq DEF CsvInit, Inv, CsvTypeOK, Flow, Flushed, Stage

LEMMA GoroutineInv == Inv /\ Goroutine => Inv'
<1> SUFFICES ASSUME Inv, Goroutine PROVE Inv'
  OBVIOUS
<1> USE CsvAssumption DEF Inv, Writer, Reader, More, Rest
<1>1. CASE Query
  BY <1>1 DEF Query, CsvTypeOK, Flow, Flushed, Stage
<1>2. CASE Encode
  <2> USE <1>2 DEF Encode
  <2>1. next \in 0..NRows /\ next' = next + 1 /\ buffer \in Seq(0..NRows)
    BY DEF CsvTypeOK
  <2>2. /\ buffer' \in Seq(0..NRows) /\ Len(buffer') = Len(buffer) + 1
        /\ \A i \in 1..Len(buffer) : buffer'[i] = buffer[i]
        /\ buffer'[Len(buffer) + 1] = next
    BY <2>1, AppendProperties
  <2>3. Len(buffer) \in Nat /\ Len(pending) \in Nat /\ Len(received) \in Nat
    BY LenProperties DEF CsvTypeOK
  <2>4. CsvTypeOK'
    BY <2>1, <2>2 DEF CsvTypeOK
  <2>5. Flow'
    <3> SUFFICES ASSUME reading
                 PROVE  /\ \A i \in 1..Len(buffer') : buffer'[i] = Flushed + i - 1
                        /\ next' = Flushed + Len(buffer')
      BY DEF Flow, Flushed
    <3>1. next = Flushed + Len(buffer) /\ \A i \in 1..Len(buffer) : buffer[i] = Flushed + i - 1
      BY DEF Flow
    <3>2. \A i \in 1..Len(buffer') : i \in 1..Len(buffer) \/ i = Len(buffer) + 1
      BY <2>2, <2>3
    <3> QED BY <2>1, <2>2, <2>3, <3>1, <3>2 DEF Flushed
  <2>6. Stage'
    BY <2>1, <2>2, <2>3 DEF Stage
  <2> QED BY <2>4, <2>5, <2>6
<1>3. CASE StartWrite
  BY <1>3, EmptySeq DEF StartWrite, CsvTypeOK, Flow, Flushed, Stage
<1>4. CASE Written
  BY <1>4 DEF Written, CsvTypeOK, Flow, Flushed, Stage
<1>5. CASE WriteFailed
  BY <1>5, EmptySeq DEF WriteFailed, CsvTypeOK, Flow, Flushed, Stage
<1>6. CASE Close
  BY <1>6 DEF Close, CsvTypeOK, Flow, Flushed, Stage
<1> QED BY <1>1, <1>2, <1>3, <1>4, <1>5, <1>6 DEF Goroutine

LEMMA CopyInv == Inv /\ Copy => Inv'
<1> SUFFICES ASSUME Inv, Copy PROVE Inv'
  OBVIOUS
<1> USE CsvAssumption DEF Inv
<1>0. /\ reading /\ pending # <<>>
      /\ pc' = pc /\ objects' = objects /\ next' = next /\ buffer' = buffer
      /\ pipe' = pipe /\ client' = client
  BY DEF Copy, Writer
<1>1. PICK k \in 1..Len(pending) :
        /\ pending' = SubSeq(pending, k + 1, Len(pending))
        /\ IF client = "loading"
           THEN received' = received \o SubSeq(pending, 1, k) /\ UNCHANGED reading
           ELSE reading' = FALSE /\ UNCHANGED received
  BY DEF Copy
<1>2. /\ pending \in Seq(0..NRows) /\ received \in Seq(0..NRows) /\ buffer \in Seq(0..NRows)
      /\ Len(pending) \in Nat /\ Len(received) \in Nat /\ Len(buffer) \in Nat
      /\ \A i \in 1..Len(pending) : pending[i] \in 0..NRows
      /\ k \in Nat /\ 1 <= k /\ k <= Len(pending)
  BY LenProperties DEF CsvTypeOK
<1>3. /\ pending' \in Seq(0..NRows) /\ Len(pending') = Len(pending) - k
      /\ \A i \in 1..Len(pending') : pending'[i] = pending[k + i]
  <2>1. \A i \in (k + 1)..Len(pending) : pending[i] \in 0..NRows
    BY <1>2
  <2>2. /\ pending' \in Seq(0..NRows)
        /\ Len(pending') = IF k + 1 <= Len(pending) THEN Len(pending) - (k + 1) + 1 ELSE 0
        /\ \A i \in 1..(Len(pending) - (k + 1) + 1) : pending'[i] = pending[(k + 1) + i - 1]
    BY <1>1, <1>2, <2>1, SubSeqProperties
  <2> QED BY <1>2, <2>2
<1>4. pc = "writing" /\ pipe = "open" /\ buffer = <<>>
  BY <1>0 DEF Stage
<1>5. CASE client = "loading"
  <2>1. /\ SubSeq(pending, 1, k) \in Seq(0..NRows) /\ Len(SubSeq(pending, 1, k)) = k
        /\ \A i \in 1..k : SubSeq(pending, 1, k)[i] = pending[i]
    <3>1. \A i \in 1..k : pending[i] \in 0..NRows
      BY <1>2
    <3>2. /\ SubSeq(pending, 1, k) \in Seq(0..NRows)
          /\ Len(SubSeq(pending, 1, k)) = IF 1 <= k THEN k - 1 + 1 ELSE 0
          /\ \A i \in 1..(k - 1 + 1) : SubSeq(pending, 1, k)[i] = pending[1 + i - 1]
      BY <1>2, <3>1, SubSeqProperties
    <3> QED BY <1>2, <3>2
  <2>2. /\ received' \in Seq(0..NRows) /\ Len(received') = Len(received) + k
        /\ \A i \in 1..(Len(received) + k) :
             received'[i] = IF i <= Len(received) THEN received[i] ELSE pending[i - Len(received)]
    <3> DEFINE head == SubSeq(pending, 1, k)
    <3> HIDE DEF head
    <3>1. head \in Seq(0..NRows) /\ Len(head) = k /\ \A i \in 1..k : head[i] = pending[i]
      BY <2>1 DEF head
    <3>2. received' = received \o head
      BY <1>1, <1>5 DEF head
    <3>3. /\ received' \in Seq(0..NRows) /\ Len(received') = Len(received) + Len(head)
          /\ \A i \in 1..(Len(received) + Len(head)) :
               received'[i] = IF i <= Len(received) THEN received[i] ELSE head[i - Len(received)]
      BY <1>2, <3>1, <3>2, ConcatProperties, Zenon
    <3> QED BY <1>2, <3>1, <3>3
  <2>3. reading' = reading /\ buffer' = buffer /\ next' = next /\ next \in 0..(NRows + 1)
    BY <1>0, <1>1, <1>5 DEF CsvTypeOK
  <2>4. CsvTypeOK'
    BY <1>0, <1>3, <2>2, <2>3 DEF CsvTypeOK
  <2>5. Flow'
    <3>1. /\ \A i \in 1..Len(received) : received[i] = i - 1
          /\ \A i \in 1..Len(pending) : pending[i] = Len(received) + i - 1
          /\ \A i \in 1..Len(buffer) : buffer[i] = Flushed + i - 1
          /\ next = Flushed + Len(buffer)
      BY <1>0 DEF Flow
    <3>2. Flushed' = Flushed
      BY <1>2, <1>3, <2>2 DEF Flushed
    <3>3. \A i \in 1..Len(received') : received'[i] = i - 1
      <4> SUFFICES ASSUME NEW i \in 1..Len(received') PROVE received'[i] = i - 1
        OBVIOUS
      <4>1. CASE i <= Len(received)
        <5>1. i \in 1..Len(received) /\ i \in 1..(Len(received) + k)
          BY <1>2, <2>2, <4>1
        <5>2. received'[i] = received[i]
          BY <2>2, <4>1, <5>1
        <5> QED BY <3>1, <5>1, <5>2
      <4>2. CASE ~(i <= Len(received))
        <5>1. i - Len(received) \in 1..Len(pending)
          BY <1>2, <2>2, <4>2
        <5>2. received'[i] = pending[i - Len(received)]
          BY <1>2, <2>2, <4>2
        <5> QED BY <1>2, <3>1, <5>1, <5>2
      <4> QED BY <4>1, <4>2
    <3>4. Len(received') <= NRows + 1
      BY <1>2, <2>2, <2>3, <3>1 DEF Flushed
    <3>5. ASSUME NEW i \in 1..Len(pending') PROVE pending'[i] = Len(received') + i - 1
      <4>1. k + i \in 1..Len(pending) /\ pending'[i] = pending[k + i]
        BY <1>2, <1>3
      <4>2. pending[k + i] = Len(received) + (k + i) - 1
        BY <3>1, <4>1
      <4> QED BY <1>2, <2>2, <4>1, <4>2
    <3> QED BY <2>3, <3>1, <3>2, <3>3, <3>4, <3>5 DEF Flow
  <2>6. Stage'
    BY <1>0, <1>2, <1>3, <1>4, <1>5, <2>3 DEF Stage
  <2> QED BY <2>4, <2>5, <2>6
<1>6. CASE client # "loading"
  <2>1. reading' = FALSE /\ UNCHANGED received
    BY <1>1, <1>6
  <2>2. CsvTypeOK'
    BY <1>0, <1>3, <2>1 DEF CsvTypeOK
  <2>3. Flow'
    BY <2>1 DEF Flow
  <2>4. Stage'
    BY <1>0, <1>2, <1>3, <1>4, <2>1 DEF Stage
  <2> QED BY <2>2, <2>3, <2>4
<1> QED BY <1>5, <1>6

LEMMA FinishInv == Inv /\ Finish => Inv'
<1> SUFFICES ASSUME Inv, Finish PROVE Inv'
  OBVIOUS
<1> USE DEF Inv, Finish, Writer
<1>1. CsvTypeOK'
  BY DEF CsvTypeOK
<1>2. Flow'
  BY DEF Flow
<1>3. pipe = "eof" => Len(received) = NRows + 1
  <2> SUFFICES ASSUME pipe = "eof" PROVE Len(received) = NRows + 1
    OBVIOUS
  <2>1. next = NRows + 1 /\ buffer = <<>> /\ pending = <<>>
    BY DEF Stage
  <2>2. Len(received) \in Nat
    BY LenProperties DEF CsvTypeOK
  <2> QED BY <2>1, <2>2, EmptySeq DEF Flow, Flushed
<1>4. Stage'
  BY <1>3 DEF Stage
<1> QED BY <1>1, <1>2, <1>4

LEMMA LeaveInv == Inv /\ Leave => Inv'
BY DEF Inv, Leave, Writer, CsvTypeOK, Flow, Flushed, Stage

LEMMA StepInv == Inv /\ [CsvNext]_csvVars => Inv'
<1>1. Inv /\ UNCHANGED csvVars => Inv'
  BY DEF csvVars, Inv, CsvTypeOK, Flow, Flushed, Stage
<1> QED BY <1>1, GoroutineInv, CopyInv, FinishInv, LeaveInv DEF CsvNext, Server

LEMMA SpecInv == CsvSpec => []Inv
BY InitInv, StepInv, PTL DEF CsvSpec

\* The variables of an export keep their types: rows are encoded in order,
\* none past the last object.
THEOREM TypeCorrect == CsvSpec => []CsvTypeOK
<1>1. Inv => CsvTypeOK
  BY DEF Inv
<1> QED BY <1>1, SpecInv, PTL

LEMMA ExportFacts ==
  /\ Export \in Seq(Nat) /\ Len(Export) = NRows + 1
  /\ \A i \in 1..(NRows + 1) : Export[i] = i - 1
<1>1. Export \in [1..(NRows + 1) -> Nat] /\ NRows + 1 \in Nat
  BY CsvAssumption DEF Export
<1>2. Export \in Seq(Nat) /\ Len(Export) = NRows + 1
  BY <1>1, IsASeq
<1> QED BY <1>2 DEF Export

LEMMA InvCompletes == Inv => CompleteMeansAll
<1> SUFFICES ASSUME Inv PROVE CompleteMeansAll
  OBVIOUS
<1> USE CsvAssumption, ExportFacts DEF Inv
<1>1. /\ received \in Seq(Nat) /\ Len(received) \in Nat /\ Len(received) <= NRows + 1
      /\ \A i \in 1..Len(received) : received[i] \in Nat /\ received[i] = i - 1
  <2>1. received \in Seq(0..NRows) /\ Len(received) \in Nat
    BY LenProperties DEF CsvTypeOK
  <2>2. \A i \in 1..Len(received) : received[i] = i - 1 /\ i - 1 \in Nat
    BY <2>1 DEF Flow
  <2>3. received \in [1..Len(received) -> 0..NRows]
    BY <2>1, LenProperties
  <2>4. received \in [1..Len(received) -> Nat]
    BY <2>2, <2>3
  <2> QED BY <2>1, <2>2, <2>4, IsASeq DEF Flow
<1>2. \A i \in 1..Len(received) : Export[i] \in Nat /\ Export[i] = received[i]
  BY <1>1
<1>3. SubSeq(received, 1, Len(received)) = SubSeq(Export, 1, Len(received))
  <2> DEFINE s == SubSeq(received, 1, Len(received))
             t == SubSeq(Export, 1, Len(received))
  <2>1. /\ s \in Seq(Nat) /\ Len(s) = Len(received)
        /\ \A i \in 1..Len(received) : s[i] = received[i]
    <3>1. /\ s \in Seq(Nat) /\ Len(s) = IF 1 <= Len(received) THEN Len(received) - 1 + 1 ELSE 0
          /\ \A i \in 1..(Len(received) - 1 + 1) : s[i] = received[1 + i - 1]
      BY <1>1, SubSeqProperties
    <3> HIDE DEF s
    <3> QED BY <1>1, <3>1
  <2>2. /\ t \in Seq(Nat) /\ Len(t) = Len(received)
        /\ \A i \in 1..Len(received) : t[i] = Export[i]
    <3>1. /\ t \in Seq(Nat) /\ Len(t) = IF 1 <= Len(received) THEN Len(received) - 1 + 1 ELSE 0
          /\ \A i \in 1..(Len(received) - 1 + 1) : t[i] = Export[1 + i - 1]
      BY <1>1, <1>2, SubSeqProperties
    <3> HIDE DEF t
    <3> QED BY <1>1, <3>1
  <2> HIDE DEF s, t
  <2> QED BY <1>2, <2>1, <2>2, SeqEqual
<1>4. client = "complete" => received = Export
  BY <1>1, <1>2, SeqEqual DEF Stage
<1> QED BY <1>1, <1>3, <1>4 DEF CompleteMeansAll, IsPrefix

\* However large the export and however small the buffer, a download that is
\* reported complete is the whole export in order, and one that is not is a
\* prefix of it (export.go closes the pipe with the error, not as an EOF).
THEOREM CompleteIsWhole == CsvSpec => []CompleteMeansAll
BY InvCompletes, SpecInv, PTL

\* However large the export, what is encoded and not yet sent stays within
\* one buffer: the goroutine waits for each pipe write to be read.
THEOREM BufferStaysBounded == CsvSpec => []BufferIsBounded
<1>1. Inv => BufferIsBounded
  <2> SUFFICES ASSUME Inv PROVE BufferIsBounded
    OBVIOUS
  <2>1. Len(buffer) \in Nat /\ Len(pending) \in Nat /\ Capacity \in Nat
    BY CsvAssumption, LenProperties DEF Inv, CsvTypeOK
  <2>2. buffer = <<>> \/ pending = <<>>
    BY DEF Inv, Stage
  <2> QED BY <2>1, <2>2, EmptySeq DEF Inv, Stage, BufferIsBounded
<1> QED BY <1>1, SpecInv, PTL

\* Two sequences that count on from one another are one that counts.
LEMMA CountingOn ==
  ASSUME NEW s \in Seq(Int), NEW t \in Seq(Int),
         \A i \in 1..Len(s) : s[i] = i - 1,
         \A i \in 1..Len(t) : t[i] = Len(s) + i - 1
  PROVE  /\ s \o t \in Seq(Int) /\ Len(s \o t) = Len(s) + Len(t)
         /\ \A i \in 1..Len(s \o t) : (s \o t)[i] = i - 1
<1> DEFINE u == s \o t
<1>1. Len(s) \in Nat /\ Len(t) \in Nat
  BY LenProperties
<1>2. /\ u \in Seq(Int) /\ Len(u) = Len(s) + Len(t)
      /\ \A i \in 1..(Len(s) + Len(t)) : u[i] = IF i <= Len(s) THEN s[i] ELSE t[i - Len(s)]
  BY ConcatProperties
<1> HIDE DEF u
<1>3. ASSUME NEW i \in 1..Len(u) PROVE u[i] = i - 1
  <2>1. CASE i <= Len(s)
    <3>1. i \in 1..Len(s) /\ u[i] = s[i]
      BY <1>1, <1>2, <2>1
    <3> QED BY <3>1
  <2>2. CASE ~(i <= Len(s))
    <3>1. i - Len(s) \in 1..Len(t) /\ u[i] = t[i - Len(s)]
      BY <1>1, <1>2, <2>2
    <3>2. t[i - Len(s)] = Len(s) + (i - Len(s)) - 1
      BY <3>1
    <3> QED BY <1>1, <3>1, <3>2
  <2> QED BY <2>1, <2>2
<1>4. u \in Seq(Int) /\ Len(u) = Len(s) + Len(t) /\ \A i \in 1..Len(u) : u[i] = i - 1
  BY <1>2, <1>3
<1> QED BY <1>4 DEF u

\* While the client is there, what it has, what the pipe carries and what the
\* buffer holds are together exactly the rows encoded so far, in order.
THEOREM RowsStayInOrder == CsvSpec => []InOrder
<1>1. Inv => InOrder
  <2> SUFFICES ASSUME Inv, reading PROVE received \o pending \o buffer = SubSeq(Export, 1, next)
    BY DEF InOrder
  <2> USE CsvAssumption DEF Inv
  <2> DEFINE head  == received \o pending
             all   == head \o buffer
             rows  == SubSeq(Export, 1, next)
  <2>1. /\ received \in Seq(Int) /\ pending \in Seq(Int) /\ buffer \in Seq(Int)
        /\ Len(received) \in Nat /\ Len(pending) \in Nat /\ Len(buffer) \in Nat
    <3>1. \A q \in Seq(0..NRows) : q \in Seq(Int) /\ Len(q) \in Nat
      <4> SUFFICES ASSUME NEW q \in Seq(0..NRows) PROVE q \in Seq(Int) /\ Len(q) \in Nat
        OBVIOUS
      <4>1. Len(q) \in Nat /\ q \in [1..Len(q) -> 0..NRows]
        BY LenProperties
      <4>2. q \in [1..Len(q) -> Int]
        BY <4>1
      <4> QED BY <4>1, <4>2, IsASeq
    <3> QED BY <3>1 DEF CsvTypeOK
  <2>2. /\ \A i \in 1..Len(received) : received[i] = i - 1
        /\ \A i \in 1..Len(pending) : pending[i] = Len(received) + i - 1
        /\ \A i \in 1..Len(buffer) : buffer[i] = Len(received) + Len(pending) + i - 1
        /\ next = Len(received) + Len(pending) + Len(buffer)
        /\ next \in 0..(NRows + 1)
    BY DEF Flow, Flushed, CsvTypeOK
  <2>3. /\ head \in Seq(Int) /\ Len(head) = Len(received) + Len(pending)
        /\ \A i \in 1..Len(head) : head[i] = i - 1
    BY <2>1, <2>2, CountingOn
  <2> HIDE DEF head
  <2>4. \A i \in 1..Len(buffer) : buffer[i] = Len(head) + i - 1
    BY <2>2, <2>3
  <2>5. /\ all \in Seq(Int) /\ Len(all) = Len(head) + Len(buffer)
        /\ \A i \in 1..Len(all) : all[i] = i - 1
    BY <2>1, <2>3, <2>4, CountingOn
  <2> HIDE DEF all
  <2>6. /\ rows \in Seq(Int) /\ Len(rows) = next
        /\ \A i \in 1..next : rows[i] = i - 1
    <3>1. \A i \in 1..next : Export[i] \in Int /\ Export[i] = i - 1
      BY <2>2, ExportFacts
    <3>2. /\ rows \in Seq(Int) /\ Len(rows) = IF 1 <= next THEN next - 1 + 1 ELSE 0
          /\ \A i \in 1..(next - 1 + 1) : rows[i] = Export[1 + i - 1]
      BY <2>2, <3>1, SubSeqProperties
    <3> HIDE DEF rows
    <3> QED BY <2>2, <3>1, <3>2
  <2> HIDE DEF rows
  <2>7. Len(all) = Len(rows)
    BY <2>1, <2>2, <2>3, <2>5, <2>6
  <2>8. all = rows
    BY <2>5, <2>6, <2>7, SeqEqual
  <2> QED BY <2>8 DEF all, head, rows
<1> QED BY <1>1, SpecInv, PTL

LEMMA DownloadInit == CsvInit => Promise!Init
BY DEF CsvInit, Promise!Init

LEMMA DownloadStep ==
  Inv /\ Inv' /\ CompleteMeansAll' /\ [CsvNext]_csvVars => [Promise!Next]_<<client, received>>
<1> SUFFICES ASSUME Inv, Inv', CompleteMeansAll', [CsvNext]_csvVars, ~UNCHANGED <<client, received>>
             PROVE  Promise!Next
  OBVIOUS
<1>1. CASE Query
  BY <1>1 DEF Query, Inv, Stage, Promise!Next, Promise!End
<1>2. CASE Copy
  <2>1. PICK k \in 1..Len(pending) :
          IF client = "loading"
          THEN received' = received \o SubSeq(pending, 1, k) /\ UNCHANGED reading
          ELSE reading' = FALSE /\ UNCHANGED received
    BY <1>2 DEF Copy
  <2>2. client = "loading" /\ client' = client /\ received' = received \o SubSeq(pending, 1, k)
    BY <1>2, <2>1 DEF Copy
  <2>3. /\ received \in Seq(0..NRows) /\ pending \in Seq(0..NRows) /\ received' \in Seq(0..NRows)
        /\ Len(received) \in Nat /\ Len(pending) \in Nat /\ Len(received') \in Nat
        /\ \A i \in 1..k : pending[i] \in 0..NRows
    <3>1. /\ received \in Seq(0..NRows) /\ pending \in Seq(0..NRows) /\ received' \in Seq(0..NRows)
          /\ Len(received) \in Nat /\ Len(pending) \in Nat /\ Len(received') \in Nat
      BY LenProperties DEF Inv, CsvTypeOK
    <3>2. \A i \in 1..Len(pending) : pending[i] \in 0..NRows
      BY <3>1, ElementOfSeq
    <3>3. \A i \in 1..k : i \in 1..Len(pending)
      BY <3>1
    <3> QED BY <3>1, <3>2, <3>3
  <2>4. SubSeq(pending, 1, k) \in Seq(0..NRows) /\ Len(SubSeq(pending, 1, k)) = k
    <3>1. /\ SubSeq(pending, 1, k) \in Seq(0..NRows)
          /\ Len(SubSeq(pending, 1, k)) = IF 1 <= k THEN k - 1 + 1 ELSE 0
      BY <2>3, SubSeqProperties
    <3> QED BY <2>3, <3>1
  <2>5. Len(received') = Len(received) + k
    <3> DEFINE head == SubSeq(pending, 1, k)
    <3> HIDE DEF head
    <3>1. Len(received \o head) = Len(received) + Len(head)
      BY <2>3, <2>4, ConcatProperties DEF head
    <3> QED BY <2>2, <2>4, <3>1 DEF head
  <2>6. Len(received') <= Len(Export) /\ received' = SubSeq(Export, 1, Len(received'))
    <3>1. IsPrefix(received, Export)'
      BY DEF CompleteMeansAll
    <3>2. Len(received') <= Len(Export) /\ SubSeq(received', 1, Len(received')) = SubSeq(Export, 1, Len(received'))
      BY <3>1 DEF IsPrefix, Export
    <3>3. SubSeq(received', 1, Len(received')) = received'
      BY <2>3, SubSeqFull
    <3> QED BY <3>2, <3>3
  <2>7. Len(Export) \in Nat /\ Len(received') \in Len(received) + 1 .. Len(Export)
    BY <2>3, <2>5, <2>6, ExportFacts, CsvAssumption
  <2> QED BY <2>2, <2>6, <2>7 DEF Promise!Next, Promise!Grow
<1>3. CASE Finish
  <2>1. client = "loading" /\ client' \in {"complete", "broken"} /\ received' = received
    BY <1>3 DEF Finish
  <2>2. client' = "complete" => received' = Export
    BY DEF CompleteMeansAll, Export
  <2> QED BY <2>1, <2>2 DEF Promise!Next, Promise!End
<1>4. CASE Leave
  BY <1>4 DEF Leave, Promise!Next, Promise!End
<1> QED BY <1>1, <1>2, <1>3, <1>4 DEF CsvNext, Goroutine, Server, Encode, StartWrite, Written, WriteFailed,
                                        Close, Reader, csvVars

\* For an export and a buffer of any size, and a client that may leave at any
\* time, goroutine, pipe and copy loop implement a download: it grows by what
\* comes next, is complete only when it is whole, and ends once.
THEOREM ExportIsDownload == CsvSpec => ImplementsDownload
BY DownloadInit, DownloadStep, SpecInv, CompleteIsWhole, PTL DEF CsvSpec, ImplementsDownload, Promise!Spec
=============================================================================
