----------------------- MODULE BrowserSession_proofs ------------------------
(***************************************************************************)
(* Proofs about BrowserSession for any number of tabs and any bounds on    *)
(* messages, sign-ins and lost cookies.                                    *)
(***************************************************************************)
EXTENDS BrowserSession, SequenceTheorems, TLAPS

(* The URLs of the admin, by what follows the sign-in pages.               *)

Names == {"list", "edit", "home", "widget", "action"}
Plain == {<<x>> : x \in Names}
Once == {<<"login", x>> : x \in Names}
Twice == {<<"login", "login", x>> : x \in Names}
SignIns == {<<"login">>} \cup Once \cup Twice
URLs == Plain \cup SignIns \cup {<<"logout">>}

Jars == [csrf : Tokens \cup {Nil}, flash : Messages \cup {Nil}, session : BOOLEAN]

Goals == [url : Plain, how : {"open", "fragment", "form", "action"}]

Pages == [url : URLs, token : Tokens, quiet : BOOLEAN,
          goal : Goals \cup {Nil}]

Requests == [method : {"GET", "POST"}, url : URLs,
             form : {"save", "continue", "action", "login", "logout", Nil},
             token : Tokens \cup {Nil}, message : Messages \cup {Nil}, cookies : Jars,
             htmx : BOOLEAN, quiet : BOOLEAN, resumed : BOOLEAN, hops : Nat]

Types ==
  /\ dashboard \in BOOLEAN
  /\ jar \in Jars /\ seen \subseteq Messages /\ minted \in Nat
  /\ posted \in 0..MaxMessages /\ signins \in 0..MaxSignIns /\ losses \in 0..MaxLosses
  /\ DOMAIN page = Tabs /\ DOMAIN request = Tabs /\ DOMAIN wanted = Tabs
  /\ \A t \in Tabs : /\ page[t] # Nil => page[t] \in Pages
                     /\ Waiting(t) => request[t] \in Requests /\ wanted[t] \in Goals

\* A GET carries no form; sign-in and sign-out forms go to their own routes.
FormFits(r) ==
  /\ r.method = "GET" => r.form = Nil /\ r.message = Nil
  /\ r.form = "login" => r.method = "POST" /\ r.url \in SignIns
  /\ r.form = "logout" => r.method = "POST" /\ r.url = <<"logout">>
  /\ r.url = <<"logout">> => r.form = "logout"

Nobody == \A u \in Tabs : Waiting(u) => request[u].cookies.csrf # Nil

\* A token the browser still has, and nobody is bringing another.
Current(token) == jar.csrf = token /\ Nobody

\* Quiet pages and requests have the browser's token.
Quiet(t) ==
  /\ page[t] # Nil /\ page[t].quiet => Current(page[t].token)
  /\ Waiting(t) /\ request[t].quiet /\ request[t].cookies.csrf # Nil => Current(request[t].cookies.csrf)
  /\ Waiting(t) /\ request[t].quiet /\ request[t].method = "POST"
       => request[t].token = request[t].cookies.csrf /\ request[t].token # Nil

\* A message under way is nowhere else yet.
New(t) ==
  Waiting(t) /\ request[t].message # Nil =>
    LET m == request[t].message
    IN /\ m \notin seen /\ m # jar.flash
       /\ \A u \in Tabs : Waiting(u) => /\ request[u].cookies.flash # m
                                        /\ u # t => request[u].message # m

\* URL leads to the goal.
Leads(url, w) ==
  w.how \in {"open", "form"} =>
    \/ url = w.url
    \/ \E x \in Names : w.url = <<x>> /\ url \in {<<"login", x>>, <<"login", "login", x>>}
    \/ url \in {<<"login">>, <<"logout">>} /\ w.url = <<"home">>

Resumes(t) ==
  /\ Waiting(t) => Leads(request[t].url, wanted[t])
  /\ page[t] # Nil /\ page[t].url \in SignIns => page[t].goal \in Goals /\ Leads(page[t].url, page[t].goal)
  /\ Waiting(t) /\ request[t].resumed => request[t].url \notin Twice \cup {<<"login">>, <<"logout">>}

\* How often a GET of a URL is redirected while the session is as it is.
Ahead(url, session) ==
  IF session THEN IF url \in Plain THEN 0 ELSE IF url \in Twice THEN 2 ELSE 1
  ELSE IF url \in Plain THEN 1 ELSE 0

\* How many redirects a navigation may need in all: one more to the first
\* list that "/" leads a visitor to who is signed in.
Bound(url, session) == IF url = <<"list">> /\ session /\ ~dashboard THEN 3 ELSE 2

Ends(t) ==
  Waiting(t) =>
    IF request[t].method = "POST" \/ request[t].cookies.session # jar.session THEN request[t].hops = 0
    ELSE request[t].hops + Ahead(request[t].url, jar.session) <= Bound(request[t].url, jar.session)

Fits(t) == Waiting(t) => FormFits(request[t])

IInv ==
  /\ Types
  /\ \A t \in Tabs : Fits(t) /\ Quiet(t) /\ New(t) /\ Resumes(t) /\ Ends(t)
  /\ jar.flash \notin seen
-----------------------------------------------------------------------------
(* URLs.                                                                   *)

LEMMA Pairs == ASSUME NEW x PROVE <<"login">> \o <<x>> = <<"login", x>>
<1> DEFINE S == {"login", x}
           one == <<"login">>
           other == <<x>>
           joined == one \o other
           pair == <<"login", x>>
<1>1. one \in Seq(S) /\ other \in Seq(S) /\ pair \in Seq(S)
  OBVIOUS
<1>2. Len(one) = 1 /\ one[1] = "login" /\ Len(other) = 1 /\ other[1] = x
  OBVIOUS
<1>3. Len(pair) = 2 /\ pair[1] = "login" /\ pair[2] = x
  OBVIOUS
<1> HIDE DEF one, other, pair
<1>4. /\ joined \in Seq(S) /\ Len(joined) = Len(one) + Len(other)
      /\ \A i \in 1..Len(one) + Len(other) : joined[i] = IF i <= Len(one) THEN one[i] ELSE other[i - Len(one)]
  BY <1>1, ConcatProperties
<1> HIDE DEF joined
<1>5. \A i \in 1..Len(joined) : joined[i] = pair[i]
  <2> TAKE i \in 1..Len(joined)
  <2>1. i = 1 \/ i = 2
    BY <1>2, <1>4
  <2>2. CASE i = 1
    BY <2>2, <1>2, <1>3, <1>4
  <2>3. CASE i = 2
    BY <2>3, <1>2, <1>3, <1>4
  <2> QED BY <2>1, <2>2, <2>3
<1>6. joined = pair
  BY <1>1, <1>2, <1>3, <1>4, <1>5, SeqEqual
<1> QED BY <1>6 DEF one, other, joined, pair

LEMMA Lengths ==
  ASSUME NEW x \in Names
  PROVE  /\ Head(<<x>>) = x /\ Len(<<x>>) = 1
         /\ Head(<<"login", x>>) = "login" /\ Len(<<"login", x>>) = 2 /\ Tail(<<"login", x>>) = <<x>>
         /\ Head(<<"login", "login", x>>) = "login" /\ Len(<<"login", "login", x>>) = 3
         /\ Tail(<<"login", "login", x>>) = <<"login", x>>
         /\ <<"login">> \o <<x>> = <<"login", x>>
<1>1. Head(<<x>>) = x /\ Len(<<x>>) = 1
  OBVIOUS
<1>2. Head(<<"login", x>>) = "login" /\ Len(<<"login", x>>) = 2
  OBVIOUS
<1>3. Tail(<<"login", x>>) = <<x>>
  OBVIOUS
<1>4. Head(<<"login", "login", x>>) = "login" /\ Len(<<"login", "login", x>>) = 3
  OBVIOUS
<1>5. Tail(<<"login", "login", x>>) = <<"login", x>>
  OBVIOUS
<1>6. <<"login">> \o <<x>> = <<"login", x>>
  BY Pairs
<1> QED BY <1>1, <1>2, <1>3, <1>4, <1>5, <1>6

LEMMA Routes ==
  /\ \A u \in Plain : Head(u) \notin {"login", "logout"} /\ ~Public(u) /\ <<"login">> \o u \in Once
  /\ \A u \in SignIns : Head(u) = "login" /\ Public(u)
  /\ Head(<<"logout">>) = "logout" /\ Public(<<"logout">>)
<1>1. \A x \in Names : x \notin {"login", "logout"}
  BY DEF Names
<1>2. \A u \in Plain : Head(u) \notin {"login", "logout"} /\ <<"login">> \o u \in Once
  <2> TAKE u \in Plain
  <2>1. PICK x \in Names : u = <<x>>
    BY DEF Plain
  <2>2. Head(u) = x /\ <<"login">> \o u = <<"login", x>>
    BY <2>1, Lengths
  <2> QED BY <2>2, <1>1 DEF Once
<1>3. \A u \in SignIns : Head(u) = "login"
  BY Lengths DEF SignIns, Once, Twice
<1>4. Head(<<"logout">>) = "logout"
  OBVIOUS
<1> QED BY <1>2, <1>3, <1>4 DEF Public

\* The kinds of URL exclude each other.
LEMMA Kinds ==
  /\ Plain \cap SignIns = {} /\ <<"logout">> \notin Plain \cup SignIns
  /\ <<"login">> \notin Once \cup Twice /\ Once \cap Twice = {}
  /\ \A x, y \in Names : /\ <<x>> = <<y>> => x = y
                         /\ <<"login", x>> = <<"login", y>> => x = y
                         /\ <<"login", "login", x>> = <<"login", "login", y>> => x = y
<1>1. Plain \cap SignIns = {} /\ <<"logout">> \notin Plain \cup SignIns
  <2>1. \A u \in Plain : Head(u) # "login" /\ Head(u) # "logout"
    BY Routes
  <2>2. \A u \in SignIns : Head(u) = "login"
    BY Routes
  <2>3. Head(<<"logout">>) = "logout"
    OBVIOUS
  <2> QED BY <2>1, <2>2, <2>3
<1>2. <<"login">> \notin Once \cup Twice /\ Once \cap Twice = {}
  <2>1. Len(<<"login">>) = 1
    OBVIOUS
  <2>2. \A u \in Once : Len(u) = 2
    BY Lengths DEF Once
  <2>3. \A u \in Twice : Len(u) = 3
    BY Lengths DEF Twice
  <2> QED BY <2>1, <2>2, <2>3
<1>3. ASSUME NEW x \in Names, NEW y \in Names
      PROVE  /\ <<x>> = <<y>> => x = y
             /\ <<"login", x>> = <<"login", y>> => x = y
             /\ <<"login", "login", x>> = <<"login", "login", y>> => x = y
  <2>1. /\ Head(<<x>>) = x /\ Head(<<y>>) = y
        /\ Tail(<<"login", x>>) = <<x>> /\ Tail(<<"login", y>>) = <<y>>
        /\ Tail(<<"login", "login", x>>) = <<"login", x>> /\ Tail(<<"login", "login", y>>) = <<"login", y>>
    BY Lengths
  <2> QED BY <2>1
<1> QED BY <1>1, <1>2, <1>3

\* Where a sign-in page sends on to, and how many redirects that leaves.
LEMMA Onward ==
  ASSUME NEW u \in SignIns, NEW w \in Goals, Leads(u, w)
  PROVE  /\ NextURL(u) \in Plain \cup Once
         /\ Leads(NextURL(u), w)
         /\ Ahead(NextURL(u), TRUE) = Ahead(u, TRUE) - 1
         /\ Ahead(NextURL(u), FALSE) <= 1 /\ Ahead(NextURL(u), TRUE) <= 1
<1>1. CASE u = <<"login">>
  <2>1. NextURL(u) = <<"home">> /\ <<"home">> \in Plain
    <3>1. Len(<<"login">>) = 1
      OBVIOUS
    <3> QED BY <1>1, <3>1 DEF NextURL, Plain, Names
  <2>2. w.how \in {"open", "form"} => w.url = <<"home">>
    <3>1. \A x \in Names : u \notin {<<"login", x>>, <<"login", "login", x>>}
      BY <1>1, Kinds DEF Once, Twice
    <3>2. u # w.url
      BY Kinds DEF Goals
    <3> QED BY <3>1, <3>2 DEF Leads
  <2>3. u \notin Plain /\ u \notin Twice
    BY <1>1, Kinds
  <2> QED BY <2>1, <2>2, <2>3 DEF Leads, Ahead
<1>2. CASE u \in Once
  <2>1. PICK x \in Names : u = <<"login", x>>
    BY <1>2 DEF Once
  <2>2. NextURL(u) = <<x>> /\ <<x>> \in Plain
    BY <2>1, Lengths DEF NextURL, Plain
  <2>3. w.how \in {"open", "form"} => w.url = <<x>>
    <3>1. \A y \in Names : u \in {<<"login", y>>, <<"login", "login", y>>} => x = y
      BY <1>2, <2>1, Kinds DEF Twice
    <3>2. u # w.url /\ u \notin {<<"login">>, <<"logout">>}
      BY <1>2, Kinds DEF Goals, SignIns
    <3> QED BY <3>1, <3>2 DEF Leads
  <2>4. u \notin Plain /\ u \notin Twice
    BY <1>2, Kinds
  <2> QED BY <2>2, <2>3, <2>4 DEF Leads, Ahead
<1>3. CASE u \in Twice
  <2>1. PICK x \in Names : u = <<"login", "login", x>>
    BY <1>3 DEF Twice
  <2>2. NextURL(u) = <<"login", x>> /\ <<"login", x>> \in Once
    BY <2>1, Lengths DEF NextURL, Once
  <2>3. w.how \in {"open", "form"} => w.url = <<x>>
    <3>1. \A y \in Names : u \in {<<"login", y>>, <<"login", "login", y>>} => x = y
      BY <1>3, <2>1, Kinds DEF Once
    <3>2. u # w.url /\ u \notin {<<"login">>, <<"logout">>}
      BY <1>3, Kinds DEF Goals, SignIns
    <3> QED BY <3>1, <3>2 DEF Leads
  <2>4. u \notin Plain /\ <<"login", x>> \notin Plain /\ <<"login", x>> \notin Twice
    BY <1>3, <2>2, Kinds DEF SignIns
  <2> QED BY <1>3, <2>2, <2>3, <2>4 DEF Leads, Ahead
<1> QED BY <1>1, <1>2, <1>3 DEF SignIns

\* A page asked for without a session leads to its goal by the sign-in page.
LEMMA Detour ==
  ASSUME NEW u \in Plain, NEW w \in Goals, Leads(u, w)
  PROVE  Leads(<<"login">> \o u, w)
<1>1. PICK x \in Names : u = <<x>>
  BY DEF Plain
<1>2. <<"login">> \o u = <<"login", x>>
  BY <1>1, Lengths
<1>3. \A y \in Names : u \notin {<<"login", y>>, <<"login", "login", y>>}
  BY Kinds DEF SignIns, Once, Twice
<1>4. u \notin {<<"login">>, <<"logout">>}
  BY Kinds DEF SignIns
<1>5. w.how \in {"open", "form"} => w.url = u
  BY <1>3, <1>4 DEF Leads
<1> QED BY <1>1, <1>2, <1>5 DEF Leads

LEMMA AtMostTwo == \A u, s : Ahead(u, s) \in 0..2 /\ Bound(u, s) \in 2..3
BY DEF Ahead, Bound
-----------------------------------------------------------------------------
(* What a step may do to the state, and that it keeps the invariant.       *)

LEMMA NilIsNoToken == Nil \notin Nat
BY SessionAssumption

LEMMA NilIsNoMessage == Nil \notin Messages
<1>1. \A m \in Messages : m \in Nat
  BY DEF Messages
<1> QED BY <1>1, NilIsNoToken

\* What has been in a set of tokens or messages stays in it.
LEMMA Growth ==
  ASSUME minted \in Nat, minted' \in Nat, minted <= minted', posted \in Nat, posted' \in Nat, posted <= posted'
  PROVE  /\ Tokens \subseteq Tokens' /\ Messages \subseteq Messages' /\ Jars \subseteq Jars'
         /\ \A p \in Pages : p \in Pages'
         /\ \A r \in Requests : r \in Requests'
<1>1. Tokens \subseteq Tokens' /\ Messages \subseteq Messages'
  BY DEF Tokens, Messages
<1>2. Jars \subseteq Jars'
  BY <1>1 DEF Jars
<1>3. ASSUME NEW p \in Pages PROVE p \in Pages'
  BY <1>1 DEF Pages
<1>4. ASSUME NEW r \in Requests PROVE r \in Requests'
  BY <1>1, <1>2 DEF Requests
<1> QED BY <1>1, <1>2, <1>3, <1>4

LEMMA SendKeeps ==
  ASSUME IInv, NEW t \in Tabs, NEW r, NEW goal \in Plain, NEW how \in {"open", "fragment", "form", "action"},
         Send(t, r, goal, how), r \in Requests',
         posted' \in {posted, posted + 1}, posted' <= MaxMessages, signins' \in 0..MaxSignIns,
         FormFits(r), r.cookies = jar, r.hops = 0, ~r.resumed, Leads(r.url, [url |-> goal, how |-> how]),
         r.message # Nil => r.message = posted + 1 /\ posted' = posted + 1,
         r.quiet /\ r.method = "GET" => ~Minting(t),
         r.quiet /\ r.method = "POST" => page[t] # Nil /\ page[t].quiet /\ r.token = page[t].token
  PROVE  IInv'
<1> DEFINE w == [url |-> goal, how |-> how]
<1> USE NilIsNoToken
<1>1. /\ Types
      /\ \A u \in Tabs : Fits(u) /\ Quiet(u) /\ New(u) /\ Resumes(u) /\ Ends(u)
      /\ jar.flash \notin seen
  BY DEF IInv
<1>2. /\ DOMAIN page = Tabs /\ DOMAIN request = Tabs /\ DOMAIN wanted = Tabs
      /\ jar \in Jars /\ seen \subseteq Messages /\ posted \in Nat /\ minted \in Nat
      /\ \A u \in Tabs : Waiting(u) => request[u] \in Requests
  BY <1>1 DEF Types
<1>3. /\ DOMAIN request' = Tabs /\ request'[t] = r /\ \A u \in Tabs \ {t} : request'[u] = request[u]
      /\ DOMAIN wanted' = Tabs /\ wanted'[t] = w /\ \A u \in Tabs \ {t} : wanted'[u] = wanted[u]
      /\ jar' = jar /\ page' = page /\ seen' = seen /\ minted' = minted /\ losses' = losses
      /\ dashboard' = dashboard
  BY <1>2 DEF Send
<1>4. /\ Jars \subseteq Jars' /\ Messages \subseteq Messages'
      /\ \A p \in Pages : p \in Pages'
      /\ \A q \in Requests : q \in Requests'
  BY <1>2, <1>3, Growth
<1>5. w \in Goals
  BY DEF Goals
<1>6. Types'
  <2>1. \A u \in Tabs : /\ page'[u] # Nil => page'[u] \in Pages'
                        /\ request'[u] # Nil => request'[u] \in Requests' /\ wanted'[u] \in Goals
    BY <1>1, <1>3, <1>4, <1>5 DEF Types, Waiting
  <2> QED BY <1>1, <1>2, <1>3, <1>4, <2>1 DEF Types, Waiting
<1> HIDE DEF w
<1>7. \A u \in Tabs : Fits(u)'
  BY <1>1, <1>3 DEF Fits, Waiting
<1>8. \A u \in Tabs : Quiet(u)'
  <2>1. ASSUME NEW k, k # Nil, Current(k) PROVE Current(k)'
    BY <2>1, <1>3 DEF Current, Nobody, Waiting
  <2>2. \A u \in Tabs : page[u] # Nil => page[u].token # Nil
    BY <1>1 DEF Types, Pages, Tokens
  <2>3. ASSUME NEW u \in Tabs \ {t} PROVE Quiet(u)'
    BY <1>1, <1>3, <2>1, <2>2 DEF Quiet, Waiting
  <2>4. (page[t] # Nil /\ page[t].quiet => Current(page[t].token))'
    BY <1>1, <1>3, <2>1, <2>2 DEF Quiet
  <2>5. ASSUME r.quiet /\ r.method = "GET" PROVE Quiet(t)'
    <3>1. ASSUME jar.csrf # Nil PROVE Nobody'
      <4>1. ~Minting(t)
        BY <2>5
      <4> QED BY <4>1, <3>1, <1>3 DEF Minting, Nobody, Waiting
    <3>2. r.cookies.csrf # Nil => Current(r.cookies.csrf)'
      BY <3>1, <1>3 DEF Current
    <3> QED BY <2>4, <2>5, <3>2, <1>3 DEF Quiet, Waiting
  <2>6. ASSUME r.quiet /\ r.method = "POST" PROVE Quiet(t)'
    <3>1. page[t] # Nil /\ page[t].quiet /\ r.token = page[t].token
      BY <2>6
    <3>2. Current(page[t].token) /\ page[t].token # Nil
      BY <1>1, <2>2, <3>1 DEF Quiet
    <3>3. r.cookies.csrf = page[t].token
      BY <3>2 DEF Current
    <3> QED BY <2>1, <2>4, <3>1, <3>2, <3>3, <1>3 DEF Quiet, Waiting
  <2>7. ASSUME ~r.quiet PROVE Quiet(t)'
    BY <2>7, <2>4, <1>3 DEF Quiet, Waiting
  <2>8. r.method \in {"GET", "POST"} /\ r.quiet \in BOOLEAN
    BY DEF Requests
  <2> QED BY <2>3, <2>5, <2>6, <2>7, <2>8
<1>9. \A u \in Tabs : New(u)'
  <2>1. jar.flash # posted + 1 /\ posted + 1 \notin seen
    BY <1>2 DEF Jars, Messages
  <2>2. \A u \in Tabs : Waiting(u) => request[u].message # posted + 1 /\ request[u].cookies.flash # posted + 1
    BY <1>2 DEF Requests, Jars, Messages
  <2>3. New(t)'
    BY <1>3, <2>1, <2>2 DEF New, Waiting
  <2>4. ASSUME NEW u \in Tabs \ {t} PROVE New(u)'
    BY <1>1, <1>3, <2>2 DEF New, Waiting
  <2> QED BY <2>3, <2>4
<1>10. \A u \in Tabs : Resumes(u)'
  <2>1. Resumes(t)'
    BY <1>1, <1>3 DEF Resumes, Waiting, w
  <2>2. ASSUME NEW u \in Tabs \ {t} PROVE Resumes(u)'
    BY <1>1, <1>3 DEF Resumes, Waiting
  <2> QED BY <2>1, <2>2
<1>11. \A u \in Tabs : Ends(u)'
  <2>1. Ends(t)'
    BY <1>3, AtMostTwo DEF Ends, Bound, Waiting
  <2>2. ASSUME NEW u \in Tabs \ {t} PROVE Ends(u)'
    BY <1>1, <1>3 DEF Ends, Bound, Waiting
  <2> QED BY <2>1, <2>2
<1>12. (jar.flash \notin seen)'
  BY <1>1, <1>3
<1> QED BY <1>6, <1>7, <1>8, <1>9, <1>10, <1>11, <1>12 DEF IInv

\* The request of a tab is over: the page stays or is replaced by the one
\* requested, which may have shown the message.
LEMMA SettleKeeps ==
  ASSUME IInv, NEW t \in Tabs, Waiting(t), Served(t, request[t]),
         \/ seen' = seen /\ jar' = Cookies(request[t])
         \/ /\ seen' = seen \cup ({request[t].cookies.flash} \ {Nil})
            /\ jar' = [Cookies(request[t]) EXCEPT !.flash = Nil],
         \/ page' = page
         \/ Show(t, request[t], request[t].url)
  PROVE  IInv'
<1> DEFINE r == request[t]
           quiet == r.quiet /\ ~Minting(t)
<1> USE NilIsNoToken
<1>1. /\ Types
      /\ \A u \in Tabs : Fits(u) /\ Quiet(u) /\ New(u) /\ Resumes(u) /\ Ends(u)
      /\ jar.flash \notin seen
  BY DEF IInv
<1>2. /\ DOMAIN page = Tabs /\ DOMAIN request = Tabs /\ DOMAIN wanted = Tabs
      /\ jar \in Jars /\ seen \subseteq Messages /\ posted \in Nat /\ minted \in Nat
      /\ r \in Requests /\ wanted[t] \in Goals
      /\ \A u \in Tabs : Waiting(u) => request[u] \in Requests
  BY <1>1 DEF Types
<1>3. /\ DOMAIN request' = Tabs /\ request'[t] = Nil /\ \A u \in Tabs \ {t} : request'[u] = request[u]
      /\ DOMAIN wanted' = Tabs /\ \A u \in Tabs \ {t} : wanted'[u] = wanted[u]
      /\ dashboard' = dashboard /\ posted' = posted /\ signins' = signins /\ losses' = losses
      /\ minted' = IF r.cookies.csrf = Nil THEN minted + 1 ELSE minted
  BY <1>2 DEF Served, Mint, Minted
<1>4. /\ Tokens \subseteq Tokens'
      /\ \A p \in Pages : p \in Pages'
      /\ \A q \in Requests : q \in Requests'
  BY <1>2, <1>3, Growth
<1>5. /\ r.cookies \in Jars /\ r.url \in URLs /\ r.quiet \in BOOLEAN
      /\ jar.csrf \in Tokens \cup {Nil} /\ jar.flash \in Messages \cup {Nil} /\ jar.session \in BOOLEAN
      /\ r.cookies.csrf \in Tokens \cup {Nil} /\ r.cookies.flash \in Messages \cup {Nil}
  BY <1>2 DEF Requests, Jars
<1>6. /\ Token(r) \in Tokens' /\ Token(r) # Nil
      /\ r.cookies.csrf # Nil => Token(r) = r.cookies.csrf
  BY <1>2, <1>3, <1>5 DEF Token, Minted, Tokens
<1>7. /\ jar'.csrf = IF r.cookies.csrf = Nil THEN Token(r) ELSE jar.csrf
      /\ jar'.session = jar.session /\ jar'.flash \in {jar.flash, Nil}
      /\ jar' \in Jars'
  BY <1>2, <1>3, <1>4, <1>5, <1>6 DEF Cookies, Minted, Jars, Messages
<1>8. seen' \subseteq seen \cup {r.cookies.flash} /\ seen' \subseteq Messages
  BY <1>2, <1>5
<1>9. /\ DOMAIN page' = Tabs /\ \A u \in Tabs \ {t} : page'[u] = page[u]
      /\ \/ page'[t] = page[t]
         \/ page'[t] = [url |-> r.url, token |-> Token(r), quiet |-> quiet,
                        goal |-> IF Head(r.url) = "login" THEN wanted[t] ELSE Nil]
  BY <1>2 DEF Show
<1> HIDE DEF r, quiet
<1>10. page'[t] # Nil => page'[t] \in Pages'
  <2>1. CASE page'[t] = page[t]
    BY <2>1, <1>1, <1>4 DEF Types
  <2>2. CASE page'[t] # page[t]
    <3>1. quiet \in BOOLEAN
      BY DEF quiet
    <3> QED BY <2>2, <1>2, <1>5, <1>6, <1>9, <3>1 DEF Pages
  <2> QED BY <2>1, <2>2
<1>11. Types'
  <2>1. \A u \in Tabs : /\ page'[u] # Nil => page'[u] \in Pages'
                        /\ request'[u] # Nil => request'[u] \in Requests' /\ wanted'[u] \in Goals
    BY <1>1, <1>3, <1>4, <1>9, <1>10 DEF Types, Waiting
  <2>2. seen' \subseteq Messages' /\ minted' \in Nat /\ dashboard' \in BOOLEAN
    BY <1>1, <1>2, <1>3, <1>8 DEF Types, Messages
  <2>3. posted' \in 0..MaxMessages /\ signins' \in 0..MaxSignIns /\ losses' \in 0..MaxLosses
    BY <1>1, <1>3 DEF Types
  <2>4. DOMAIN page' = Tabs /\ DOMAIN request' = Tabs /\ DOMAIN wanted' = Tabs /\ jar' \in Jars'
    BY <1>3, <1>7, <1>9
  <2> QED BY <2>1, <2>2, <2>3, <2>4 DEF Types, Waiting
<1>12. \A u \in Tabs : Fits(u)'
  BY <1>1, <1>3 DEF Fits, Waiting
<1>13. \A u \in Tabs : Quiet(u)'
  <2>1. ASSUME NEW k, Current(k) PROVE Current(k)'
    <3>1. r.cookies.csrf # Nil
      BY <2>1 DEF Current, Nobody, r
    <3>2. Nobody'
      BY <2>1, <1>3 DEF Current, Nobody, Waiting
    <3> QED BY <2>1, <3>1, <3>2, <1>7 DEF Current
  <2>2. ASSUME page'[t] # page[t], page'[t].quiet PROVE Current(page[t].token)'
    <3>1. page'[t] = [url |-> r.url, token |-> Token(r), quiet |-> quiet,
                      goal |-> IF Head(r.url) = "login" THEN wanted[t] ELSE Nil]
      BY <1>9, <2>2
    <3>2. page'[t].token = Token(r) /\ page'[t].quiet = quiet
      BY <3>1
    <3>3. r.quiet /\ ~Minting(t)
      BY <3>2, <2>2 DEF quiet
    <3>4. Nobody'
      BY <1>3, <3>3 DEF Nobody, Minting, Waiting
    <3>5. jar'.csrf = Token(r)
      <4>1. CASE r.cookies.csrf = Nil
        BY <4>1, <1>7
      <4>2. CASE r.cookies.csrf # Nil
        <5>1. Current(r.cookies.csrf)
          BY <1>1, <4>2, <3>3 DEF Quiet, r
        <5> QED BY <5>1, <4>2, <1>6, <1>7 DEF Current
      <4> QED BY <4>1, <4>2
    <3> QED BY <3>2, <3>4, <3>5 DEF Current
  <2>3. \A u \in Tabs : (page[u] # Nil /\ page[u].quiet => Current(page[u].token))'
    BY <1>1, <1>9, <2>1, <2>2 DEF Quiet
  <2> QED BY <1>1, <1>3, <2>1, <2>3 DEF Quiet, Waiting
<1>14. \A u \in Tabs : New(u)'
  <2> SUFFICES ASSUME NEW u \in Tabs \ {t}, request[u] # Nil, request[u].message # Nil
               PROVE  New(u)'
    BY <1>3 DEF New, Waiting
  <2>1. New(u) /\ r.cookies.flash # request[u].message
    BY <1>1 DEF New, Waiting, r
  <2> QED BY <2>1, <1>3, <1>7, <1>8 DEF New, Waiting
<1>15. \A u \in Tabs : Resumes(u)'
  <2>1. ASSUME page'[t] # page[t], page'[t].url \in SignIns
        PROVE  page'[t].goal \in Goals /\ Leads(page'[t].url, page'[t].goal)
    <3>1. page'[t].url = r.url /\ Head(r.url) = "login" /\ page'[t].goal = wanted[t]
      BY <2>1, <1>9, Routes
    <3>2. Leads(r.url, wanted[t])
      BY <1>1 DEF Resumes, r
    <3> QED BY <3>1, <3>2, <1>2
  <2> QED BY <1>1, <1>3, <1>9, <2>1 DEF Resumes, Waiting
<1>16. \A u \in Tabs : Ends(u)'
  BY <1>1, <1>3, <1>7 DEF Ends, Bound, Waiting
<1>17. (jar.flash \notin seen)'
  <2>1. CASE seen' = seen /\ jar' = Cookies(r)
    BY <2>1, <1>1, <1>2 DEF Cookies, Jars
  <2>2. CASE jar' = [Cookies(r) EXCEPT !.flash = Nil]
    <3>1. jar'.flash = Nil
      BY <2>2, <1>2 DEF Cookies, Jars
    <3> QED BY <3>1, <1>8 DEF Messages
  <2> QED BY <2>1, <2>2 DEF r
<1> QED BY <1>11, <1>12, <1>13, <1>14, <1>15, <1>16, <1>17 DEF IInv

\* The browser follows a redirect of a tab to a page that is nearer to its goal.
LEMMA RedirectKeeps ==
  ASSUME IInv, NEW t \in Tabs, Waiting(t), NEW url \in Plain \cup SignIns,
         NEW flash \in {jar.flash, request[t].message}, NEW session \in BOOLEAN,
         Redirect(t, request[t], url, [Cookies(request[t]) EXCEPT !.flash = flash, !.session = session]),
         flash # jar.flash => request[t].message # Nil,
         "login" \in {Head(request[t].url), Head(url)} => Leads(url, wanted[t]),
         Head(request[t].url) = "login" => url \in Plain \cup Once,
         session = jar.session => request[t].hops + 1 + Ahead(url, session) <= Bound(url, session)
  PROVE  IInv'
<1> DEFINE r == request[t]
           cookies == [Cookies(r) EXCEPT !.flash = flash, !.session = session]
           q == request'[t]
<1> USE NilIsNoToken
<1>1. /\ Types
      /\ \A u \in Tabs : Fits(u) /\ Quiet(u) /\ New(u) /\ Resumes(u) /\ Ends(u)
      /\ jar.flash \notin seen
  BY DEF IInv
<1>2. /\ DOMAIN page = Tabs /\ DOMAIN request = Tabs /\ DOMAIN wanted = Tabs
      /\ jar \in Jars /\ seen \subseteq Messages /\ posted \in Nat /\ minted \in Nat
      /\ r \in Requests /\ wanted[t] \in Goals
      /\ \A u \in Tabs : Waiting(u) => request[u] \in Requests
  BY <1>1 DEF Types
<1>3. /\ jar' = cookies /\ page' = page /\ seen' = seen
      /\ dashboard' = dashboard /\ posted' = posted /\ signins' = signins /\ losses' = losses
      /\ minted' = IF r.cookies.csrf = Nil THEN minted + 1 ELSE minted
  BY DEF Redirect, Mint, Minted
<1>4. /\ Tokens \subseteq Tokens'
      /\ \A p \in Pages : p \in Pages'
      /\ \A o \in Requests : o \in Requests'
  BY <1>2, <1>3, Growth
<1>5. /\ r.cookies \in Jars /\ r.url \in URLs /\ r.hops \in Nat /\ r.message \in Messages \cup {Nil}
      /\ jar.csrf \in Tokens \cup {Nil} /\ jar.flash \in Messages \cup {Nil} /\ jar.session \in BOOLEAN
      /\ r.cookies.csrf \in Tokens \cup {Nil}
  BY <1>2 DEF Requests, Jars
<1>6. Token(r) \in Tokens' /\ Token(r) # Nil
  BY <1>2, <1>3, <1>5 DEF Token, Minted, Tokens
<1>7. /\ cookies.csrf = IF r.cookies.csrf = Nil THEN Token(r) ELSE jar.csrf
      /\ cookies.session = session /\ cookies.flash = flash
      /\ cookies \in Jars'
  BY <1>2, <1>3, <1>4, <1>5, <1>6 DEF Cookies, Minted, Jars, Messages
<1>8. /\ DOMAIN request' = Tabs
      /\ \A u \in Tabs \ {t} : request'[u] = IF Waiting(u) /\ session # jar.session THEN [request[u] EXCEPT !.hops = 0]
                                           ELSE request[u]
  BY <1>7 DEF Redirect, Resettled
<1>9. /\ q.method = "GET" /\ q.url = url /\ q.form = Nil /\ q.token = Nil /\ q.message = Nil /\ q.cookies = cookies
      /\ q.htmx = FALSE /\ q.quiet = ~Minting(t) /\ q.resumed = (Head(r.url) = "login")
      /\ q.hops = IF session = jar.session THEN r.hops + 1 ELSE 0
  <2>1. q = [Get(t, url, cookies) EXCEPT !.resumed = Head(r.url) = "login",
                                         !.hops = IF cookies.session = jar.session THEN r.hops + 1 ELSE 0]
    BY DEF Redirect, Resettled
  <2> HIDE DEF q, cookies, r
  <2> QED BY <2>1, <1>7 DEF Get
<1>10. q = [method |-> q.method, url |-> q.url, form |-> q.form, token |-> q.token, message |-> q.message,
            cookies |-> q.cookies, htmx |-> q.htmx, quiet |-> q.quiet, resumed |-> q.resumed, hops |-> q.hops]
  <2>1. q = [Get(t, url, cookies) EXCEPT !.resumed = Head(r.url) = "login",
                                         !.hops = IF cookies.session = jar.session THEN r.hops + 1 ELSE 0]
    BY DEF Redirect, Resettled
  <2> HIDE DEF q, cookies, r
  <2> QED BY <2>1 DEF Get
<1>11. /\ DOMAIN wanted' = Tabs /\ \A u \in Tabs \ {t} : wanted'[u] = wanted[u]
       /\ wanted'[t] \in Goals /\ Leads(url, wanted'[t])
  <2>1. CASE "login" \in {Head(r.url), Head(url)}
    <3>1. wanted' = wanted
      BY <2>1 DEF Redirect
    <3> QED BY <3>1, <2>1, <1>2
  <2>2. CASE "login" \notin {Head(r.url), Head(url)}
    <3>1. wanted' = [wanted EXCEPT ![t] = [url |-> url, how |-> "open"]]
      BY <2>2 DEF Redirect
    <3>2. url \in Plain
      BY <2>2, Routes
    <3> QED BY <3>1, <3>2, <1>2 DEF Goals, Leads
  <2> QED BY <2>1, <2>2
<1> HIDE DEF r, q, cookies
<1>12. q \in Requests'
  <2>1. q.quiet \in BOOLEAN /\ q.resumed \in BOOLEAN
    BY <1>9
  <2>2. q.hops \in Nat /\ q.url \in URLs
    BY <1>5, <1>9 DEF URLs
  <2>3. /\ q.method \in {"GET", "POST"} /\ q.form \in {"save", "continue", "action", "login", "logout", Nil}
        /\ q.token \in Tokens' \cup {Nil} /\ q.message \in Messages' \cup {Nil} /\ q.cookies \in Jars' /\ q.htmx \in BOOLEAN
    BY <1>7, <1>9
  <2> QED BY <1>10, <2>1, <2>2, <2>3 DEF Requests
<1>13. \A u \in Tabs \ {t} : Waiting(u) => request'[u] \in Requests
  <2> SUFFICES ASSUME NEW u \in Tabs \ {t}, Waiting(u) PROVE request'[u] \in Requests
    OBVIOUS
  <2>1. request[u] \in Requests
    BY <1>2
  <2>2. [request[u] EXCEPT !.hops = 0] \in Requests
    BY <2>1 DEF Requests
  <2> QED BY <1>8, <2>1, <2>2
<1>14. \A u \in Tabs \ {t} : /\ request'[u] # Nil => Waiting(u)
                             /\ Waiting(u) => /\ request'[u].method = request[u].method /\ request'[u].url = request[u].url
                                              /\ request'[u].form = request[u].form /\ request'[u].token = request[u].token
                                              /\ request'[u].message = request[u].message
                                              /\ request'[u].cookies = request[u].cookies
                                              /\ request'[u].quiet = request[u].quiet
                                              /\ request'[u].resumed = request[u].resumed
                                              /\ \/ session = jar.session /\ request'[u] = request[u]
                                                 \/ session # jar.session /\ request'[u].hops = 0
  BY <1>2, <1>8 DEF Waiting, Requests
<1>15. Types'
  <2>1. \A u \in Tabs : /\ page'[u] # Nil => page'[u] \in Pages'
                        /\ request'[u] # Nil => request'[u] \in Requests' /\ wanted'[u] \in Goals
    BY <1>1, <1>3, <1>4, <1>11, <1>12, <1>13, <1>14 DEF Types, Waiting, q
  <2>2. seen' \subseteq Messages' /\ minted' \in Nat /\ dashboard' \in BOOLEAN
    BY <1>1, <1>2, <1>3 DEF Types, Messages
  <2>3. posted' \in 0..MaxMessages /\ signins' \in 0..MaxSignIns /\ losses' \in 0..MaxLosses
    BY <1>1, <1>3 DEF Types
  <2>4. DOMAIN page' = Tabs /\ DOMAIN request' = Tabs /\ DOMAIN wanted' = Tabs /\ jar' \in Jars'
    BY <1>2, <1>3, <1>7, <1>8, <1>11
  <2> QED BY <2>1, <2>2, <2>3, <2>4 DEF Types, Waiting
<1>16. \A u \in Tabs : Fits(u)'
  <2>1. FormFits(q)
    BY <1>9, SessionAssumption, Kinds DEF FormFits
  <2>2. ASSUME NEW u \in Tabs \ {t}, Waiting(u), FormFits(request[u]) PROVE FormFits(request'[u])
    BY <2>2, <1>14 DEF FormFits
  <2> QED BY <2>1, <2>2, <1>1, <1>14 DEF Fits, Waiting, q
<1>17. \A u \in Tabs : Quiet(u)'
  <2>1. jar'.csrf = q.cookies.csrf
    BY <1>3, <1>6, <1>7, <1>9
  <2>2. ASSUME NEW k, k # Nil, Current(k) PROVE Current(k)'
    <3>1. r.cookies.csrf # Nil
      BY <2>2 DEF Current, Nobody, r
    <3>2. jar'.csrf = k /\ q.cookies.csrf = k
      BY <2>2, <3>1, <1>3, <1>7, <1>9 DEF Current
    <3>3. Nobody'
      BY <2>2, <3>2, <1>14 DEF Current, Nobody, Waiting, q
    <3> QED BY <3>2, <3>3 DEF Current
  <2>3. \A u \in Tabs : page[u] # Nil => page[u].token # Nil
    BY <1>1 DEF Types, Pages, Tokens
  <2>4. \A u \in Tabs : (page[u] # Nil /\ page[u].quiet => Current(page[u].token))'
    BY <1>1, <1>3, <2>2, <2>3 DEF Quiet
  <2>5. ASSUME q.quiet, q.cookies.csrf # Nil PROVE Current(request[t].cookies.csrf)'
    <3>1. ~Minting(t)
      BY <2>5, <1>9
    <3>2. Nobody'
      BY <2>5, <3>1, <1>14 DEF Minting, Nobody, Waiting, q
    <3> QED BY <3>2, <2>1 DEF Current, q
  <2>6. Quiet(t)'
    BY <2>4, <2>5, <1>9 DEF Quiet, Waiting, q
  <2>7. ASSUME NEW u \in Tabs \ {t} PROVE Quiet(u)'
    BY <1>1, <1>14, <2>2, <2>4 DEF Quiet, Waiting
  <2> QED BY <2>6, <2>7
<1>18. \A u \in Tabs : New(u)'
  <2>1. New(t)'
    BY <1>9 DEF New, q
  <2>2. ASSUME NEW u \in Tabs \ {t}, request'[u] # Nil, request'[u].message # Nil PROVE New(u)'
    <3> DEFINE m == request[u].message
    <3>1. /\ m # Nil /\ m \notin seen /\ m # jar.flash /\ m # r.message
          /\ \A v \in Tabs : Waiting(v) => request[v].cookies.flash # m /\ (v # u => request[v].message # m)
      BY <1>1, <1>14, <2>2 DEF New, Waiting, r
    <3>2. m # flash
      BY <3>1 DEF r
    <3>3. jar'.flash # m /\ q.cookies.flash # m /\ q.message # m /\ request'[u].message = m
      BY <3>1, <3>2, <1>3, <1>7, <1>9, <1>14, <2>2
    <3> HIDE DEF m
    <3> QED BY <3>1, <3>3, <1>3, <1>14 DEF New, Waiting, q
  <2> QED BY <2>1, <2>2 DEF New, Waiting
<1>19. \A u \in Tabs : Resumes(u)'
  <2>1. q.resumed => q.url \notin Twice \cup {<<"login">>, <<"logout">>}
    BY <1>9, Kinds DEF r, SignIns
  <2>2. Resumes(t)'
    BY <1>1, <1>3, <1>9, <1>11, <2>1 DEF Resumes, Waiting, q
  <2>3. ASSUME NEW u \in Tabs \ {t} PROVE Resumes(u)'
    BY <1>1, <1>3, <1>11, <1>14 DEF Resumes, Waiting
  <2> QED BY <2>2, <2>3
<1>20. \A u \in Tabs : Ends(u)'
  <2>1. jar'.session = session
    BY <1>3, <1>7
  <2>2. Ends(t)'
    <3>1. q.hops + Ahead(q.url, session) <= Bound(q.url, session)
      BY <1>9, AtMostTwo DEF r
    <3> QED BY <3>1, <2>1, <1>3, <1>7, <1>9 DEF Ends, Bound, Waiting, q
  <2>3. ASSUME NEW u \in Tabs \ {t} PROVE Ends(u)'
    <3>1. CASE session = jar.session
      BY <3>1, <2>1, <1>1, <1>3, <1>14 DEF Ends, Bound, Waiting
    <3>2. CASE session # jar.session
      BY <3>2, <2>1, <1>3, <1>14, AtMostTwo DEF Ends, Bound, Waiting
    <3> QED BY <3>1, <3>2
  <2> QED BY <2>2, <2>3
<1>21. (jar.flash \notin seen)'
  <2>1. jar'.flash = flash
    BY <1>3, <1>7
  <2>2. request[t].message # Nil => request[t].message \notin seen
    BY <1>1 DEF New
  <2> QED BY <1>1, <1>3, <2>1, <2>2
<1> QED BY <1>15, <1>16, <1>17, <1>18, <1>19, <1>20, <1>21 DEF IInv

LEMMA StopKeeps == ASSUME IInv, NEW t \in Tabs, Stop(t) PROVE IInv'
<1>1. /\ Types
      /\ \A u \in Tabs : Fits(u) /\ Quiet(u) /\ New(u) /\ Resumes(u) /\ Ends(u)
      /\ jar.flash \notin seen
  BY DEF IInv
<1>2. /\ DOMAIN request' = Tabs /\ request'[t] = Nil /\ \A u \in Tabs \ {t} : request'[u] = request[u]
      /\ DOMAIN wanted' = Tabs /\ \A u \in Tabs \ {t} : wanted'[u] = wanted[u]
      /\ jar' = jar /\ page' = page /\ seen' = seen /\ minted' = minted
      /\ dashboard' = dashboard /\ posted' = posted /\ signins' = signins /\ losses' = losses
  BY <1>1 DEF Stop, Types
<1>3. Types'
  <2>1. Tokens' = Tokens /\ Messages' = Messages
    BY <1>2 DEF Tokens, Messages
  <2>2. Jars' = Jars /\ Pages' = Pages /\ Requests' = Requests
    BY <2>1 DEF Jars, Pages, Requests
  <2> QED BY <1>1, <1>2, <2>1, <2>2 DEF Types, Waiting
<1>4. \A u \in Tabs : Quiet(u)'
  <2>1. ASSUME NEW k, Current(k) PROVE Current(k)'
    BY <2>1, <1>2 DEF Current, Nobody, Waiting
  <2> QED BY <1>1, <1>2, <2>1 DEF Quiet, Waiting
<1>5. \A u \in Tabs : Fits(u)' /\ Resumes(u)' /\ Ends(u)'
  BY <1>1, <1>2 DEF Fits, Resumes, Ends, Bound, Waiting
<1>6. \A u \in Tabs : New(u)'
  BY <1>1, <1>2 DEF New, Waiting
<1> QED BY <1>1, <1>2, <1>3, <1>4, <1>5, <1>6 DEF IInv

LEMMA FlashExpiresKeeps == ASSUME IInv, FlashExpires PROVE IInv'
<1>1. /\ Types
      /\ \A u \in Tabs : Fits(u) /\ Quiet(u) /\ New(u) /\ Resumes(u) /\ Ends(u)
  BY DEF IInv
<1>2. /\ jar \in Jars /\ jar' = [jar EXCEPT !.flash = Nil]
      /\ page' = page /\ request' = request /\ wanted' = wanted /\ seen' = seen /\ minted' = minted
      /\ dashboard' = dashboard /\ posted' = posted /\ signins' = signins /\ losses' = losses
  BY <1>1 DEF FlashExpires, Types
<1>3. jar' \in Jars /\ jar'.csrf = jar.csrf /\ jar'.session = jar.session /\ jar'.flash = Nil
  BY <1>2 DEF Jars
<1>4. Types'
  <2>1. Tokens' = Tokens /\ Messages' = Messages
    BY <1>2 DEF Tokens, Messages
  <2>2. Jars' = Jars /\ Pages' = Pages /\ Requests' = Requests
    BY <2>1 DEF Jars, Pages, Requests
  <2> QED BY <1>1, <1>2, <1>3, <2>1, <2>2 DEF Types, Waiting
<1>5. \A u \in Tabs : Quiet(u)'
  BY <1>1, <1>2, <1>3 DEF Quiet, Current, Nobody, Waiting
<1>6. \A u \in Tabs : Fits(u)' /\ Resumes(u)' /\ Ends(u)'
  BY <1>1, <1>2, <1>3 DEF Fits, Resumes, Ends, Bound, Waiting
<1>7. \A u \in Tabs : New(u)'
  BY <1>1, <1>2, <1>3 DEF New, Waiting
<1>8. (jar.flash \notin seen)'
  <2>1. Nil \notin seen
    BY <1>1, NilIsNoMessage DEF Types
  <2> QED BY <2>1, <1>2, <1>3
<1> QED BY <1>4, <1>5, <1>6, <1>7, <1>8 DEF IInv

LEMMA LoseKeeps == ASSUME IInv, Lose PROVE IInv'
<1> DEFINE ended == /\ jar.session /\ jar' = [jar EXCEPT !.session = FALSE] /\ request' = Resettled(jar')
                    /\ UNCHANGED page
           dropped == /\ jar' = [csrf |-> Nil, flash |-> Nil, session |-> FALSE]
                      /\ page' = [t \in Tabs |-> IF page[t] = Nil THEN Nil ELSE [page[t] EXCEPT !.quiet = FALSE]]
                      /\ request' = [t \in Tabs |-> IF Waiting(t) THEN [Resettled(jar')[t] EXCEPT !.quiet = FALSE] ELSE Nil]
<1> USE NilIsNoToken
<1>1. /\ Types
      /\ \A u \in Tabs : Fits(u) /\ Quiet(u) /\ New(u) /\ Resumes(u) /\ Ends(u)
      /\ jar.flash \notin seen
  BY DEF IInv
<1>2. ended \/ dropped
  BY DEF Lose
<1>3. /\ losses < MaxLosses /\ losses' = losses + 1 /\ wanted' = wanted /\ seen' = seen /\ minted' = minted
      /\ dashboard' = dashboard /\ posted' = posted /\ signins' = signins
  BY DEF Lose
<1>4. /\ jar \in Jars /\ DOMAIN page = Tabs /\ DOMAIN request = Tabs
      /\ \A u \in Tabs : /\ page[u] # Nil => page[u] \in Pages
                         /\ Waiting(u) => request[u] \in Requests
  BY <1>1 DEF Types
<1>5. jar' \in Jars /\ jar'.session = FALSE /\ jar'.flash \in {jar.flash, Nil}
  <2>1. CASE ended
    <3>1. jar' = [jar EXCEPT !.session = FALSE]
      BY <2>1
    <3> HIDE DEF ended, dropped
    <3> QED BY <3>1, <1>4 DEF Jars
  <2>2. CASE dropped
    <3>1. jar' = [csrf |-> Nil, flash |-> Nil, session |-> FALSE]
      BY <2>2
    <3> HIDE DEF ended, dropped
    <3> QED BY <3>1 DEF Jars
  <2> QED BY <1>2, <2>1, <2>2
<1>6. /\ DOMAIN request' = Tabs
      /\ \A u \in Tabs : ~Waiting(u) => request'[u] = Nil
      /\ \A u \in Tabs : Waiting(u) =>
           /\ request'[u] \in Requests
           /\ request'[u].method = request[u].method /\ request'[u].url = request[u].url
           /\ request'[u].form = request[u].form /\ request'[u].token = request[u].token
           /\ request'[u].message = request[u].message /\ request'[u].cookies = request[u].cookies
           /\ request'[u].resumed = request[u].resumed
           /\ request'[u].quiet = IF dropped THEN FALSE ELSE request[u].quiet
           /\ request'[u].hops = IF jar.session THEN 0 ELSE request[u].hops
  <2>1. jar.session \in BOOLEAN
    BY <1>4 DEF Jars
  <2>2. DOMAIN Resettled(jar') = Tabs
    BY DEF Resettled
  <2>3. ASSUME NEW u \in Tabs
        PROVE  Resettled(jar')[u] = IF Waiting(u) /\ jar.session THEN [request[u] EXCEPT !.hops = 0] ELSE request[u]
    BY <2>1, <1>5 DEF Resettled
  <2>4. ASSUME NEW u \in Tabs, Waiting(u), NEW q, q = Resettled(jar')[u]
        PROVE  /\ q \in Requests
               /\ q.method = request[u].method /\ q.url = request[u].url
               /\ q.form = request[u].form /\ q.token = request[u].token
               /\ q.message = request[u].message /\ q.cookies = request[u].cookies
               /\ q.resumed = request[u].resumed /\ q.quiet = request[u].quiet
               /\ q.hops = IF jar.session THEN 0 ELSE request[u].hops
    <3>1. request[u] \in Requests
      BY <2>4, <1>4
    <3>2. CASE jar.session
      <4>1. q = [request[u] EXCEPT !.hops = 0]
        BY <2>3, <2>4, <3>2
      <4> QED BY <3>1, <3>2, <4>1 DEF Requests
    <3>3. CASE ~jar.session
      BY <2>3, <2>4, <3>1, <3>3
    <3> QED BY <3>2, <3>3
  <2>5. CASE dropped
    <3>1. /\ DOMAIN request' = Tabs
          /\ \A u \in Tabs : request'[u] = IF Waiting(u) THEN [Resettled(jar')[u] EXCEPT !.quiet = FALSE] ELSE Nil
      BY <2>5
    <3> HIDE DEF dropped
    <3>2. ASSUME NEW u \in Tabs, Waiting(u), NEW q, q = Resettled(jar')[u]
          PROVE  /\ request'[u] \in Requests
                 /\ request'[u].method = q.method /\ request'[u].url = q.url
                 /\ request'[u].form = q.form /\ request'[u].token = q.token
                 /\ request'[u].message = q.message /\ request'[u].cookies = q.cookies
                 /\ request'[u].resumed = q.resumed /\ request'[u].quiet = FALSE /\ request'[u].hops = q.hops
      <4>1. request'[u] = [q EXCEPT !.quiet = FALSE]
        BY <3>1, <3>2
      <4>2. q \in Requests
        BY <2>4, <3>2
      <4> QED BY <4>1, <4>2 DEF Requests
    <3>3. ASSUME NEW u \in Tabs, Waiting(u)
          PROVE  /\ request'[u] \in Requests
                 /\ request'[u].method = request[u].method /\ request'[u].url = request[u].url
                 /\ request'[u].form = request[u].form /\ request'[u].token = request[u].token
                 /\ request'[u].message = request[u].message /\ request'[u].cookies = request[u].cookies
                 /\ request'[u].resumed = request[u].resumed /\ request'[u].quiet = FALSE
                 /\ request'[u].hops = IF jar.session THEN 0 ELSE request[u].hops
      <4> DEFINE q == Resettled(jar')[u]
      <4>1. /\ request'[u] \in Requests
            /\ request'[u].method = q.method /\ request'[u].url = q.url
            /\ request'[u].form = q.form /\ request'[u].token = q.token
            /\ request'[u].message = q.message /\ request'[u].cookies = q.cookies
            /\ request'[u].resumed = q.resumed /\ request'[u].quiet = FALSE /\ request'[u].hops = q.hops
        BY <3>2, <3>3
      <4>2. /\ q.method = request[u].method /\ q.url = request[u].url
            /\ q.form = request[u].form /\ q.token = request[u].token
            /\ q.message = request[u].message /\ q.cookies = request[u].cookies
            /\ q.resumed = request[u].resumed /\ q.hops = IF jar.session THEN 0 ELSE request[u].hops
        BY <2>4, <3>3
      <4> HIDE DEF q
      <4> QED BY <4>1, <4>2
    <3>4. \A u \in Tabs : ~Waiting(u) => request'[u] = Nil
      BY <3>1
    <3> QED BY <2>5, <3>1, <3>3, <3>4
  <2>6. CASE ~dropped
    <3>1. request' = Resettled(jar')
      BY <2>6, <1>2
    <3> HIDE DEF dropped
    <3>2. \A u \in Tabs : ~Waiting(u) => request'[u] = Nil
      BY <2>3, <3>1 DEF Waiting
    <3> QED BY <2>2, <2>4, <2>6, <3>1, <3>2
  <2> QED BY <2>5, <2>6
<1>7. /\ DOMAIN page' = Tabs
      /\ \A u \in Tabs : page[u] = Nil => page'[u] = Nil
      /\ \A u \in Tabs : page[u] # Nil => /\ page'[u] \in Pages /\ page'[u].url = page[u].url
                                          /\ page'[u].goal = page[u].goal /\ page'[u].token = page[u].token
                                          /\ page'[u].quiet = IF dropped THEN FALSE ELSE page[u].quiet
  <2>1. CASE dropped
    <3>1. /\ DOMAIN page' = Tabs
          /\ \A u \in Tabs : page'[u] = IF page[u] = Nil THEN Nil ELSE [page[u] EXCEPT !.quiet = FALSE]
      BY <2>1
    <3> HIDE DEF dropped
    <3> QED BY <2>1, <3>1, <1>4 DEF Pages
  <2>2. CASE ~dropped
    <3>1. page' = page
      BY <2>2, <1>2
    <3> HIDE DEF dropped
    <3> QED BY <2>2, <3>1, <1>4
  <2> QED BY <2>1, <2>2
<1>8. ~dropped => jar'.csrf = jar.csrf
  BY <1>2, <1>4 DEF Jars
<1>9. jar.session = FALSE \/ jar.session = TRUE
  BY <1>4 DEF Jars
<1> HIDE DEF dropped, ended
<1>10. Types'
  <2>1. Tokens' = Tokens /\ Messages' = Messages
    BY <1>3 DEF Tokens, Messages
  <2>2. Jars' = Jars /\ Pages' = Pages /\ Requests' = Requests
    BY <2>1 DEF Jars, Pages, Requests
  <2>3. losses' \in 0..MaxLosses
    BY <1>1, <1>3, SessionAssumption DEF Types
  <2> QED BY <1>1, <1>3, <1>5, <1>6, <1>7, <2>1, <2>2, <2>3 DEF Types, Waiting
<1>11. \A u \in Tabs : Fits(u)'
  <2> SUFFICES ASSUME NEW u \in Tabs, Waiting(u) PROVE FormFits(request'[u])
    BY <1>6 DEF Fits, Waiting
  <2>1. FormFits(request[u])
    BY <1>1 DEF Fits
  <2> QED BY <2>1, <1>6 DEF FormFits
<1>12. \A u \in Tabs : Quiet(u)'
  <2>1. CASE dropped
    BY <2>1, <1>6, <1>7 DEF Quiet, Waiting
  <2>2. CASE ~dropped
    <3>1. ASSUME NEW k, Current(k) PROVE Current(k)'
      BY <3>1, <2>2, <1>6, <1>8 DEF Current, Nobody, Waiting
    <3> QED BY <1>1, <2>2, <3>1, <1>6, <1>7 DEF Quiet, Waiting
  <2> QED BY <2>1, <2>2
<1>13. \A u \in Tabs : New(u)'
  <2> SUFFICES ASSUME NEW u \in Tabs, request'[u] # Nil, request'[u].message # Nil PROVE New(u)'
    BY DEF New, Waiting
  <2>1. Waiting(u) /\ New(u) /\ request[u].message # Nil /\ request'[u].message = request[u].message
    BY <1>1, <1>6
  <2>2. request[u].message \notin seen' /\ request[u].message # jar'.flash
    BY <2>1, <1>3, <1>5 DEF New
  <2> QED BY <2>1, <2>2, <1>6 DEF New, Waiting
<1>14. \A u \in Tabs : Resumes(u)'
  BY <1>1, <1>3, <1>6, <1>7 DEF Resumes, Waiting
<1>15. \A u \in Tabs : Ends(u)'
  <2> SUFFICES ASSUME NEW u \in Tabs, Waiting(u) PROVE Ends(u)'
    BY <1>6 DEF Ends, Bound, Waiting
  <2>1. CASE jar.session = TRUE
    <3>1. request'[u].hops = 0
      BY <2>1, <1>6
    <3>2. PICK n, b : n = Ahead(request'[u].url, jar'.session) /\ b = Bound(request[u].url, jar.session)'
      OBVIOUS
    <3>3. n \in 0..2 /\ b \in 2..3
      BY <3>2, AtMostTwo DEF Bound
    <3>4. request'[u].hops + n <= b
      BY <3>1, <3>3
    <3> QED BY <3>1, <3>2, <3>4 DEF Ends
  <2>2. CASE jar.session = FALSE
    BY <2>2, <1>1, <1>3, <1>5, <1>6 DEF Ends, Bound, Waiting
  <2> QED BY <2>1, <2>2, <1>9
<1>16. (jar.flash \notin seen)'
  <2>1. Nil \notin seen
    BY <1>1, NilIsNoMessage DEF Types
  <2> QED BY <2>1, <1>1, <1>3, <1>5
<1> QED BY <1>10, <1>11, <1>12, <1>13, <1>14, <1>15, <1>16 DEF IInv
-----------------------------------------------------------------------------
(* The visitor's actions.                                                  *)

LEMMA Asked ==
  ASSUME IInv, NEW t \in Tabs, NEW url \in URLs, NEW r,
         r \in {Get(t, url, jar), [Get(t, url, jar) EXCEPT !.htmx = TRUE]},
         posted' \in {posted, posted + 1}, minted' = minted
  PROVE  /\ r \in Requests' /\ r.method = "GET" /\ r.url = url /\ r.form = Nil /\ r.message = Nil
         /\ r.cookies = jar /\ r.quiet = ~Minting(t) /\ ~r.resumed /\ r.hops = 0
<1>1. jar \in Jars /\ posted \in Nat /\ minted \in Nat
  BY DEF IInv, Types
<1>2. jar \in Jars'
  BY <1>1, Growth
<1>3. /\ r.method = "GET" /\ r.url = url /\ r.form = Nil /\ r.token = Nil /\ r.message = Nil /\ r.cookies = jar
      /\ r.htmx \in BOOLEAN /\ r.quiet = ~Minting(t) /\ r.resumed = FALSE /\ r.hops = 0
  <2>1. CASE r = Get(t, url, jar)
    BY <2>1 DEF Get
  <2>2. CASE r = [Get(t, url, jar) EXCEPT !.htmx = TRUE]
    BY <2>2 DEF Get
  <2> QED BY <2>1, <2>2
<1>4. r = [method |-> r.method, url |-> r.url, form |-> r.form, token |-> r.token, message |-> r.message,
           cookies |-> r.cookies, htmx |-> r.htmx, quiet |-> r.quiet, resumed |-> r.resumed, hops |-> r.hops]
  <2>1. CASE r = Get(t, url, jar)
    BY <2>1 DEF Get
  <2>2. CASE r = [Get(t, url, jar) EXCEPT !.htmx = TRUE]
    BY <2>2 DEF Get
  <2> QED BY <2>1, <2>2
<1>5. r \in Requests'
  <2>1. r.quiet \in BOOLEAN /\ r.resumed \in BOOLEAN /\ r.htmx \in BOOLEAN
    BY <1>3
  <2>2. /\ r.method \in {"GET", "POST"} /\ r.url \in URLs /\ r.hops \in Nat /\ r.cookies \in Jars'
        /\ r.form \in {"save", "continue", "action", "login", "logout", Nil}
        /\ r.token \in Tokens' \cup {Nil} /\ r.message \in Messages' \cup {Nil}
    BY <1>2, <1>3
  <2> QED BY <1>4, <2>1, <2>2 DEF Requests
<1> QED BY <1>3, <1>5

LEMMA Submitted ==
  ASSUME IInv, NEW t \in Tabs, page[t] # Nil, NEW url \in URLs, NEW form \in {"save", "continue", "action", "login", "logout"},
         NEW message, NEW r, r = Post(t, url, form, message), message = Nil \/ (message = posted + 1 /\ posted' = posted + 1),
         posted' \in {posted, posted + 1}, minted' = minted
  PROVE  /\ r \in Requests' /\ r.method = "POST" /\ r.url = url /\ r.form = form /\ r.message = message
         /\ r.cookies = jar /\ r.quiet = page[t].quiet /\ r.token = page[t].token /\ ~r.resumed /\ r.hops = 0
<1>1. jar \in Jars /\ posted \in Nat /\ minted \in Nat /\ page[t] \in Pages
  BY DEF IInv, Types
<1>2. jar \in Jars' /\ page[t].token \in Tokens' /\ page[t].quiet \in BOOLEAN
  BY <1>1, Growth DEF Pages
<1>3. message \in Messages' \cup {Nil}
  BY <1>1 DEF Messages
<1>4. /\ r.method = "POST" /\ r.url = url /\ r.form = form /\ r.token = page[t].token /\ r.message = message
      /\ r.cookies = jar /\ r.htmx = FALSE /\ r.quiet = page[t].quiet /\ r.resumed = FALSE /\ r.hops = 0
  BY DEF Get, Post
<1>5. r = [method |-> r.method, url |-> r.url, form |-> r.form, token |-> r.token, message |-> r.message,
           cookies |-> r.cookies, htmx |-> r.htmx, quiet |-> r.quiet, resumed |-> r.resumed, hops |-> r.hops]
  BY DEF Get, Post
<1>6. r \in Requests'
  <2>1. /\ r.method \in {"GET", "POST"} /\ r.url \in URLs /\ r.hops \in Nat /\ r.cookies \in Jars'
        /\ r.form \in {"save", "continue", "action", "login", "logout", Nil}
        /\ r.token \in Tokens' \cup {Nil} /\ r.message \in Messages' \cup {Nil}
    BY <1>2, <1>3, <1>4
  <2>2. r.quiet \in BOOLEAN /\ r.resumed \in BOOLEAN /\ r.htmx \in BOOLEAN
    BY <1>2, <1>4
  <2> QED BY <1>5, <2>1, <2>2 DEF Requests
<1> QED BY <1>4, <1>6

LEMMA Addresses ==
  /\ \A x \in Names : <<x>> \in Plain /\ <<x>> \in URLs
  /\ SignIns \subseteq URLs /\ <<"logout">> \in URLs
  /\ Names = {"list", "edit", "home", "widget", "action"}
BY DEF Plain, URLs, Names

LEMMA VisitKeeps == ASSUME IInv, NEW t \in Tabs, Visit(t) PROVE IInv'
<1> USE NilIsNoToken
<1>1. /\ posted \in 0..MaxMessages /\ posted \in Nat /\ signins \in 0..MaxSignIns
      /\ posted' = posted => posted' \in {posted, posted + 1} /\ posted' <= MaxMessages
  BY SessionAssumption DEF IInv, Types
<1>2. CASE Open(t)
  <2>1. PICK url \in Typed : Send(t, Get(t, url, jar), Destination(url), "open") /\ UNCHANGED <<posted, signins>>
    BY <1>2 DEF Open
  <2>2. url \in URLs /\ Destination(url) = <<"edit">>
    <3>1. Head(<<"edit">>) # "login" /\ <<"edit">> \in URLs
      BY Addresses, Routes
    <3>2. /\ <<"login", "login", "edit">> \in Twice
          /\ Head(<<"login", "login", "edit">>) = "login" /\ Len(<<"login", "login", "edit">>) = 3
      BY Addresses, Lengths DEF Twice
    <3>3. <<"login", "login", "edit">>[3] = "edit"
      OBVIOUS
    <3> QED BY <3>1, <3>2, <3>3 DEF Typed, Destination, URLs, SignIns
  <2>3. PICK r : r = Get(t, url, jar)
    OBVIOUS
  <2>4. /\ minted' = minted /\ posted' = posted /\ signins' = signins
    BY <2>1 DEF Send
  <2>5. Leads(url, [url |-> <<"edit">>, how |-> "open"])
    BY <2>1, Addresses DEF Typed, Leads
  <2>6. /\ r \in Requests' /\ r.method = "GET" /\ r.url = url /\ r.form = Nil /\ r.message = Nil
        /\ r.cookies = jar /\ r.quiet = ~Minting(t) /\ ~r.resumed /\ r.hops = 0
    BY <2>2, <2>3, <2>4, Asked
  <2>7. FormFits(r)
    <3>1. url # <<"logout">>
      BY Routes DEF Typed, Twice
    <3> QED BY <2>6, <3>1, SessionAssumption DEF FormFits
  <2>8. Send(t, r, <<"edit">>, "open")
    BY <2>1, <2>2, <2>3
  <2> QED BY <1>1, <2>4, <2>5, <2>6, <2>7, <2>8, SendKeeps, Addresses
<1>3. CASE Poll(t)
  <2>1. PICK r : r = [Get(t, <<"widget">>, jar) EXCEPT !.htmx = TRUE]
    OBVIOUS
  <2>2. Send(t, r, <<"home">>, "fragment") /\ minted' = minted /\ posted' = posted /\ signins' = signins
    BY <1>3, <2>1 DEF Poll, Send
  <2>3. /\ r \in Requests' /\ r.method = "GET" /\ r.url = <<"widget">> /\ r.form = Nil /\ r.message = Nil
        /\ r.cookies = jar /\ r.quiet = ~Minting(t) /\ ~r.resumed /\ r.hops = 0
    BY <2>1, <2>2, Asked, Addresses
  <2>4. FormFits(r)
    <3>1. <<"widget">> # <<"logout">>
      BY Kinds, Addresses
    <3> QED BY <2>3, <3>1, SessionAssumption DEF FormFits
  <2>5. Leads(r.url, [url |-> <<"home">>, how |-> "fragment"])
    BY DEF Leads
  <2> QED BY <1>1, <2>2, <2>3, <2>4, <2>5, SendKeeps, Addresses
<1>4. CASE SubmitChange(t)
  <2>1. page[t] # Nil /\ posted < MaxMessages /\ posted' = posted + 1 /\ signins' = signins
    BY <1>4 DEF SubmitChange
  <2>2. CASE \E form \in {"save", "continue"} : Send(t, Post(t, <<"edit">>, form, posted + 1), <<"edit">>, "form")
    <3>1. PICK form \in {"save", "continue"} : Send(t, Post(t, <<"edit">>, form, posted + 1), <<"edit">>, "form")
      BY <2>2
    <3>2. PICK r : r = Post(t, <<"edit">>, form, posted + 1) /\ Send(t, r, <<"edit">>, "form")
      BY <3>1
    <3>3. minted' = minted
      BY <3>2 DEF Send
    <3>4. /\ r \in Requests' /\ r.method = "POST" /\ r.url = <<"edit">> /\ r.form = form /\ r.message = posted + 1
          /\ r.cookies = jar /\ r.quiet = page[t].quiet /\ r.token = page[t].token /\ ~r.resumed /\ r.hops = 0
      BY <2>1, <3>2, <3>3, Submitted, Addresses
    <3>5. FormFits(r)
      BY <3>4, Kinds, Addresses DEF FormFits
    <3>6. Leads(r.url, [url |-> <<"edit">>, how |-> "form"])
      BY <3>4 DEF Leads
    <3>7. posted' <= MaxMessages
      BY <1>1, <2>1, SessionAssumption
    <3> QED BY <1>1, <2>1, <3>2, <3>4, <3>5, <3>6, <3>7, SendKeeps, Addresses
  <2>3. CASE Send(t, Post(t, <<"action">>, "action", posted + 1), <<"list">>, "action")
    <3>1. PICK r : r = Post(t, <<"action">>, "action", posted + 1) /\ Send(t, r, <<"list">>, "action")
      BY <2>3
    <3>2. minted' = minted
      BY <3>1 DEF Send
    <3>3. /\ r \in Requests' /\ r.method = "POST" /\ r.url = <<"action">> /\ r.form = "action" /\ r.message = posted + 1
          /\ r.cookies = jar /\ r.quiet = page[t].quiet /\ r.token = page[t].token /\ ~r.resumed /\ r.hops = 0
      BY <2>1, <3>1, <3>2, Submitted, Addresses
    <3>4. FormFits(r)
      BY <3>3, Kinds, Addresses DEF FormFits
    <3>5. Leads(r.url, [url |-> <<"list">>, how |-> "action"])
      BY DEF Leads
    <3>6. posted' <= MaxMessages
      BY <1>1, <2>1, SessionAssumption
    <3> QED BY <1>1, <2>1, <3>1, <3>3, <3>4, <3>5, <3>6, SendKeeps, Addresses
  <2> QED BY <1>4, <2>2, <2>3 DEF SubmitChange
<1>5. CASE SubmitSignIn(t)
  <2>1. page[t] # Nil /\ page[t] \in Pages /\ signins' \in 0..MaxSignIns /\ posted' = posted
    BY <1>1, <1>5, SessionAssumption DEF SubmitSignIn, IInv, Types
  <2>2. CASE Head(page[t].url) = "login"
    <3>1. PICK r : r = Post(t, page[t].url, "login", Nil) /\ Send(t, r, page[t].goal.url, page[t].goal.how)
      BY <1>5, <2>2 DEF SubmitSignIn
    <3>2. minted' = minted
      BY <3>1 DEF Send
    <3>3. page[t].url \in SignIns /\ page[t].url \in URLs
      BY <2>1, <2>2, Routes DEF Pages, URLs
    <3>4. page[t].goal \in Goals /\ Leads(page[t].url, page[t].goal)
      BY <2>1, <3>3 DEF IInv, Resumes
    <3>5. /\ r \in Requests' /\ r.method = "POST" /\ r.url = page[t].url /\ r.form = "login" /\ r.message = Nil
          /\ r.cookies = jar /\ r.quiet = page[t].quiet /\ r.token = page[t].token /\ ~r.resumed /\ r.hops = 0
      BY <2>1, <3>1, <3>2, <3>3, Submitted
    <3>6. FormFits(r)
      BY <3>3, <3>5, Kinds DEF FormFits
    <3>7. /\ page[t].goal.url \in Plain /\ page[t].goal.how \in {"open", "fragment", "form", "action"}
          /\ Leads(r.url, [url |-> page[t].goal.url, how |-> page[t].goal.how])
      BY <3>4, <3>5 DEF Goals, Leads
    <3> QED BY <1>1, <2>1, <3>1, <3>5, <3>6, <3>7, SendKeeps
  <2>3. CASE Head(page[t].url) # "login"
    <3>1. PICK r : r = Post(t, <<"logout">>, "logout", Nil) /\ Send(t, r, <<"home">>, "open")
      BY <1>5, <2>3 DEF SubmitSignIn
    <3>2. minted' = minted
      BY <3>1 DEF Send
    <3>3. /\ r \in Requests' /\ r.method = "POST" /\ r.url = <<"logout">> /\ r.form = "logout" /\ r.message = Nil
          /\ r.cookies = jar /\ r.quiet = page[t].quiet /\ r.token = page[t].token /\ ~r.resumed /\ r.hops = 0
      BY <2>1, <3>1, <3>2, Submitted, Addresses
    <3>4. FormFits(r)
      BY <3>3 DEF FormFits
    <3>5. Leads(r.url, [url |-> <<"home">>, how |-> "open"])
      BY <3>3 DEF Leads
    <3> QED BY <1>1, <2>1, <3>1, <3>3, <3>4, <3>5, SendKeeps, Addresses
  <2> QED BY <2>2, <2>3
<1> QED BY <1>2, <1>3, <1>4, <1>5 DEF Visit
-----------------------------------------------------------------------------
(* The handlers.                                                           *)

\* What is known of a request that is answered.
LEMMA Answered ==
  ASSUME IInv, NEW t \in Tabs, Waiting(t), NEW r, r = request[t]
  PROVE  /\ r \in Requests /\ jar \in Jars /\ wanted[t] \in Goals
         /\ r.url \in URLs /\ r.cookies.session \in BOOLEAN /\ jar.session \in BOOLEAN /\ r.hops \in Nat
         /\ FormFits(r) /\ Leads(r.url, wanted[t])
         /\ IF r.method = "POST" \/ r.cookies.session # jar.session THEN r.hops = 0
            ELSE r.hops + Ahead(r.url, jar.session) <= Bound(r.url, jar.session)
BY DEF IInv, Types, Requests, Jars, Fits, Resumes, Ends

\* The cookies of an answer with the flash and session cookies spelled out.
LEMMA Spelled ==
  ASSUME jar \in Jars, NEW r, NEW flash, NEW session
  PROVE  /\ Cookies(r) = [Cookies(r) EXCEPT !.flash = jar.flash, !.session = jar.session]
         /\ [Cookies(r) EXCEPT !.session = session] = [Cookies(r) EXCEPT !.flash = jar.flash, !.session = session]
         /\ [Cookies(r) EXCEPT !.flash = flash] = [Cookies(r) EXCEPT !.flash = flash, !.session = jar.session]
BY DEF Cookies, Jars

LEMMA StayKeeps == ASSUME IInv, NEW t \in Tabs, Waiting(t), Stay(t, request[t]) PROVE IInv'
<1>1. Served(t, request[t]) /\ jar' = Cookies(request[t]) /\ seen' = seen /\ page' = page
  BY DEF Stay
<1> QED BY <1>1, SettleKeeps

LEMMA ShowKeeps ==
  ASSUME IInv, NEW t \in Tabs, Waiting(t), Show(t, request[t], request[t].url), jar' = Cookies(request[t]), UNCHANGED seen
  PROVE  IInv'
<1>1. Served(t, request[t])
  BY DEF Show
<1> QED BY <1>1, SettleKeeps

LEMMA SendToLoginKeeps == ASSUME IInv, NEW t \in Tabs, Waiting(t), SendToLogin(t, request[t]) PROVE IInv'
<1>1. PICK r : r = request[t]
  OBVIOUS
<1> DEFINE url == <<"login">> \o r.url
<1>2. ~Public(r.url) /\ ~r.cookies.session /\ Redirect(t, r, url, Cookies(r))
  BY <1>1 DEF SendToLogin
<1>3. /\ jar \in Jars /\ wanted[t] \in Goals /\ r.url \in URLs
      /\ r.cookies.session \in BOOLEAN /\ jar.session \in BOOLEAN /\ r.hops \in Nat
      /\ Leads(r.url, wanted[t])
      /\ IF r.method = "POST" \/ r.cookies.session # jar.session THEN r.hops = 0
         ELSE r.hops + Ahead(r.url, jar.session) <= Bound(r.url, jar.session)
  BY <1>1, Answered
<1>4. r.url \in Plain
  BY <1>2, <1>3, Routes DEF URLs
<1>5. url \in Once /\ Leads(url, wanted[t])
  BY <1>3, <1>4, Routes, Detour
<1>6. url \notin Plain /\ url \notin Twice /\ url \in SignIns
  BY <1>5, Kinds DEF SignIns
<1> HIDE DEF url
<1>7. r.hops + 1 + Ahead(url, jar.session) <= Bound(url, jar.session)
  BY <1>2, <1>3, <1>4, <1>6 DEF Ahead, Bound
<1>8. Head(r.url) # "login"
  BY <1>4, Routes
<1>9. Redirect(t, r, url, [Cookies(r) EXCEPT !.flash = jar.flash, !.session = jar.session])
  BY <1>2, <1>3, Spelled
<1> QED BY <1>1, <1>3, <1>5, <1>6, <1>7, <1>8, <1>9, RedirectKeeps

LEMMA LoginPageKeeps == ASSUME IInv, NEW t \in Tabs, Waiting(t), LoginPage(t, request[t]) PROVE IInv'
<1>1. PICK r : r = request[t]
  OBVIOUS
<1>2. CASE ~r.cookies.session
  BY <1>1, <1>2, ShowKeeps DEF LoginPage
<1>3. CASE r.cookies.session
  <2> DEFINE url == NextURL(r.url)
  <2>1. r.method = "GET" /\ Head(r.url) = "login" /\ Redirect(t, r, url, Cookies(r))
    BY <1>1, <1>3 DEF LoginPage
  <2>2. /\ jar \in Jars /\ wanted[t] \in Goals /\ r.url \in URLs
        /\ r.cookies.session \in BOOLEAN /\ jar.session \in BOOLEAN /\ r.hops \in Nat
        /\ Leads(r.url, wanted[t])
        /\ IF r.method = "POST" \/ r.cookies.session # jar.session THEN r.hops = 0
           ELSE r.hops + Ahead(r.url, jar.session) <= Bound(r.url, jar.session)
    BY <1>1, Answered
  <2>3. r.url \in SignIns
    BY <2>1, <2>2, Routes DEF URLs
  <2>4. /\ url \in Plain \cup Once /\ Leads(url, wanted[t])
        /\ Ahead(url, TRUE) = Ahead(r.url, TRUE) - 1 /\ Ahead(url, FALSE) <= 1
    BY <2>2, <2>3, Onward
  <2> HIDE DEF url
  <2>5. r.hops + 1 + Ahead(url, jar.session) <= Bound(url, jar.session)
    <3>1. PICK n, m, b : n = Ahead(url, jar.session) /\ m = Ahead(r.url, jar.session) /\ b = Bound(url, jar.session)
      OBVIOUS
    <3>2. n \in 0..2 /\ m \in 0..2 /\ b \in 2..3
      BY <3>1, AtMostTwo
    <3>3. CASE jar.session = TRUE
      <4>1. n = m - 1
        BY <2>4, <3>1, <3>3
      <4>2. r.hops + m <= 2
        <5>1. r.url # <<"list">>
          BY <2>3, Kinds DEF Plain, Names
        <5> QED BY <1>3, <2>1, <2>2, <3>1, <3>3, <5>1 DEF Bound
      <4>3. r.hops + 1 + n <= b
        BY <2>2, <3>2, <4>1, <4>2
      <4> QED BY <3>1, <4>3
    <3>4. CASE jar.session = FALSE
      <4>1. n <= 1
        BY <2>4, <3>1, <3>4
      <4>2. r.hops = 0
        BY <1>3, <2>2, <3>4
      <4>3. r.hops + 1 + n <= b
        BY <3>2, <4>1, <4>2
      <4> QED BY <3>1, <4>3
    <3> QED BY <2>2, <3>3, <3>4
  <2>6. Redirect(t, r, url, [Cookies(r) EXCEPT !.flash = jar.flash, !.session = jar.session])
    BY <2>1, <2>2, Spelled
  <2>7. url \in Plain \cup SignIns
    BY <2>4 DEF SignIns
  <2> QED BY <1>1, <2>2, <2>4, <2>5, <2>6, <2>7, RedirectKeeps
<1> QED BY <1>2, <1>3

LEMMA LoginKeeps == ASSUME IInv, NEW t \in Tabs, Waiting(t), Login(t, request[t]) PROVE IInv'
<1>1. PICK r : r = request[t]
  OBVIOUS
<1>2. CASE Show(t, r, r.url) /\ jar' = Cookies(r) /\ UNCHANGED seen
  BY <1>1, <1>2, ShowKeeps
<1> DEFINE url == NextURL(r.url)
<1>3. CASE Redirect(t, r, url, [Cookies(r) EXCEPT !.session = TRUE])
  <2>1. /\ jar \in Jars /\ wanted[t] \in Goals /\ r.hops \in Nat /\ FormFits(r) /\ Leads(r.url, wanted[t])
        /\ IF r.method = "POST" \/ r.cookies.session # jar.session THEN r.hops = 0
           ELSE r.hops + Ahead(r.url, jar.session) <= Bound(r.url, jar.session)
    BY <1>1, Answered
  <2>2. r.url \in SignIns /\ r.method = "POST"
    BY <1>1, <2>1 DEF Login, FormFits
  <2>3. url \in Plain \cup Once /\ Leads(url, wanted[t]) /\ Ahead(url, TRUE) <= 1
    BY <2>1, <2>2, Onward
  <2> HIDE DEF url
  <2>4. r.hops + 1 + Ahead(url, TRUE) <= Bound(url, TRUE)
    <3>1. PICK n, b : n = Ahead(url, TRUE) /\ b = Bound(url, TRUE)
      OBVIOUS
    <3>2. n \in 0..2 /\ n <= 1 /\ b \in 2..3
      BY <2>3, <3>1, AtMostTwo
    <3>3. r.hops + 1 + n <= b
      BY <2>1, <2>2, <3>2
    <3> QED BY <3>1, <3>3
  <2>5. Redirect(t, r, url, [Cookies(r) EXCEPT !.flash = jar.flash, !.session = TRUE])
    BY <1>3, <2>1, Spelled
  <2>6. url \in Plain \cup SignIns
    BY <2>3 DEF SignIns
  <2> QED BY <1>1, <2>3, <2>4, <2>5, <2>6, RedirectKeeps
<1> QED BY <1>1, <1>2, <1>3 DEF Login

LEMMA LogoutKeeps == ASSUME IInv, NEW t \in Tabs, Waiting(t), Logout(t, request[t]) PROVE IInv'
<1>1. PICK r : r = request[t]
  OBVIOUS
<1>2. /\ r.form = "logout"
      /\ \E session \in {FALSE, jar.session} : Redirect(t, r, <<"login">>, [Cookies(r) EXCEPT !.session = session])
  BY <1>1 DEF Logout
<1>3. PICK session \in {FALSE, jar.session} : Redirect(t, r, <<"login">>, [Cookies(r) EXCEPT !.session = session])
  BY <1>2
<1>4. /\ jar \in Jars /\ wanted[t] \in Goals /\ jar.session \in BOOLEAN /\ FormFits(r) /\ Leads(r.url, wanted[t])
      /\ IF r.method = "POST" \/ r.cookies.session # jar.session THEN r.hops = 0
         ELSE r.hops + Ahead(r.url, jar.session) <= Bound(r.url, jar.session)
  BY <1>1, Answered
<1>5. r.url = <<"logout">> /\ r.method = "POST" /\ r.hops = 0
  BY <1>2, <1>4 DEF FormFits
<1>6. <<"login">> \in SignIns /\ <<"login">> \notin Plain /\ <<"login">> \notin Twice
  BY Kinds DEF SignIns
<1>7. Leads(<<"login">>, wanted[t])
  <2>1. \A x \in Names : <<"logout">> \notin {<<"login", x>>, <<"login", "login", x>>}
    BY Kinds DEF SignIns, Once, Twice
  <2>2. wanted[t].url # <<"logout">>
    BY <1>4, Kinds DEF Goals
  <2> QED BY <1>4, <1>5, <2>1, <2>2 DEF Leads
<1>8. 0 + 1 + Ahead(<<"login">>, session) <= Bound(<<"login">>, session)
  BY <1>6 DEF Ahead, Bound
<1>9. Redirect(t, r, <<"login">>, [Cookies(r) EXCEPT !.flash = jar.flash, !.session = session])
  BY <1>3, <1>4, Spelled
<1>10. Head(r.url) # "login" /\ session \in BOOLEAN
  BY <1>4, <1>5, Routes
<1> QED BY <1>1, <1>5, <1>6, <1>7, <1>8, <1>9, <1>10, RedirectKeeps

LEMMA ListPageShows == ASSUME IInv, NEW t \in Tabs, Waiting(t), ListPage(t, request[t]) PROVE IInv'
<1>1. /\ Show(t, request[t], request[t].url)
      /\ seen' = seen \cup ({request[t].cookies.flash} \ {Nil})
      /\ jar' = [Cookies(request[t]) EXCEPT !.flash = Nil]
  BY DEF ListPage
<1>2. Served(t, request[t])
  BY <1>1 DEF Show
<1> QED BY <1>1, <1>2, SettleKeeps

LEMMA ChangeKeeps == ASSUME IInv, NEW t \in Tabs, Waiting(t), Change(t, request[t]) PROVE IInv'
<1>1. PICK r : r = request[t]
  OBVIOUS
<1> DEFINE url == IF r.form = "continue" THEN <<"edit">> ELSE <<"list">>
<1>2. Authorized(r) /\ r.message # Nil
  BY <1>1 DEF Change
<1>3. CASE Show(t, r, r.url) /\ jar' = Cookies(r) /\ UNCHANGED seen
  BY <1>1, <1>3, ShowKeeps
<1>4. CASE Redirect(t, r, url, [Cookies(r) EXCEPT !.flash = r.message])
  <2>1. /\ r \in Requests /\ jar \in Jars /\ jar.session \in BOOLEAN /\ FormFits(r) /\ r.url \in URLs
        /\ IF r.method = "POST" \/ r.cookies.session # jar.session THEN r.hops = 0
           ELSE r.hops + Ahead(r.url, jar.session) <= Bound(r.url, jar.session)
    BY <1>1, Answered
  <2>2. r.method = "POST"
    BY <1>2, <2>1 DEF FormFits, Requests
  <2>3. r.hops = 0
    BY <2>1, <2>2
  <2>4. url \in Plain
    BY Addresses
  <2>5. Head(r.url) # "login" /\ Head(url) # "login"
    BY <1>2, <2>4, Routes DEF Authorized, Public
  <2> HIDE DEF url
  <2>6. 0 + 1 + Ahead(url, jar.session) <= Bound(url, jar.session)
    BY <2>4 DEF Ahead, Bound
  <2>7. Redirect(t, r, url, [Cookies(r) EXCEPT !.flash = r.message, !.session = jar.session])
    BY <1>4, <2>1, Spelled
  <2> QED BY <1>1, <1>2, <2>1, <2>3, <2>4, <2>5, <2>6, <2>7, RedirectKeeps
<1> QED BY <1>1, <1>3, <1>4 DEF Change

LEMMA FirstListKeeps == ASSUME IInv, NEW t \in Tabs, Waiting(t), FirstList(t, request[t]) PROVE IInv'
<1>1. PICK r : r = request[t]
  OBVIOUS
<1> DEFINE url == <<"list">>
<1>2. r.method = "GET" /\ r.url = <<"home">> /\ ~dashboard /\ Redirect(t, r, url, Cookies(r))
  BY <1>1 DEF FirstList
<1>3. /\ jar \in Jars /\ jar.session \in BOOLEAN /\ r.cookies.session \in BOOLEAN /\ r.hops \in Nat
      /\ IF r.method = "POST" \/ r.cookies.session # jar.session THEN r.hops = 0
         ELSE r.hops + Ahead(r.url, jar.session) <= Bound(r.url, jar.session)
  BY <1>1, Answered
<1>4. r.url \in Plain /\ url \in Plain /\ r.url # url
  <2>1. "home" \in Names /\ "list" \in Names
    BY DEF Names
  <2> QED BY <1>2, <2>1, Kinds DEF Plain
<1>5. Head(r.url) # "login" /\ Head(url) # "login"
  BY <1>4, Routes
<1>6. r.hops + 1 + Ahead(url, jar.session) <= Bound(url, jar.session)
  <2>1. CASE jar.session = TRUE
    BY <1>2, <1>3, <1>4, <2>1 DEF Ahead, Bound
  <2>2. CASE jar.session = FALSE
    <3>1. r.cookies.session
      BY <1>1 DEF FirstList, Authorized
    <3>2. r.hops = 0
      BY <1>3, <2>2, <3>1
    <3> QED BY <1>4, <2>2, <3>2 DEF Ahead, Bound
  <2> QED BY <1>3, <2>1, <2>2
<1>7. Redirect(t, r, url, [Cookies(r) EXCEPT !.flash = jar.flash, !.session = jar.session])
  BY <1>2, <1>3, Spelled
<1> HIDE DEF url
<1> QED BY <1>1, <1>3, <1>4, <1>5, <1>6, <1>7, RedirectKeeps

LEMMA AnswerKeeps == ASSUME IInv, NEW t \in Tabs, Answer(t) PROVE IInv'
<1>1. Waiting(t)
  BY DEF Answer
<1>2. CASE Refuse(t, request[t])
  BY <1>1, <1>2, StayKeeps DEF Refuse
<1>3. CASE Deny(t, request[t])
  BY <1>1, <1>3, StayKeeps DEF Deny
<1>4. CASE OtherPage(t, request[t])
  BY <1>1, <1>4, StayKeeps, ShowKeeps DEF OtherPage
<1> QED BY <1>1, <1>2, <1>3, <1>4, SendToLoginKeeps, LoginPageKeeps, LoginKeeps, LogoutKeeps, ListPageShows,
           FirstListKeeps, ChangeKeeps DEF Answer
-----------------------------------------------------------------------------
(* The theorems.                                                           *)

LEMMA InitIInv == Init => IInv
<1> SUFFICES ASSUME Init PROVE IInv
  OBVIOUS
<1>1. jar \in Jars /\ jar.flash = Nil
  BY DEF Init, Jars
<1>2. \A t \in Tabs : page[t] = Nil /\ request[t] = Nil
  BY DEF Init
<1>3. Types
  BY <1>1, <1>2, SessionAssumption DEF Init, Types, Waiting
<1> QED BY <1>1, <1>2, <1>3 DEF Init, IInv, Fits, Quiet, New, Resumes, Ends, Bound, Waiting

LEMMA StutterIInv == IInv /\ UNCHANGED vars => IInv'
<1> SUFFICES ASSUME IInv, UNCHANGED vars PROVE IInv'
  OBVIOUS
<1>1. /\ dashboard' = dashboard
      /\ jar' = jar /\ page' = page /\ request' = request /\ wanted' = wanted /\ seen' = seen
      /\ minted' = minted /\ posted' = posted /\ signins' = signins /\ losses' = losses
  BY DEF vars
<1>2. Tokens' = Tokens /\ Messages' = Messages
  BY <1>1 DEF Tokens, Messages
<1>3. Jars' = Jars /\ Pages' = Pages /\ Requests' = Requests
  BY <1>2 DEF Jars, Pages, Requests
<1> QED BY <1>1, <1>2, <1>3 DEF IInv, Types, Fits, Quiet, Current, Nobody, New, Resumes, Ends, Bound, Waiting

LEMMA NextIInv == IInv /\ [Next]_vars => IInv'
<1> SUFFICES ASSUME IInv, [Next]_vars PROVE IInv'
  OBVIOUS
<1>1. CASE Next
  BY <1>1, FlashExpiresKeeps, LoseKeeps, StopKeeps, VisitKeeps, AnswerKeeps DEF Next
<1>2. CASE UNCHANGED vars
  BY <1>2, StutterIInv
<1> QED BY <1>1, <1>2

LEMMA Invariance == Spec => []IInv
BY InitIInv, NextIInv, PTL DEF Spec

(* Every variable holds what the code can put there, for any number of     *)
(* tabs and any bounds.                                                    *)
THEOREM TypesAlways == Spec => []TypeOK
<1>1. IInv => TypeOK
  <2> SUFFICES ASSUME IInv PROVE TypeOK
    OBVIOUS
  <2>1. \A t \in Tabs : page[t] # Nil => page[t].token \in Tokens /\ page[t].quiet \in BOOLEAN
    BY DEF IInv, Types, Pages
  <2>2. \A t \in Tabs : Waiting(t) => request[t].cookies.csrf \in Tokens \cup {Nil}
    BY DEF IInv, Types, Requests, Jars
  <2> QED BY <2>1, <2>2 DEF IInv, Types, TypeOK, Jars
<1> QED BY <1>1, Invariance, PTL

(* A form of a page that was loaded, and submitted, while no other tab was *)
(* being given its first token is accepted: whatever the other tabs do, the*)
(* double submit check of csrfMiddleware does not refuse it.               *)
THEOREM QuietFormsAreAccepted == Spec => []QuietFormsAccepted
<1>1. IInv => QuietFormsAccepted
  <2> SUFFICES ASSUME IInv, NEW t \in Tabs, Waiting(t), request[t].quiet, Refused(request[t]) PROVE FALSE
    BY DEF QuietFormsAccepted
  <2>1. request[t].token = request[t].cookies.csrf /\ request[t].token # Nil
    BY DEF IInv, Quiet, Refused
  <2> QED BY <2>1 DEF Refused, Token, Minted
<1> QED BY <1>1, Invariance, PTL

(* The flash cookie never holds a message a page has shown already.        *)
THEOREM ToastsAreShownOnce == Spec => []ToastShownOnce
<1>1. IInv => ToastShownOnce
  BY DEF IInv, ToastShownOnce
<1> QED BY <1>1, Invariance, PTL

(* Signing in leads back to the page that was asked for, whatever the      *)
(* session does in between.                                                *)
THEOREM SignInResumes == Spec => []SignInResumesPage
<1>1. IInv => SignInResumesPage
  <2> SUFFICES ASSUME IInv, NEW t \in Tabs, Waiting(t), request[t].resumed, wanted[t].how \in {"open", "form"}
               PROVE  request[t].url \in {wanted[t].url, <<"login">> \o wanted[t].url}
    BY DEF SignInResumesPage
  <2>1. /\ Leads(request[t].url, wanted[t])
        /\ request[t].url \notin Twice \cup {<<"login">>, <<"logout">>}
    BY DEF IInv, Resumes
  <2>2. CASE request[t].url = wanted[t].url
    BY <2>2
  <2>3. CASE request[t].url # wanted[t].url
    <3>1. PICK x \in Names : wanted[t].url = <<x>> /\ request[t].url \in {<<"login", x>>, <<"login", "login", x>>}
      BY <2>1, <2>3 DEF Leads
    <3>2. request[t].url = <<"login", x>>
      BY <2>1, <3>1 DEF Twice
    <3> QED BY <3>1, <3>2, Lengths
  <2> QED BY <2>2, <2>3
<1> QED BY <1>1, Invariance, PTL

(* A navigation is redirected at most twice, or three times to the first   *)
(* list that stands for a missing dashboard, while the session neither     *)
(* begins nor ends: sign-in page and destination do not ping-pong.         *)
THEOREM NavigationsEnd == Spec => []NavigationEnds
<1>1. IInv => NavigationEnds
  <2> SUFFICES ASSUME IInv, NEW t \in Tabs, Waiting(t)
               PROVE  request[t].hops <= IF request[t].url = <<"list">> /\ ~dashboard THEN 3 ELSE 2
    BY DEF NavigationEnds
  <2>1. request[t].hops \in Nat
    BY DEF IInv, Types, Requests
  <2>2. PICK n : n = Ahead(request[t].url, jar.session)
    OBVIOUS
  <2>3. n \in 0..2
    BY <2>2, AtMostTwo
  <2>4. request[t].hops = 0 \/ request[t].hops + n <= Bound(request[t].url, jar.session)
    BY <2>2 DEF IInv, Ends
  <2> QED BY <2>1, <2>3, <2>4 DEF Bound
<1> QED BY <1>1, Invariance, PTL
=============================================================================
