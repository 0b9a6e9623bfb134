--------------------------- MODULE ListView_proofs ---------------------------
(***************************************************************************)
(* Proofs about ListView for a table of any content, any page sizes, sort  *)
(* columns and defaults, and any number of changes and midnights.          *)
(***************************************************************************)
EXTENDS ListView, FiniteSetTheorems, SequenceTheorems, TLAPS

\* A size of the ModelAdmin, or one that a link can carry.
OwnSizes == {AdminSize} \cup (Sizes \ {DefaultPageSize})

\* The URLs of the admin's own controls, and those typed.
Urls == [search : BOOLEAN, flag : FlagRaw \cup {Nil}, day : DayRaw \cup {Nil},
         range : ((0..LastDay) \X (0..LastDay)) \cup {Nil}, sort : Sorts,
         page : Nat \cup {Nil}, size : {Nil, 0} \cup (({AdminSize} \cup Sizes) \ {DefaultPageSize})]

RequestOf(u) == ApplyDefaults(Parse(u))

\* A request as the server completes it: applying the defaults again changes
\* nothing.
Complete(r) ==
  /\ r \in Requests /\ r.size \in OwnSizes
  /\ r.sort = DefaultOrdering \/ (r.sort # "" /\ Column(r.sort) \in Sortable)

\* Values of a date filter that narrow nothing, on any day.
Blank == {Nil, <<>>, <<0, 0>>}

\* Two requests that differ at most in the boolean filter, and two for the
\* same rows in the same order, today and tomorrow.
SameButFlag(r, s) ==
  /\ r.search = s.search /\ r.sort = s.sort
  /\ r.day = s.day \/ {r.day, s.day} \subseteq Blank

SameRows(r, s) == SameButFlag(r, s) /\ Flag(r) = Flag(s)

\* A window that midnight does not move.
Fixed(raw) == raw # Preset /\ ~OpenEnded(raw)

Counts == [n : 0..Cardinality(DOMAIN Content), at : 0..changes, days : SUBSET Days]
Pages == [req : Requests, items : Seq(DOMAIN Content), total : 0..Cardinality(DOMAIN Content),
          days : SUBSET Days, at : 0..changes, upto : 0..changes]

Types ==
  /\ source \in {"query", "memory"} /\ present \subseteq DOMAIN Content /\ changes \in 0..MaxChanges
  /\ today \in Days
  /\ pc \in {"requested", "counted", "shown", "failed"}
  /\ url \in Urls /\ via \in Links \cup Forms \cup {"typed"}
  /\ wanted \in Requests \cup {Nil} /\ (asof # Nil => asof.changes \in 0..changes /\ asof.days \subseteq Days)
  /\ total \in IF pc = "counted" THEN Counts ELSE {Nil}
  /\ shown # Nil => shown \in Pages
  /\ pc = "shown" => shown # Nil

\* What a control's URL keeps of the request its reader meant.
Kept ==
  /\ via \in Links \cup Forms => /\ wanted \in Requests
                                 /\ SameButFlag(Request, wanted)
                                 /\ (via = "reset" /\ Defaulted) \/ Flag(Request) = Flag(wanted)
                                 /\ Number(Request) = Number(wanted)
  /\ via \in Links /\ Told(wanted.size) => Limit(Request) = Limit(wanted)
  /\ via = "flag" => /\ wanted.flag \in FlagChoices
                     /\ Request.flag = Chosen(wanted.flag, "", Defaulted)

\* The page shown, as long as no session changed the table since.
ShownRows ==
  shown # Nil =>
    /\ Complete(shown.req) /\ shown.at <= shown.upto
    /\ Len(shown.items) <= Limit(shown.req)
    /\ \A i \in DOMAIN shown.items : FlagFits(source, Flag(shown.req), shown.items[i])
    /\ Fixed(shown.req.day) => shown.days = Window(shown.req.day)
    /\ shown.upto = changes => shown.items = PageRows(shown.req, ListingOn(shown.req, shown.days))
    /\ shown.at = changes => shown.total = Len(ListingOn(shown.req, shown.days))
    /\ pc = "shown" => shown.req = Request

\* Between the two statements of a ListPage.
Counted ==
  pc = "counted" =>
    /\ Fixed(Request.day) => total.days = Window(Request.day)
    /\ total.at = changes => total.n = Len(ListingOn(Request, total.days))

\* On the way to another page of the list that is still shown.
Onward ==
  pc # "shown" /\ via \in {"next", "last"} =>
    /\ shown # Nil /\ asof = [changes |-> shown.at, days |-> shown.days]
    /\ SameRows(Request, shown.req) /\ Limit(Request) = Limit(shown.req)
    /\ Number(Request) \in 2..NumPages(shown)
    /\ via = "next" => Number(Request) = Number(shown.req) + 1

\* A walk is the list down to the page shown.
Walked ==
  walk # Nil =>
    /\ shown # Nil /\ shown.at = shown.upto
    /\ shown.upto = changes
         => LET list == ListingOn(shown.req, shown.days)
                end == Number(shown.req) * Limit(shown.req)
            IN walk = SubSeq(list, 1, IF end < Len(list) THEN end ELSE Len(list))

IInv == Types /\ Kept /\ ShownRows /\ Counted /\ Onward /\ Walked /\ PagerAgrees
-----------------------------------------------------------------------------
(* Pages of a list.                                                        *)

\* NumPages of a list of n rows, l to a page.
PagesOf(n, l) == IF n <= 0 THEN 1 ELSE (n + l - 1) \div l

LEMMA Products ==
  ASSUME NEW l \in Nat, NEW p \in Nat, NEW q \in Nat, p <= q
  PROVE  p * l \in Nat /\ q * l \in Nat /\ p * l <= q * l
<1>1. PICK d \in Nat : q = p + d
  <2>1. q - p \in Nat /\ q = p + (q - p)
    OBVIOUS
  <2> QED BY <2>1
<1>2. d * l \in Nat /\ p * l \in Nat
  OBVIOUS
<1>3. q * l = p * l + d * l
  BY <1>1
<1> QED BY <1>2, <1>3

\* The last page is the first that reaches the end of the list.
LEMMA LastPage ==
  ASSUME NEW n \in Nat, NEW l \in Nat \ {0}
  PROVE  /\ PagesOf(n, l) \in Nat \ {0}
         /\ n <= PagesOf(n, l) * l
         /\ n > 0 => (PagesOf(n, l) - 1) * l < n
<1>1. CASE n = 0
  BY <1>1 DEF PagesOf
<1>2. CASE n > 0
  <2> DEFINE N == (n + l - 1) \div l
  <2>1. PagesOf(n, l) = N
    BY <1>2 DEF PagesOf
  <2>2. N \in Int /\ N * l <= n + l - 1 /\ n + l - 1 < N * l + l
    OBVIOUS
  <2> HIDE DEF N
  <2>3. N > 0
    <3>1. SUFFICES ASSUME N <= 0 PROVE FALSE
      BY <2>2
    <3>2. -N \in Nat /\ (-N) * l \in Nat /\ N * l = -((-N) * l)
      BY <2>2, <3>1
    <3> QED BY <1>2, <2>2, <3>2
  <2>4. (N - 1) * l = N * l - l
    BY <2>2
  <2> QED BY <2>1, <2>2, <2>3, <2>4
<1> QED BY <1>1, <1>2

\* A page has rows exactly when it is not after the last, and it is full
\* when it is before the last.
LEMMA PageNumbers ==
  ASSUME NEW n \in Nat, NEW l \in Nat \ {0}, NEW p \in Nat \ {0}
  PROVE  /\ p < PagesOf(n, l) => p * l < n
         /\ p >= PagesOf(n, l) => n <= p * l
         /\ p > PagesOf(n, l) => n <= (p - 1) * l
         /\ p <= PagesOf(n, l) /\ n > 0 => (p - 1) * l < n
<1> DEFINE N == PagesOf(n, l)
<1>1. N \in Nat \ {0} /\ n <= N * l /\ (n > 0 => (N - 1) * l < n)
  BY LastPage
<1>2. N = 1 \/ n > 0
  BY DEF PagesOf
<1> HIDE DEF N
<1>3. ASSUME p < N PROVE p * l < n
  <2>1. p * l <= (N - 1) * l /\ p * l \in Nat /\ (N - 1) * l \in Nat
    BY <1>1, <1>3, Products
  <2> QED BY <1>1, <1>2, <1>3, <2>1
<1>4. ASSUME p >= N PROVE n <= p * l
  <2>1. N * l <= p * l /\ p * l \in Nat /\ N * l \in Nat
    BY <1>1, <1>4, Products
  <2> QED BY <1>1, <2>1
<1>5. ASSUME p > N PROVE n <= (p - 1) * l
  <2>1. N * l <= (p - 1) * l /\ (p - 1) * l \in Nat /\ N * l \in Nat
    BY <1>1, <1>5, Products
  <2> QED BY <1>1, <2>1
<1>6. ASSUME p <= N, n > 0 PROVE (p - 1) * l < n
  <2>1. (p - 1) * l <= (N - 1) * l /\ (p - 1) * l \in Nat /\ (N - 1) * l \in Nat
    BY <1>1, <1>6, Products
  <2> QED BY <1>1, <1>6, <2>1
<1> QED BY <1>3, <1>4, <1>5, <1>6 DEF N
-----------------------------------------------------------------------------
(* The order of a list.                                                    *)

LEMMA TableIsFinite ==
  ASSUME NEW S \in SUBSET DOMAIN Content
  PROVE  /\ IsFiniteSet(S) /\ Cardinality(S) \in Nat
         /\ Cardinality(S) <= Cardinality(DOMAIN Content) /\ S \subseteq Nat
<1>1. Len(Content) \in Nat /\ DOMAIN Content = 1..Len(Content)
  BY ListAssumption, LenProperties
<1>2. IsFiniteSet(DOMAIN Content)
  BY <1>1, FS_Interval
<1>3. DOMAIN Content \subseteq Nat
  BY <1>1
<1> QED BY <1>2, <1>3, FS_Subset, FS_CardinalityType

\* Before is a strict total order on the records of the table.
LEMMA BeforeIsTotal ==
  ASSUME NEW sort, NEW i \in DOMAIN Content, NEW j \in DOMAIN Content, NEW k \in DOMAIN Content
  PROVE  /\ ~Before(sort, i, i)
         /\ i # j => Before(sort, i, j) \/ Before(sort, j, i)
         /\ Before(sort, i, j) /\ Before(sort, j, k) => Before(sort, i, k)
<1>1. i \in Nat /\ j \in Nat /\ k \in Nat
  BY TableIsFinite
<1>2. ASSUME NEW r \in DOMAIN Content PROVE Rank(sort, r) \in Int
  <2> DEFINE Record == [found : BOOLEAN, flag : BOOLEAN, day : 1..LastDay]
  <2>1. Content \in Seq(Record) /\ LastDay \in Nat
    BY ListAssumption
  <2> HIDE DEF Record
  <2>2. r \in 1..Len(Content)
    BY <2>1, LenProperties
  <2>3. Content[r] \in Record
    BY <2>1, <2>2, ElementOfSeq
  <2>4. Content[r].day \in Int
    BY <2>1, <2>3 DEF Record
  <2>5. CASE sort = ""
    <3>1. Rank(sort, r) = 0
      BY <2>5, Zenon DEF Rank
    <3> QED BY <3>1
  <2>6. CASE sort # "" /\ Column(sort) = "day"
    BY <2>4, <2>6 DEF Rank
  <2>7. CASE sort # "" /\ Column(sort) # "day"
    <3>1. Rank(sort, r) = IF Content[r].flag THEN 1 ELSE 0
      BY <2>7 DEF Rank
    <3> QED BY <3>1
  <2> QED BY <2>5, <2>6, <2>7
<1>3. Rank(sort, i) \in Int /\ Rank(sort, j) \in Int /\ Rank(sort, k) \in Int
  BY <1>2
<1> QED BY <1>1, <1>3 DEF Before

\* The records of S, each once, in order.
LEMMA OrderedIsSorted ==
  ASSUME NEW S \in SUBSET DOMAIN Content, NEW sort
  PROVE  /\ Ordered(S, sort) \in Bijection(1..Cardinality(S), S)
         /\ \A i, j \in 1..Cardinality(S) :
              i < j => Before(sort, Ordered(S, sort)[i], Ordered(S, sort)[j])
<1> DEFINE n == Cardinality(S)
           Pred(k) == {j \in S : Before(sort, j, k)}
           place == [k \in S |-> Cardinality(Pred(k)) + 1]
           f == Ordered(S, sort)
<1>1. IsFiniteSet(S) /\ n \in Nat
  BY TableIsFinite
<1>2. ASSUME NEW k \in S
      PROVE  IsFiniteSet(Pred(k)) /\ Cardinality(Pred(k)) \in Nat /\ Cardinality(Pred(k)) < n
  <2>1. Pred(k) \in SUBSET (S \ {k})
    BY BeforeIsTotal
  <2>2. IsFiniteSet(S \ {k}) /\ Cardinality(S \ {k}) = n - 1
    BY <1>1, FS_RemoveElement
  <2> QED BY <1>1, <2>1, <2>2, FS_Subset, FS_CardinalityType
<1>3. ASSUME NEW j \in S, NEW k \in S, Before(sort, j, k)
      PROVE  Cardinality(Pred(j)) < Cardinality(Pred(k))
  <2>1. Pred(j) \in SUBSET Pred(k)
    BY <1>3, BeforeIsTotal
  <2>2. j \in Pred(k) /\ j \notin Pred(j)
    BY <1>3, BeforeIsTotal
  <2>3. Cardinality(Pred(j)) <= Cardinality(Pred(k)) /\ Cardinality(Pred(j)) # Cardinality(Pred(k))
    <3>1. IsFiniteSet(Pred(k)) /\ Pred(j) # Pred(k)
      BY <1>2, <2>2
    <3> HIDE DEF Pred
    <3> QED BY <2>1, <3>1, FS_Subset
  <2> QED BY <1>2, <2>3
<1>4. place \in [S -> 1..n]
  BY <1>1, <1>2
<1>5. \A j, k \in S : j # k => place[j] # place[k]
  <2> SUFFICES ASSUME NEW j \in S, NEW k \in S, j # k
               PROVE  place[j] # place[k]
    OBVIOUS
  <2>1. Before(sort, j, k) \/ Before(sort, k, j)
    BY BeforeIsTotal
  <2>2. Cardinality(Pred(j)) \in Nat /\ Cardinality(Pred(k)) \in Nat
    BY <1>2
  <2>3. Cardinality(Pred(j)) # Cardinality(Pred(k))
    BY <1>3, <2>1, <2>2
  <2> HIDE DEF Pred
  <2> QED BY <2>2, <2>3
<1>6. IsFiniteSet(1..n) /\ Cardinality(1..n) = n
  BY <1>1, FS_Interval
<1>7. place \in Injection(S, 1..n)
  BY <1>4, <1>5 DEF Injection, IsInjective
<1>8. place \in Surjection(S, 1..n)
  BY <1>6, <1>7, FS_Injection
<1>9. ASSUME NEW i \in 1..n PROVE f[i] \in S /\ place[f[i]] = i
  <2>1. PICK k \in S : place[k] = i
    BY <1>8 DEF Surjection
  <2>2. Cardinality(Pred(k)) = i - 1
    BY <1>2, <2>1
  <2>3. f[i] = CHOOSE r \in S : Cardinality(Pred(r)) = i - 1
    BY DEF Ordered
  <2>4. f[i] \in S /\ Cardinality(Pred(f[i])) = i - 1
    BY <2>2, <2>3
  <2> QED BY <2>4
<1>10. f \in [1..n -> S]
  BY <1>9 DEF Ordered
<1>11. \A i, j \in 1..n : i # j => f[i] # f[j]
  BY <1>9
<1>12. \A k \in S : \E i \in 1..n : f[i] = k
  BY <1>4, <1>5, <1>9
<1>13. \A i, j \in 1..n : i < j => Before(sort, f[i], f[j])
  <2> SUFFICES ASSUME NEW i \in 1..n, NEW j \in 1..n, i < j, ~Before(sort, f[i], f[j])
               PROVE  FALSE
    OBVIOUS
  <2>1. Before(sort, f[j], f[i])
    <3>1. f[i] \in S /\ f[j] \in S
      BY <1>9
    <3>2. i # j
      BY <1>1
    <3>3. f[i] # f[j]
      BY <1>11, <3>2
    <3> HIDE DEF f
    <3> QED BY <3>1, <3>3, BeforeIsTotal
  <2>2. Cardinality(Pred(f[j])) < Cardinality(Pred(f[i]))
    BY <1>3, <1>9, <2>1
  <2>3. f[i] \in S /\ place[f[i]] = i /\ f[j] \in S /\ place[f[j]] = j
    BY <1>9
  <2>4. Cardinality(Pred(f[i])) \in Nat /\ Cardinality(Pred(f[j])) \in Nat
    BY <1>2, <2>3
  <2> QED BY <2>2, <2>3, <2>4
<1>14. f \in Bijection(1..n, S)
  BY <1>10, <1>11, <1>12 DEF Bijection, Injection, Surjection, IsInjective
<1> QED BY <1>13, <1>14

LEMMA OrderedIsASeq ==
  ASSUME NEW S \in SUBSET DOMAIN Content, NEW sort
  PROVE  /\ Ordered(S, sort) \in Seq(S) /\ Ordered(S, sort) \in Seq(DOMAIN Content)
         /\ Len(Ordered(S, sort)) = Cardinality(S)
<1>1. Ordered(S, sort) \in [1..Cardinality(S) -> S] /\ Cardinality(S) \in Nat
  BY OrderedIsSorted, TableIsFinite DEF Bijection, Injection
<1>2. Ordered(S, sort) \in Seq(S) /\ Len(Ordered(S, sort)) = Cardinality(S)
  BY <1>1, IsASeq
<1> QED BY <1>2, SeqMonotonic

LEMMA ListingIsASeq ==
  ASSUME present \subseteq DOMAIN Content, NEW r, NEW days
  PROVE  LET list == ListingOn(r, days)
         IN /\ list \in Seq(DOMAIN Content)
            /\ Len(list) \in 0..Cardinality(DOMAIN Content)
            /\ \A i \in 1..Len(list) : Matches(r, days, list[i])
<1> DEFINE S == {k \in present : Matches(r, days, k)}
<1>1. S \in SUBSET DOMAIN Content
  OBVIOUS
<1>2. ListingOn(r, days) = Ordered(S, r.sort)
  BY DEF ListingOn
<1> HIDE DEF S
<1>3. Ordered(S, r.sort) \in Seq(S) /\ Ordered(S, r.sort) \in Seq(DOMAIN Content)
  BY <1>1, OrderedIsASeq
<1>4. Len(Ordered(S, r.sort)) \in 0..Cardinality(DOMAIN Content)
  <2>1. Len(Ordered(S, r.sort)) = Cardinality(S)
    BY <1>1, OrderedIsASeq
  <2>2. Cardinality(S) \in Nat /\ Cardinality(S) <= Cardinality(DOMAIN Content)
    BY <1>1, TableIsFinite
  <2>3. Cardinality(DOMAIN Content) \in Nat
    BY TableIsFinite
  <2> QED BY <2>1, <2>2, <2>3
<1>5. \A i \in 1..Len(Ordered(S, r.sort)) : Ordered(S, r.sort)[i] \in S
  BY <1>3, ElementOfSeq
<1> QED BY <1>2, <1>3, <1>4, <1>5 DEF S

\* The rows of a page are a part of the list, and there are as many as total
\* and page number announce.
LEMMA PageRowsOfList ==
  ASSUME NEW D, NEW list \in Seq(D), NEW r, Number(r) \in Nat \ {0}, Limit(r) \in Nat \ {0}
  PROVE  LET rows == PageRows(r, list)
             pages == PagesOf(Len(list), Limit(r))
         IN /\ rows \in Seq(D) /\ Len(rows) \in 0..Limit(r)
            /\ \A i \in 1..Len(rows) : \E j \in 1..Len(list) : rows[i] = list[j]
            /\ Len(rows) = IF Number(r) < pages THEN Limit(r)
                           ELSE IF Number(r) > pages THEN 0
                           ELSE Len(list) - (pages - 1) * Limit(r)
            /\ Number(r) <= pages /\ list # <<>> => rows # <<>>
            /\ Number(r) * Limit(r) \in Nat /\ (Number(r) - 1) * Limit(r) \in Nat
            /\ Number(r) * Limit(r) = (Number(r) - 1) * Limit(r) + Limit(r)
<1> DEFINE n == Len(list)
           l == Limit(r)
           p == Number(r)
           offset == (p - 1) * l
           end == IF offset + l < n THEN offset + l ELSE n
           pages == PagesOf(n, l)
           rows == PageRows(r, list)
<1>1. n \in Nat /\ l \in Nat \ {0} /\ p \in Nat \ {0}
  BY LenProperties
<1>2. rows = SubSeq(list, offset + 1, end)
  BY DEF PageRows
<1> HIDE DEF n, l, p
<1>3. p - 1 \in Nat /\ offset \in Nat /\ p * l = offset + l /\ p * l \in Nat
  BY <1>1
<1>4. /\ p < pages => p * l < n
      /\ p >= pages => n <= p * l
      /\ p > pages => n <= offset
      /\ p <= pages /\ n > 0 => offset < n
  BY <1>1, PageNumbers
<1>5. pages \in Nat \ {0} /\ (n = 0 => pages = 1)
  BY <1>1, LastPage DEF PagesOf
<1> HIDE DEF pages, offset
<1>6. \A i \in offset + 1..end : i \in 1..n /\ list[i] \in D
  BY <1>1, <1>3, ElementOfSeq DEF n
<1>7. end \in Nat
  BY <1>1, <1>3
<1>8. /\ rows \in Seq(D)
      /\ Len(rows) = IF offset + 1 <= end THEN end - offset ELSE 0
      /\ \A i \in 1..end - offset : rows[i] = list[offset + i]
  <2> DEFINE m == offset + 1
  <2>1. m \in Int /\ end \in Int /\ \A i \in m..end : list[i] \in D
    BY <1>3, <1>6, <1>7
  <2> HIDE DEF m, end
  <2>2. /\ SubSeq(list, m, end) \in Seq(D)
        /\ Len(SubSeq(list, m, end)) = IF m <= end THEN end - m + 1 ELSE 0
        /\ \A i \in 1 .. end - m + 1 : SubSeq(list, m, end)[i] = list[m + i - 1]
    BY <2>1, SubSeqProperties
  <2> QED BY <1>2, <1>3, <2>1, <2>2 DEF m
<1>9. Len(rows) \in 0..l
  BY <1>1, <1>3, <1>8
<1>10. \A i \in 1..Len(rows) : \E j \in 1..n : rows[i] = list[j]
  <2> SUFFICES ASSUME NEW i \in 1..Len(rows) PROVE \E j \in 1..n : rows[i] = list[j]
    OBVIOUS
  <2>1. offset + i \in 1..n /\ rows[i] = list[offset + i]
    BY <1>1, <1>3, <1>7, <1>8
  <2> QED BY <2>1
<1>11. Len(rows) = IF p < pages THEN l ELSE IF p > pages THEN 0 ELSE n - (pages - 1) * l
  <2>1. CASE p < pages
    BY <1>1, <1>3, <1>4, <1>5, <1>8, <2>1
  <2>2. CASE p > pages
    BY <1>1, <1>3, <1>4, <1>5, <1>8, <2>2
  <2>3. CASE p = pages
    <3>1. offset = (pages - 1) * l
      BY <2>3 DEF offset
    <3>2. n = 0 => offset = 0
      BY <1>1, <1>5, <3>1
    <3> QED BY <1>1, <1>3, <1>4, <1>5, <1>8, <2>3, <3>1, <3>2
  <2> QED BY <1>1, <1>5, <2>1, <2>2, <2>3
<1>12. p <= pages /\ list # <<>> => rows # <<>>
  <2> SUFFICES ASSUME p <= pages, list # <<>> PROVE rows # <<>>
    OBVIOUS
  <2>1. n > 0
    BY <1>1, EmptySeq DEF n
  <2>2. Len(rows) > 0
    BY <1>1, <1>3, <1>4, <1>8, <2>1
  <2> QED BY <2>2, EmptySeq
<1> QED BY <1>3, <1>8, <1>9, <1>10, <1>11, <1>12 DEF n, l, p, offset, pages
-----------------------------------------------------------------------------
(* URLs and the requests they mean.                                        *)

LEMMA Values ==
  /\ Nil \notin Nat /\ Nil \notin FlagRaw /\ Nil \notin DayRaw /\ Nil \notin Seq(DOMAIN Content)
  /\ AdminSize \in Nat /\ DefaultPageSize \in Nat /\ DefaultPageSize # 0
  /\ Sizes \subseteq Nat /\ 0 \notin Sizes
  /\ LastDay \in Nat /\ LastDay > 1 /\ MaxChanges \in Nat
  /\ DefaultOrdering \in Sorts
<1>1. Nil \notin Nat \cup FlagRaw \cup DayRaw \cup Seq(DOMAIN Content)
  BY NilAssumption
<1>2. /\ AdminSize \in Nat /\ DefaultPageSize \in Nat \ {0} /\ Sizes \subseteq Nat \ {0}
      /\ LastDay \in Nat \ {0, 1} /\ MaxChanges \in Nat /\ DefaultOrdering \in {"", "day", "-day", "flag", "-flag"}
  BY ListAssumption
<1>3. LastDay > 1
  <2>1. LastDay \in Nat /\ LastDay # 0 /\ LastDay # 1
    BY <1>2
  <2> QED BY <2>1
<1>4. DefaultOrdering \in Sorts
  BY <1>2 DEF Sorts
<1> QED BY <1>1, <1>2, <1>3, <1>4

LEMMA Positive ==
  ASSUME NEW r \in Requests
  PROVE  Number(r) \in Nat \ {0} /\ Limit(r) \in Nat \ {0}
<1>1. r.page \in Nat /\ r.size \in Nat
  BY DEF Requests
<1> QED BY <1>1, Values DEF Number, Limit

\* The sort that a request is given, and that its own links keep.
Offered(sort) == sort = DefaultOrdering \/ (sort # "" /\ Column(sort) \in Sortable)

LEMMA RequestOfUrl ==
  ASSUME NEW u \in Urls
  PROVE  /\ Complete(RequestOf(u))
         /\ RequestOf(u).search = u.search /\ RequestOf(u).flag = u.flag
         /\ RequestOf(u).day = FoldRange(u)
         /\ Offered(u.sort) => RequestOf(u).sort = u.sort
         /\ RequestOf(u).page = IF u.page = Nil THEN 1 ELSE u.page
         /\ RequestOf(u).size = IF u.size \in {Nil, 0} THEN AdminSize ELSE u.size
<1> DEFINE r == Parse(u)
<1>1. /\ u.search \in BOOLEAN /\ u.flag \in FlagRaw \cup {Nil} /\ u.day \in DayRaw \cup {Nil}
      /\ u.range \in ((0..LastDay) \X (0..LastDay)) \cup {Nil} /\ u.sort \in Sorts
      /\ u.page \in Nat \cup {Nil} /\ u.size \in {Nil, 0} \cup (({AdminSize} \cup Sizes) \ {DefaultPageSize})
  BY DEF Urls
<1>2. FoldRange(u) \in DayRaw \cup {Nil}
  BY <1>1 DEF FoldRange, DayRaw
<1>3. r \in Requests
  <2>1. (IF u.page = Nil THEN 1 ELSE u.page) \in Nat
    BY <1>1
  <2>2. (IF u.size = Nil THEN 0 ELSE u.size) \in Nat
    <3>1. u.size = Nil \/ u.size = 0 \/ u.size = AdminSize \/ u.size \in Sizes
      BY <1>1
    <3>2. u.size = Nil \/ u.size \in Nat
      <4>1. 0 \in Nat /\ AdminSize \in Nat /\ Sizes \subseteq Nat
        BY Values
      <4> QED BY <3>1, <4>1, Zenon
    <3> QED BY <3>2
  <2> QED BY <1>1, <1>2, <2>1, <2>2 DEF Requests, Parse
<1>4. /\ r.search = u.search /\ r.flag = u.flag /\ r.day = FoldRange(u) /\ r.sort = u.sort
      /\ r.page = (IF u.page = Nil THEN 1 ELSE u.page)
      /\ r.size = (IF u.size = Nil THEN 0 ELSE u.size)
  BY DEF Parse
<1> DEFINE sort == IF r.sort = "" \/ Column(r.sort) \notin Sortable THEN DefaultOrdering ELSE r.sort
           size == IF r.size < 1 THEN AdminSize ELSE r.size
<1>5. ApplyDefaults(r) = [r EXCEPT !.sort = sort, !.size = size]
  BY DEF ApplyDefaults
<1> HIDE DEF r
<1>6. sort \in Sorts /\ Offered(sort) /\ (Offered(r.sort) => sort = r.sort)
  BY <1>1, <1>4, Values DEF Offered, Sorts
<1>7. size \in Nat /\ size \in OwnSizes /\ size = IF u.size \in {Nil, 0} THEN AdminSize ELSE u.size
  <2>1. CASE u.size \in {Nil, 0}
    <3>1. r.size = 0
      BY <1>4, <2>1
    <3>2. size = AdminSize
      BY <3>1
    <3> QED BY <2>1, <3>2, Values DEF OwnSizes
  <2>2. CASE u.size \notin {Nil, 0}
    <3>1. u.size \in ({AdminSize} \cup Sizes) \ {DefaultPageSize}
      BY <1>1, <2>2
    <3>2. u.size \in Nat /\ u.size # 0
      BY <2>2, <3>1, Values
    <3>3. r.size = u.size
      BY <1>4, <2>2
    <3>4. size = u.size
      BY <3>2, <3>3
    <3> QED BY <2>2, <3>1, <3>2, <3>4 DEF OwnSizes
  <2> QED BY <2>1, <2>2
<1> HIDE DEF sort, size
<1>8. ApplyDefaults(r) = [search |-> r.search, flag |-> r.flag, day |-> r.day, sort |-> sort,
                          page |-> r.page, size |-> size]
  BY <1>3, <1>5 DEF Requests
<1>9. ApplyDefaults(r) \in Requests
  BY <1>3, <1>6, <1>7, <1>8 DEF Requests
<1>10. RequestOf(u) = ApplyDefaults(r)
  BY DEF RequestOf, r
<1>11. /\ RequestOf(u).search = r.search /\ RequestOf(u).flag = r.flag /\ RequestOf(u).day = r.day
       /\ RequestOf(u).sort = sort /\ RequestOf(u).page = r.page /\ RequestOf(u).size = size
  BY <1>8, <1>10
<1>12. Complete(RequestOf(u))
  BY <1>6, <1>7, <1>9, <1>10, <1>11 DEF Complete, Offered
<1> QED BY <1>4, <1>6, <1>7, <1>11, <1>12

\* A page's own link means the request it was made from.
LEMMA RequestOfLink ==
  ASSUME NEW r \in Requests, Offered(r.sort), NEW page \in Nat, r.size \in OwnSizes \cup Sizes
  PROVE  /\ ListURL(r, page) \in Urls
         /\ LET s == RequestOf(ListURL(r, page))
            IN /\ s.search = r.search /\ s.flag = r.flag /\ s.day = r.day /\ s.sort = r.sort
               /\ Number(s) = IF page < 1 THEN 1 ELSE page
               /\ Told(r.size) => Limit(s) = Limit(r)
<1> DEFINE u == ListURL(r, page)
           s == RequestOf(u)
<1>1. /\ r.search \in BOOLEAN /\ r.flag \in FlagRaw \cup {Nil} /\ r.day \in DayRaw \cup {Nil}
      /\ r.sort \in Sorts /\ r.page \in Nat /\ r.size \in Nat
  BY DEF Requests
<1>2. /\ u.search = r.search /\ u.flag = r.flag /\ u.day = r.day /\ u.range = Nil /\ u.sort = r.sort
      /\ u.page = (IF page > 1 THEN page ELSE Nil)
      /\ u.size = (IF r.size > 0 /\ r.size # DefaultPageSize THEN r.size ELSE Nil)
  BY DEF ListURL
<1>3. u \in Urls
  <2>1. (IF page > 1 THEN page ELSE Nil) \in Nat \cup {Nil}
    OBVIOUS
  <2>2. (IF r.size > 0 /\ r.size # DefaultPageSize THEN r.size ELSE Nil)
          \in {Nil, 0} \cup (({AdminSize} \cup Sizes) \ {DefaultPageSize})
    BY DEF OwnSizes
  <2> QED BY <1>1, <2>1, <2>2 DEF ListURL, Urls
<1> HIDE DEF u
<1>4. /\ s.search = u.search /\ s.flag = u.flag /\ s.day = FoldRange(u)
      /\ Offered(u.sort) => s.sort = u.sort
      /\ s.page = (IF u.page = Nil THEN 1 ELSE u.page)
      /\ s.size = (IF u.size \in {Nil, 0} THEN AdminSize ELSE u.size)
  BY <1>3, RequestOfUrl
<1>5. FoldRange(u) = r.day
  BY <1>2 DEF FoldRange
<1>6. Number(s) = IF page < 1 THEN 1 ELSE page
  <2>1. CASE page > 1
    <3>1. u.page = page /\ page # Nil
      BY <1>2, <2>1, Values
    <3>2. s.page = page
      BY <1>4, <3>1
    <3> QED BY <2>1, <3>2 DEF Number
  <2>2. CASE ~(page > 1)
    <3>1. s.page = 1
      BY <1>2, <1>4, <2>2
    <3> QED BY <2>2, <3>1 DEF Number
  <2> QED BY <2>1, <2>2
<1>7. ASSUME Told(r.size) PROVE Limit(s) = Limit(r)
  <2>1. CASE r.size > 0 /\ r.size # DefaultPageSize
    <3>1. s.size = r.size
      BY <1>1, <1>2, <1>4, <2>1, Values
    <3> QED BY <3>1 DEF Limit
  <2>2. CASE r.size = 0
    <3>1. AdminSize = 0 /\ s.size = 0
      BY <1>2, <1>4, <2>2, Values DEF OwnSizes
    <3> QED BY <2>2, <3>1 DEF Limit
  <2>3. CASE r.size = DefaultPageSize
    <3>1. s.size = AdminSize
      BY <1>2, <1>4, <2>3
    <3>2. AdminSize \in {0, DefaultPageSize}
      BY <1>7, <2>3 DEF Told
    <3> QED BY <2>3, <3>1, <3>2, Values DEF Limit
  <2> QED BY <1>1, <2>1, <2>2, <2>3
<1> QED BY <1>2, <1>3, <1>4, <1>5, <1>6, <1>7 DEF u

\* A form keeps the rest of the request, but goes back to the first page and
\* drops the page size.
LEMMA RequestOfForm ==
  ASSUME NEW r \in Requests, Offered(r.sort)
  PROVE  /\ ListForm(r) \in Urls
         /\ LET s == RequestOf(ListForm(r))
            IN s.search = r.search /\ s.flag = r.flag /\ s.day = r.day /\ s.sort = r.sort /\ Number(s) = 1
<1> DEFINE u == ListForm(r)
           s == RequestOf(u)
<1>1. /\ r.search \in BOOLEAN /\ r.flag \in FlagRaw \cup {Nil} /\ r.day \in DayRaw \cup {Nil}
      /\ r.sort \in Sorts
  BY DEF Requests
<1>2. /\ u.search = r.search /\ u.flag = r.flag /\ u.day = r.day /\ u.range = Nil /\ u.sort = r.sort
      /\ u.page = Nil
  BY DEF ListForm
<1>3. u \in Urls
  BY <1>1 DEF ListForm, Urls
<1> HIDE DEF u
<1>4. /\ s.search = u.search /\ s.flag = u.flag /\ s.day = FoldRange(u)
      /\ Offered(u.sort) => s.sort = u.sort
      /\ s.page = (IF u.page = Nil THEN 1 ELSE u.page)
  BY <1>3, RequestOfUrl
<1> QED BY <1>2, <1>3, <1>4 DEF FoldRange, Number, u

LEMMA SameListing ==
  ASSUME NEW r, NEW s, NEW days, SameRows(r, s)
  PROVE  ListingOn(r, days) = ListingOn(s, days)
<1>1. \A k : Matches(r, days, k) = Matches(s, days, k)
  BY DEF SameRows, SameButFlag, Matches
<1>2. {k \in present : Matches(r, days, k)} = {k \in present : Matches(s, days, k)}
  BY <1>1
<1> QED BY <1>2 DEF ListingOn, SameRows, SameButFlag

\* A page depends on what selects and orders the rows, its number and size.
LEMMA SamePage ==
  ASSUME NEW r, NEW s, NEW list, Number(r) = Number(s), Limit(r) = Limit(s)
  PROVE  PageRows(r, list) = PageRows(s, list)
BY DEF PageRows

LEMMA Windows ==
  ASSUME NEW date \in Days, NEW raw \in DayRaw \cup {Nil}
  PROVE  /\ WindowOn(date, raw) \subseteq Days
         /\ raw \in Blank => WindowOn(date, raw) = Days
         /\ \A other : Fixed(raw) => WindowOn(other, raw) = WindowOn(date, raw)
<1>0. LastDay \in Nat /\ date \in Nat /\ Nil \notin DayRaw
  BY Values DEF Days
<1>1. CASE raw = Nil
  BY <1>1 DEF WindowOn
<1>2. CASE raw = <<>>
  BY <1>2 DEF WindowOn
<1>3. CASE raw = Preset
  <2>1. raw # <<>> /\ raw # <<0, 0>> /\ Len(raw) = 1 /\ raw # Nil
    BY <1>0, <1>3 DEF Preset, DayRaw
  <2> QED BY <1>3, <2>1 DEF WindowOn, Blank, Fixed
<1>4. CASE raw \in (0..LastDay) \X (0..LastDay)
  <2>1. PICK a \in 0..LastDay, b \in 0..LastDay : raw = <<a, b>>
    BY <1>4
  <2>2. raw # Nil /\ raw # <<>> /\ Len(raw) = 2 /\ raw[1] = a /\ raw[2] = b
    BY <1>0, <1>4, <2>1 DEF DayRaw
  <2>3. ASSUME NEW d
        PROVE  WindowOn(d, raw) = LET end == IF b = 0 THEN d ELSE b
                                  IN IF a = 0 \/ end < a THEN Days ELSE a..end
    BY <2>2 DEF WindowOn
  <2>4. raw = <<0, 0>> => a = 0
    BY <2>1
  <2>5. Fixed(raw) => a = 0 \/ b # 0
    BY <2>2 DEF Fixed, OpenEnded
  <2> QED BY <1>0, <2>2, <2>3, <2>4, <2>5 DEF Blank, Days
<1> QED BY <1>1, <1>2, <1>3, <1>4 DEF DayRaw
-----------------------------------------------------------------------------
(* The invariant.                                                          *)

LEMMA RequestIsComplete ==
  ASSUME url \in Urls
  PROVE  Complete(Request) /\ Request \in Requests
BY RequestOfUrl DEF Request, RequestOf, Complete

LEMMA InitInv == Init => IInv
<1> SUFFICES ASSUME Init PROVE IInv
  OBVIOUS
<1> USE DEF Init
<1>1. url \in Urls
  <2>1. {FALSE} \subseteq BOOLEAN /\ {Nil, Preset} \subseteq DayRaw \cup {Nil}
    BY DEF DayRaw
  <2>2. {"", "flag"} \subseteq Sorts /\ {Nil, 0, 3} \subseteq Nat \cup {Nil}
    BY DEF Sorts
  <2>3. url \in Typed
    OBVIOUS
  <2> QED BY <2>1, <2>2, <2>3 DEF Typed, Urls
<1>2. today \in Days
  BY Values DEF Days
<1>3. Types
  <2>1. changes \in 0..MaxChanges
    BY Values
  <2> QED BY <1>1, <1>2, <2>1 DEF Types
<1>4. Kept /\ ShownRows /\ Counted /\ Onward /\ Walked /\ PagerAgrees
  BY DEF Kept, ShownRows, Counted, Onward, Walked, PagerAgrees, Links, Forms
<1> QED BY <1>3, <1>4 DEF IInv

\* What a step that leaves the table alone does not change.
LEMMA TableStays ==
  ASSUME source' = source, NEW r, NEW s, NEW days
  PROVE  /\ Flag(r)' = Flag(r) /\ SameRows(r, s)' = SameRows(r, s) /\ Defaulted' = Defaulted
         /\ present' = present => ListingOn(r, days)' = ListingOn(r, days)
<1>1. Defaulted' = Defaulted
  BY DEF Defaulted
<1>2. \A q : Flag(q)' = Flag(q)
  BY <1>1 DEF Flag
<1>3. SameRows(r, s)' = SameRows(r, s)
  BY <1>2 DEF SameRows
<1>4. ASSUME present' = present PROVE ListingOn(r, days)' = ListingOn(r, days)
  <2>1. \A k : Matches(r, days, k)' = Matches(r, days, k)
    BY <1>2 DEF Matches
  <2> QED BY <1>4, <2>1 DEF ListingOn
<1> QED BY <1>1, <1>2, <1>3, <1>4

\* Midnight moves no window but those of the preset and of open ranges.
LEMMA NewDayInv == IInv /\ NewDay => IInv'
<1> SUFFICES ASSUME IInv, NewDay PROVE IInv'
  OBVIOUS
<1> USE DEF NewDay
<1>1. today' \in Days
  BY Values DEF IInv, Types, Days
<1>2. Types'
  BY <1>1 DEF IInv, Types, Counts, Pages
<1>3. Request' = Request
  BY DEF Request
<1>4. ASSUME NEW raw \in DayRaw \cup {Nil}, Fixed(raw)
      PROVE  WindowOn(today', raw) = WindowOn(today, raw)
  BY <1>1, <1>4, Windows
<1>5. Kept'
  BY <1>3, TableStays DEF IInv, Kept
<1>6. ShownRows'
  <2> SUFFICES ASSUME shown # Nil PROVE ShownRows'
    BY DEF ShownRows
  <2>1. shown.req.day \in DayRaw \cup {Nil}
    BY DEF IInv, ShownRows, Complete, Requests
  <2>2. Fixed(shown.req.day) => Window(shown.req.day)' = Window(shown.req.day)
    BY <1>4, <2>1 DEF Window
  <2>3. /\ ListingOn(shown.req, shown.days)' = ListingOn(shown.req, shown.days)
        /\ Flag(shown.req)' = Flag(shown.req)
    BY TableStays
  <2> QED BY <1>3, <2>2, <2>3 DEF IInv, ShownRows
<1>7. Counted'
  <2>1. Request.day \in DayRaw \cup {Nil}
    BY RequestIsComplete DEF IInv, Types, Requests
  <2>2. Fixed(Request.day) => Window(Request.day)' = Window(Request.day)
    BY <1>3, <1>4, <2>1 DEF Window
  <2>3. ListingOn(Request, total.days)' = ListingOn(Request, total.days)
    BY <1>3, TableStays
  <2> QED BY <1>3, <2>2, <2>3 DEF IInv, Counted
<1>8. Onward'
  BY <1>3, TableStays DEF IInv, Onward
<1>9. Walked'
  <2>1. ListingOn(shown.req, shown.days)' = ListingOn(shown.req, shown.days)
    BY TableStays
  <2> QED BY <2>1 DEF IInv, Walked
<1>10. PagerAgrees'
  BY DEF IInv, PagerAgrees
<1> QED BY <1>2, <1>5, <1>6, <1>7, <1>8, <1>9, <1>10 DEF IInv

\* A page or a total that another session has overtaken says nothing about
\* the table any more.
LEMMA ChangeInv == IInv /\ Change => IInv'
<1> SUFFICES ASSUME IInv, Change PROVE IInv'
  OBVIOUS
<1> USE DEF Change
<1>1. changes \in Nat /\ changes' = changes + 1 /\ changes' \in 0..MaxChanges
  BY Values DEF IInv, Types
<1>2. present' \subseteq DOMAIN Content
  BY DEF IInv, Types
<1>3. Counts \subseteq Counts' /\ Pages \subseteq Pages'
  BY <1>1 DEF Counts, Pages
<1>4. Types'
  <2>1. total' \in IF pc' = "counted" THEN Counts' ELSE {Nil}
    BY <1>3 DEF IInv, Types
  <2>2. shown' # Nil => shown' \in Pages'
    BY <1>3 DEF IInv, Types
  <2>3. asof' # Nil => asof'.changes \in 0..changes' /\ asof'.days \subseteq Days
    BY <1>1 DEF IInv, Types
  <2> QED BY <1>1, <1>2, <2>1, <2>2, <2>3 DEF IInv, Types
<1>5. Request' = Request
  BY DEF Request
<1>6. Kept'
  BY <1>5, TableStays DEF IInv, Kept
<1>7. shown # Nil => /\ shown.at \in Nat /\ shown.at < changes'
                     /\ shown.upto \in Nat /\ shown.upto < changes'
  BY <1>1 DEF IInv, Types, Pages
<1>8. ShownRows'
  BY <1>5, <1>7, TableStays DEF IInv, ShownRows, Window
<1>9. Counted'
  <2>1. pc = "counted" => total.at \in Nat /\ total.at < changes'
    BY <1>1 DEF IInv, Types, Counts
  <2> QED BY <1>5, <2>1 DEF IInv, Counted, Window
<1>10. Onward'
  BY <1>5, TableStays DEF IInv, Onward
<1>11. Walked'
  BY <1>7 DEF IInv, Walked
<1>12. PagerAgrees'
  BY DEF IInv, PagerAgrees
<1> QED BY <1>4, <1>6, <1>8, <1>9, <1>10, <1>11, <1>12 DEF IInv

\* A failure and a reload leave everything but pc and the total alone.
LEMMA FailInv == IInv /\ (Fail \/ Reload) => IInv'
<1> SUFFICES ASSUME IInv, Fail \/ Reload PROVE IInv'
  OBVIOUS
<1>1. /\ UNCHANGED <<source, present, changes, today, url, via, wanted, asof, shown, walk>>
      /\ pc' \in {"requested", "failed"} /\ pc \in {"requested", "counted", "failed"}
      /\ total' = Nil
  BY DEF Fail, Reload, IInv, Types
<1>2. Types'
  BY <1>1 DEF IInv, Types, Pages
<1>3. Request' = Request
  BY <1>1 DEF Request
<1>4. Kept'
  BY <1>1, <1>3, TableStays DEF IInv, Kept
<1>5. ShownRows'
  BY <1>1, TableStays DEF IInv, ShownRows, Window
<1>6. Counted'
  BY <1>1 DEF Counted
<1>7. Onward'
  BY <1>1, <1>3, TableStays DEF IInv, Onward
<1>8. Walked'
  BY <1>1, TableStays DEF IInv, Walked
<1>9. PagerAgrees'
  BY <1>1 DEF PagerAgrees
<1> QED BY <1>2, <1>4, <1>5, <1>6, <1>7, <1>8, <1>9 DEF IInv

LEMMA CountInv == IInv /\ Count => IInv'
<1> SUFFICES ASSUME IInv, Count PROVE IInv'
  OBVIOUS
<1>1. /\ UNCHANGED <<source, present, changes, today, url, via, wanted, asof, shown, walk>>
      /\ pc = "requested" /\ pc' = "counted"
      /\ total' = [n |-> Len(Listing(Request)), at |-> changes, days |-> Window(Request.day)]
  BY DEF Count
<1>2. Complete(Request) /\ Request \in Requests /\ Request.day \in DayRaw \cup {Nil}
  BY RequestIsComplete DEF IInv, Types, Requests
<1>3. total'.n = Len(ListingOn(Request, total'.days)) /\ total'.at = changes
      /\ total'.days = Window(Request.day)
  BY <1>1 DEF Listing
<1>4. Request' = Request
  BY <1>1 DEF Request
<1>5. Types'
  <2>1. Len(ListingOn(Request, total'.days)) \in 0..Cardinality(DOMAIN Content)
    BY ListingIsASeq DEF IInv, Types
  <2>2. Window(Request.day) \subseteq Days
    BY <1>2, Windows DEF Window, IInv, Types
  <2>3. total' \in Counts'
    BY <1>1, <1>3, <2>1, <2>2 DEF Counts, IInv, Types
  <2> QED BY <1>1, <2>3 DEF IInv, Types, Pages
<1>6. Kept'
  BY <1>1, <1>4, TableStays DEF IInv, Kept
<1>7. ShownRows'
  BY <1>1, TableStays DEF IInv, ShownRows, Window
<1>8. Counted'
  <2>1. ListingOn(Request, total.days)' = ListingOn(Request, total'.days)
    BY <1>1, <1>4, TableStays
  <2>2. Window(Request.day)' = Window(Request.day)
    BY <1>1, <1>4 DEF Window
  <2> QED BY <1>3, <1>4, <2>1, <2>2 DEF Counted
<1>9. Onward'
  BY <1>1, <1>4, TableStays DEF IInv, Onward
<1>10. Walked'
  BY <1>1, TableStays DEF IInv, Walked
<1>11. PagerAgrees'
  BY <1>1 DEF PagerAgrees
<1> QED BY <1>5, <1>6, <1>7, <1>8, <1>9, <1>10, <1>11 DEF IInv

LEMMA PagesOfShown ==
  ASSUME NEW p, p.total \in Nat
  PROVE  NumPages(p) = PagesOf(p.total, Limit(p.req))
BY DEF NumPages, PagesOf

\* The page of the request, of a list whose length was known at "at".
LEMMA ShowInv ==
  ASSUME IInv, pc \in {"requested", "counted"},
         NEW n \in 0..Cardinality(DOMAIN Content), NEW days \in SUBSET Days, NEW at \in 0..changes,
         Show(PageRows(Request, ListingOn(Request, days)), n, days, at),
         at = changes => n = Len(ListingOn(Request, days)),
         Fixed(Request.day) => days = Window(Request.day)
  PROVE  IInv'
<1> DEFINE list == ListingOn(Request, days)
           rows == PageRows(Request, list)
<1>1. /\ UNCHANGED <<source, present, changes, today, url, via, wanted, asof>>
      /\ pc' = "shown" /\ total' = Nil
      /\ shown' = [req |-> Request, items |-> rows, total |-> n, days |-> days, at |-> at, upto |-> changes]
      /\ walk' = IF at # changes THEN Nil
                 ELSE IF Number(Request) = 1 THEN rows
                 ELSE IF via = "next" /\ walk # Nil /\ asof = [changes |-> changes, days |-> days]
                 THEN walk \o rows ELSE Nil
  BY DEF Show
<1>2. Types
  BY DEF IInv
<1>3. changes \in Nat /\ changes \in 0..changes /\ Cardinality(DOMAIN Content) \in Nat
  BY <1>2, TableIsFinite, Values DEF Types
<1>4. Complete(Request) /\ Request \in Requests
  BY <1>2, RequestIsComplete DEF Types
<1>5. Number(Request) \in Nat \ {0} /\ Limit(Request) \in Nat \ {0}
  BY <1>4, Positive
<1>6. /\ list \in Seq(DOMAIN Content)
      /\ \A i \in 1..Len(list) : Matches(Request, days, list[i])
  BY <1>2, ListingIsASeq DEF Types
<1> DEFINE pages == PagesOf(Len(list), Limit(Request))
<1>7. /\ rows \in Seq(DOMAIN Content) /\ Len(rows) \in 0..Limit(Request)
      /\ \A i \in 1..Len(rows) : \E j \in 1..Len(list) : rows[i] = list[j]
      /\ Len(rows) = IF Number(Request) < pages THEN Limit(Request)
                     ELSE IF Number(Request) > pages THEN 0
                     ELSE Len(list) - (pages - 1) * Limit(Request)
      /\ Number(Request) <= pages /\ list # <<>> => rows # <<>>
  BY <1>5, <1>6, PageRowsOfList
<1>8. Request' = Request
  BY <1>1 DEF Request
<1>9. ListingOn(shown.req, shown.days)' = list
  BY <1>1, <1>8, TableStays
<1> HIDE DEF list, rows, pages
<1>10. /\ shown'.req = Request /\ shown'.items = rows /\ shown'.total = n /\ shown'.days = days
       /\ shown'.at = at /\ shown'.upto = changes
  BY <1>1
<1>11. shown' \in Pages'
  BY <1>1, <1>3, <1>4, <1>7 DEF Pages
<1>12. shown' # Nil
  <2>1. shown' \in [req : Requests, items : Seq(DOMAIN Content), total : Nat,
                    days : SUBSET Days, at : Nat, upto : Nat]
    BY <1>1, <1>3, <1>4, <1>7
  <2> QED BY <2>1, NilAssumption
<1>13. Types'
  BY <1>1, <1>2, <1>11, <1>12 DEF Types
<1>14. Kept'
  BY <1>1, <1>8, TableStays DEF IInv, Kept
<1>15. ShownRows'
  <2>1. \A i \in DOMAIN rows : FlagFits(source, Flag(Request), rows[i])
    <3>1. DOMAIN rows = 1..Len(rows)
      BY <1>7, LenProperties
    <3> QED BY <1>6, <1>7, <3>1 DEF Matches
  <2>2. Flag(shown.req)' = Flag(Request)
    BY <1>1, <1>8, <1>10, TableStays
  <2>3. Window(shown.req.day)' = Window(Request.day)
    BY <1>1, <1>10 DEF Window
  <2>4. PageRows(Request, list) = rows
    BY DEF rows
  <2>5. Len(rows) <= Limit(Request) /\ at <= changes
    BY <1>3, <1>5, <1>7
  <2> QED BY <1>1, <1>4, <1>8, <1>9, <1>10, <2>1, <2>2, <2>3, <2>4, <2>5 DEF ShownRows, list
<1>16. Counted' /\ Onward'
  BY <1>1 DEF Counted, Onward
<1>17. Walked'
  <2> SUFFICES ASSUME walk' # Nil
               PROVE  /\ at = changes /\ Len(list) \in Nat
                      /\ LET end == Number(Request) * Limit(Request)
                         IN walk' = SubSeq(list, 1, IF end < Len(list) THEN end ELSE Len(list))
    BY <1>1, <1>9, <1>10, <1>12 DEF Walked
  <2>0. at = changes /\ Len(list) \in Nat
    BY <1>1, <1>6, LenProperties
  <2>1. CASE Number(Request) = 1
    <3>1. walk' = rows
      BY <1>1, <2>0, <2>1
    <3>2. rows = SubSeq(list, 1, IF Limit(Request) < Len(list) THEN Limit(Request) ELSE Len(list))
      BY <1>5, <2>0, <2>1 DEF rows, PageRows
    <3>3. Number(Request) * Limit(Request) = Limit(Request)
      BY <1>5, <2>1
    <3> QED BY <2>0, <3>1, <3>2, <3>3
  <2>2. CASE Number(Request) # 1
    <3>1. /\ via = "next" /\ walk # Nil /\ asof = [changes |-> changes, days |-> days]
          /\ walk' = walk \o rows
      BY <1>1, <2>0, <2>2
    <3>2. /\ shown # Nil /\ shown.at = changes /\ shown.days = days
          /\ SameRows(Request, shown.req) /\ Limit(Request) = Limit(shown.req)
          /\ Number(Request) = Number(shown.req) + 1
          /\ Number(Request) \in 2..NumPages(shown)
      BY <3>1 DEF IInv, Onward
    <3>3. shown.at = shown.upto
      BY <3>1 DEF IInv, Walked
    <3>4. ListingOn(shown.req, shown.days) = list
      BY <3>2, SameListing DEF list
    <3>5. shown.total = Len(list)
      BY <3>2, <3>4 DEF IInv, ShownRows
    <3> DEFINE l == Limit(Request)
               offset == (Number(Request) - 1) * l
               end == IF offset + l < Len(list) THEN offset + l ELSE Len(list)
    <3>6. NumPages(shown) = pages
      BY <2>0, <3>2, <3>5, PagesOfShown DEF pages
    <3>7. offset < Len(list) /\ offset \in Nat /\ Number(Request) * l = offset + l
      <4>1. Number(Request) <= pages /\ Number(Request) > 1
        BY <1>5, <2>2, <3>2, <3>6
      <4>2. Len(list) > 0
        <5>1. pages # 1
          BY <1>5, <4>1
        <5> QED BY <2>0, <5>1 DEF pages, PagesOf
      <4>3. (Number(Request) - 1) * Limit(Request) < Len(list)
        BY <1>5, <2>0, <4>1, <4>2, PageNumbers DEF pages
      <4> QED BY <1>5, <4>3
    <3>8. walk = SubSeq(list, 1, offset)
      <4>1. Number(shown.req) * Limit(shown.req) = offset
        <5>1. Number(shown.req) = Number(Request) - 1
          <6>1. Number(shown.req) \in Nat
            BY <3>2, Positive DEF IInv, ShownRows, Complete
          <6> QED BY <3>2, <6>1
        <5> QED BY <3>2, <5>1
      <4>2. walk = LET stop == Number(shown.req) * Limit(shown.req)
                   IN SubSeq(list, 1, IF stop < Len(list) THEN stop ELSE Len(list))
        BY <3>1, <3>2, <3>3, <3>4 DEF IInv, Walked
      <4> QED BY <3>7, <4>1, <4>2
    <3>9. rows = SubSeq(list, offset + 1, end)
      BY DEF rows, PageRows
    <3> HIDE DEF offset, l
    <3>10. end \in Nat /\ offset <= end /\ end <= Len(list)
      <4>1. l \in Nat
        BY <1>5 DEF l
      <4> QED BY <2>0, <3>7, <4>1
    <3>11. walk \o rows = SubSeq(list, 1, end)
      <4>1. 1 \in 1..Len(list) + 1 /\ offset \in 1 - 1..Len(list) /\ end \in offset..Len(list)
        BY <2>0, <3>7, <3>10
      <4> HIDE DEF end
      <4>2. SubSeq(list, 1, offset) \o SubSeq(list, offset + 1, end) = SubSeq(list, 1, end)
        BY <1>6, <4>1, ConcatAdjacentSubSeq
      <4> QED BY <3>8, <3>9, <4>2
    <3> QED BY <2>0, <3>1, <3>7, <3>11 DEF l
  <2> QED BY <2>1, <2>2
<1>18. PagerAgrees'
  <2>1. NumPages(shown)' = PagesOf(n, Limit(Request))
    <3>1. n \in Nat
      BY <1>3
    <3> QED BY <1>10, <3>1, PagesOfShown
  <2>2. at = changes => n = Len(list)
    BY DEF list
  <2>3. ASSUME at = changes
        PROVE  Len(rows) = IF Number(Request) < NumPages(shown)' THEN Limit(Request)
                           ELSE IF Number(Request) > NumPages(shown)' THEN 0
                           ELSE n - (NumPages(shown)' - 1) * Limit(Request)
    BY <1>7, <2>1, <2>2, <2>3 DEF pages
  <2>4. ASSUME via \in {"next", "last"}, asof = [changes |-> changes, days |-> days]
        PROVE  rows # <<>>
    <3>1. pc # "shown"
      OBVIOUS
    <3>2. /\ shown # Nil /\ shown.at = changes /\ shown.days = days
          /\ SameRows(Request, shown.req) /\ Limit(Request) = Limit(shown.req)
          /\ Number(Request) \in 2..NumPages(shown)
      BY <2>4, <3>1 DEF IInv, Onward
    <3>3. ListingOn(shown.req, shown.days) = list
      BY <3>2, SameListing DEF list
    <3>4. shown.total = Len(list) /\ Len(list) \in Nat
      BY <1>6, <3>2, <3>3, LenProperties DEF IInv, ShownRows
    <3>5. NumPages(shown) = pages
      BY <3>2, <3>4, PagesOfShown DEF pages
    <3>6. Number(Request) <= pages /\ pages # 1
      BY <1>5, <3>2, <3>5
    <3>7. list # <<>>
      BY <3>4, <3>6, EmptySeq DEF pages, PagesOf
    <3> QED BY <1>7, <3>6, <3>7
  <2> QED BY <1>1, <1>10, <2>3, <2>4 DEF PagerAgrees
<1> QED BY <1>13, <1>14, <1>15, <1>16, <1>17, <1>18 DEF IInv

\* The two statements of a ListPage use one window, whatever the day.
LEMMA ServedInv == IInv /\ (Find \/ Load) => IInv'
<1> SUFFICES ASSUME IInv, Find \/ Load PROVE IInv'
  OBVIOUS
<1>1. Types
  BY DEF IInv
<1>2. changes \in 0..changes
  BY <1>1, Values DEF Types
<1>3. CASE Find
  <2>1. pc = "counted" /\ Show(PageRows(Request, ListingOn(Request, total.days)), total.n, total.days, total.at)
    BY <1>3 DEF Find
  <2>2. total.n \in 0..Cardinality(DOMAIN Content) /\ total.days \in SUBSET Days /\ total.at \in 0..changes
    BY <1>1, <2>1 DEF Types, Counts
  <2>3. /\ total.at = changes => total.n = Len(ListingOn(Request, total.days))
        /\ Fixed(Request.day) => total.days = Window(Request.day)
    BY <2>1 DEF IInv, Counted
  <2> QED BY <2>1, <2>2, <2>3, ShowInv
<1>4. CASE Load
  <2> DEFINE days == Window(Request.day)
             n == Len(ListingOn(Request, days))
  <2>1. pc = "requested" /\ Show(PageRows(Request, ListingOn(Request, days)), n, days, changes)
    BY <1>4 DEF Load, Listing
  <2>2. Request.day \in DayRaw \cup {Nil}
    BY <1>1, RequestIsComplete DEF Types, Requests
  <2>3. days \in SUBSET Days
    BY <1>1, <2>2, Windows DEF Window, Types
  <2>4. n \in 0..Cardinality(DOMAIN Content)
    BY <1>1, ListingIsASeq DEF Types
  <2> HIDE DEF days, n
  <2>5. n = Len(ListingOn(Request, days)) /\ days = Window(Request.day)
    BY DEF n, days
  <2> QED BY <1>2, <2>1, <2>3, <2>4, <2>5, ShowInv
<1> QED BY <1>3, <1>4

\* A control of the page shown, followed.
LEMMA AskInv ==
  ASSUME IInv, pc = "shown", NEW control \in Links \cup Forms, NEW u \in Urls, NEW w \in Requests,
         Ask(control, u, w),
         SameButFlag(RequestOf(u), w), (control = "reset" /\ Defaulted) \/ Flag(RequestOf(u)) = Flag(w),
         Number(RequestOf(u)) = Number(w),
         control \in Links /\ Told(w.size) => Limit(RequestOf(u)) = Limit(w),
         control = "flag" => /\ w.flag \in FlagChoices
                             /\ RequestOf(u).flag = Chosen(w.flag, "", Defaulted),
         control \in {"next", "last"} => /\ SameRows(RequestOf(u), shown.req)
                                         /\ Limit(RequestOf(u)) = Limit(shown.req)
                                         /\ Number(RequestOf(u)) \in 2..NumPages(shown),
         control = "next" => Number(RequestOf(u)) = Number(shown.req) + 1
  PROVE  IInv'
<1>1. /\ UNCHANGED <<source, present, changes, today, total, shown, walk>>
      /\ pc' = "requested" /\ url' = u /\ via' = control /\ wanted' = w
      /\ asof' = IF control \in {"next", "last"} THEN [changes |-> shown.at, days |-> shown.days] ELSE Nil
  BY DEF Ask
<1>2. Request' = RequestOf(u)
  BY <1>1 DEF Request, RequestOf
<1>3. shown # Nil /\ shown \in Pages /\ total = Nil
  BY DEF IInv, Types
<1>4. Types'
  <2>1. asof' # Nil => asof'.changes \in 0..changes /\ asof'.days \subseteq Days
    BY <1>1, <1>3 DEF Pages
  <2> QED BY <1>1, <1>3, <2>1 DEF IInv, Types, Pages
<1>5. Kept'
  BY <1>1, <1>2, TableStays DEF Kept
<1>6. ShownRows'
  BY <1>1, TableStays DEF IInv, ShownRows, Window
<1>7. Counted'
  BY <1>1 DEF Counted
<1>8. Onward'
  BY <1>1, <1>2, <1>3, TableStays DEF Onward
<1>9. Walked'
  BY <1>1, TableStays DEF IInv, Walked
<1>10. PagerAgrees'
  BY <1>1 DEF PagerAgrees
<1> QED BY <1>4, <1>5, <1>6, <1>7, <1>8, <1>9, <1>10 DEF IInv

LEMMA NumberOfPage ==
  ASSUME NEW page \in Nat \ {0}
  PROVE  (IF page < 1 THEN 1 ELSE page) = page
OBVIOUS

\* A link to a page of the request u, by a reader who meant w.
LEMMA LinkInv ==
  ASSUME IInv, pc = "shown", NEW control \in Links, NEW page \in Nat \ {0},
         NEW u \in Requests, NEW w \in Requests,
         Ask(control, ListURL(u, page), [w EXCEPT !.page = page]),
         Offered(u.sort), u.size \in OwnSizes \cup Sizes, SameButFlag(u, w), u.size = w.size,
         (control = "reset" /\ Defaulted) \/ Flag(u) = Flag(w),
         control # "size" => u.size \in OwnSizes,
         control = "flag" => w.flag \in FlagChoices /\ u.flag = Chosen(w.flag, "", Defaulted),
         control \in {"next", "last"} => u = shown.req /\ page \in 2..NumPages(shown),
         control = "next" => page = Number(shown.req) + 1
  PROVE  IInv'
<1> DEFINE url1 == ListURL(u, page)
           w1 == [w EXCEPT !.page = page]
           q == RequestOf(url1)
<1>1. /\ url1 \in Urls /\ q.search = u.search /\ q.flag = u.flag /\ q.day = u.day /\ q.sort = u.sort
      /\ Number(q) = (IF page < 1 THEN 1 ELSE page)
      /\ Told(u.size) => Limit(q) = Limit(u)
  BY RequestOfLink
<1>2. /\ w1 \in Requests /\ w1.search = w.search /\ w1.flag = w.flag /\ w1.day = w.day /\ w1.sort = w.sort
      /\ w1.size = w.size /\ w1.page = page
  BY DEF Requests
<1>3. Ask(control, url1, w1)
  OBVIOUS
<1> HIDE DEF url1, w1
<1>4. SameButFlag(q, w1) /\ ((control = "reset" /\ Defaulted) \/ Flag(q) = Flag(w1))
  BY <1>1, <1>2 DEF SameButFlag, Flag
<1>5. Number(q) = page /\ Number(w1) = page
  BY <1>1, <1>2, NumberOfPage DEF Number
<1>6. control \in Links /\ Told(w1.size) => Limit(q) = Limit(w1)
  BY <1>1, <1>2 DEF Limit
<1>7. control = "flag" => w1.flag \in FlagChoices /\ q.flag = Chosen(w1.flag, "", Defaulted)
  BY <1>1, <1>2
<1>8. control \in {"next", "last"} => /\ SameRows(q, shown.req) /\ Limit(q) = Limit(shown.req)
                                      /\ Number(q) \in 2..NumPages(shown)
  <2> SUFFICES ASSUME control \in {"next", "last"}
               PROVE  /\ SameRows(q, shown.req) /\ Limit(q) = Limit(shown.req)
                      /\ Number(q) \in 2..NumPages(shown)
    OBVIOUS
  <2>1. u = shown.req /\ page \in 2..NumPages(shown) /\ u.size \in OwnSizes
    OBVIOUS
  <2>2. Told(u.size)
    BY <2>1 DEF Told, OwnSizes
  <2> QED BY <1>1, <1>5, <2>1, <2>2 DEF SameRows, SameButFlag, Flag
<1>9. control = "next" => Number(q) = Number(shown.req) + 1
  BY <1>5
<1> HIDE DEF q
<1> QED BY <1>1, <1>2, <1>3, <1>4, <1>5, <1>6, <1>7, <1>8, <1>9, AskInv DEF q

\* What every control of the page shown starts from.
LEMMA ShownRequest ==
  ASSUME IInv, pc = "shown"
  PROVE  LET r == shown.req
         IN /\ r \in Requests /\ Offered(r.sort) /\ r.size \in OwnSizes
            /\ Number(r) \in Nat \ {0} /\ NumPages(shown) \in Nat \ {0}
<1>1. shown # Nil /\ shown \in Pages
  BY DEF IInv, Types
<1>2. Complete(shown.req)
  BY <1>1 DEF IInv, ShownRows
<1>3. shown.req \in Requests /\ Offered(shown.req.sort) /\ shown.req.size \in OwnSizes
  BY <1>2 DEF Complete, Offered
<1>4. Number(shown.req) \in Nat \ {0} /\ Limit(shown.req) \in Nat \ {0}
  BY <1>3, Positive
<1>5. shown.total \in Nat
  BY <1>1, TableIsFinite DEF Pages
<1> QED BY <1>3, <1>4, <1>5, PagesOfShown, LastPage

\* Links to another page of the list.
LEMMA FollowPageInv ==
  ASSUME IInv, pc = "shown", FollowPage
  PROVE  IInv'
<1> DEFINE r == shown.req
           Jump(control, page) == Ask(control, ListURL(r, page), [r EXCEPT !.page = page])
<1>1. /\ r \in Requests /\ Offered(r.sort) /\ r.size \in OwnSizes
      /\ Number(r) \in Nat \ {0} /\ NumPages(shown) \in Nat \ {0}
  BY ShownRequest
<1>2. SameButFlag(r, r) /\ Flag(r) = Flag(r)
  BY DEF SameButFlag
<1>3. ASSUME NEW control \in {"first", "previous", "next", "last"}, NEW page \in Nat \ {0},
             Jump(control, page),
             control \in {"next", "last"} => page \in 2..NumPages(shown),
             control = "next" => page = Number(r) + 1
      PROVE  IInv'
  <2>1. control \in Links /\ control # "size" /\ control # "flag"
    BY DEF Links
  <2>2. r.size \in OwnSizes \cup Sizes /\ r.size = r.size
    BY <1>1
  <2> QED BY <1>1, <1>2, <1>3, <2>1, <2>2, LinkInv
<1>4. \/ HasPrevious(shown) /\ Jump("first", 1)
      \/ HasPrevious(shown) /\ Jump("previous", Number(r) - 1)
      \/ HasNext(shown) /\ Jump("next", Number(r) + 1)
      \/ HasNext(shown) /\ Jump("last", NumPages(shown))
  BY DEF FollowPage
<1> HIDE DEF Jump
<1>5. CASE HasPrevious(shown) /\ Jump("first", 1)
  BY <1>3, <1>5
<1>6. CASE HasPrevious(shown) /\ Jump("previous", Number(r) - 1)
  <2>1. Number(r) - 1 \in Nat \ {0}
    BY <1>1, <1>6 DEF HasPrevious
  <2> QED BY <1>3, <1>6, <2>1
<1>7. CASE HasNext(shown) /\ Jump("next", Number(r) + 1)
  <2>1. Number(r) + 1 \in Nat \ {0} /\ Number(r) + 1 \in 2..NumPages(shown)
    BY <1>1, <1>7 DEF HasNext
  <2> QED BY <1>3, <1>7, <2>1
<1>8. CASE HasNext(shown) /\ Jump("last", NumPages(shown))
  <2>1. NumPages(shown) \in 2..NumPages(shown)
    BY <1>1, <1>8 DEF HasNext
  <2> QED BY <1>1, <1>3, <1>8, <2>1
<1> QED BY <1>4, <1>5, <1>6, <1>7, <1>8

\* Links of a column header, of the size menu and of the filter panel.
LEMMA FollowLinkInv ==
  ASSUME IInv, pc = "shown", FollowSort \/ FollowSize \/ FollowChoice \/ FollowReset
  PROVE  IInv'
<1> DEFINE r == shown.req
<1>1. r \in Requests /\ Offered(r.sort) /\ r.size \in OwnSizes
  BY ShownRequest
<1>2. ASSUME NEW control \in {"sort", "size", "flag", "day", "reset"},
             NEW u \in Requests, NEW w \in Requests, FollowLink(control, w, u),
             Offered(u.sort), u.size \in OwnSizes \cup Sizes, SameButFlag(u, w), u.size = w.size,
             (control = "reset" /\ Defaulted) \/ Flag(u) = Flag(w),
             control # "size" => u.size \in OwnSizes,
             control = "flag" => w.flag \in FlagChoices /\ u.flag = Chosen(w.flag, "", Defaulted)
      PROVE  IInv'
  <2>1. Ask(control, ListURL(u, 1), [w EXCEPT !.page = 1])
    BY <1>2 DEF FollowLink
  <2>2. control \in Links /\ control \notin {"next", "last"} /\ control # "next" /\ 1 \in Nat \ {0}
    BY DEF Links
  <2> QED BY <1>2, <2>1, <2>2, LinkInv
<1>3. CASE FollowSort
  <2>1. PICK sort \in Sorts \ {""} :
          Column(sort) \in Sortable /\ FollowLink("sort", [r EXCEPT !.sort = sort], [r EXCEPT !.sort = sort])
    BY <1>3 DEF FollowSort
  <2> DEFINE w == [r EXCEPT !.sort = sort]
  <2>2. w \in Requests /\ w.sort = sort /\ w.size = r.size
    BY <1>1 DEF Requests
  <2>3. FollowLink("sort", w, w)
    BY <2>1
  <2> HIDE DEF w
  <2>4. Offered(w.sort) /\ SameButFlag(w, w)
    BY <2>1, <2>2 DEF Offered, SameButFlag
  <2> QED BY <1>1, <1>2, <2>2, <2>3, <2>4
<1>4. CASE FollowSize
  <2>1. PICK size \in Sizes : FollowLink("size", [r EXCEPT !.size = size], [r EXCEPT !.size = size])
    BY <1>4 DEF FollowSize
  <2> DEFINE w == [r EXCEPT !.size = size]
  <2>2. w \in Requests /\ w.sort = r.sort /\ w.size = size
    BY <1>1, Values DEF Requests
  <2>3. FollowLink("size", w, w)
    BY <2>1
  <2> HIDE DEF w
  <2>4. Offered(w.sort) /\ SameButFlag(w, w)
    BY <1>1, <2>2 DEF SameButFlag
  <2> QED BY <1>2, <2>1, <2>2, <2>3, <2>4
<1>5. ASSUME NEW c \in FlagChoices,
             FollowLink("flag", [r EXCEPT !.flag = c], [r EXCEPT !.flag = Chosen(c, "", Defaulted)])
      PROVE  IInv'
  <2> DEFINE w == [r EXCEPT !.flag = c]
             u == [r EXCEPT !.flag = Chosen(c, "", Defaulted)]
  <2>1. c \in FlagRaw /\ Chosen(c, "", Defaulted) \in FlagRaw \cup {Nil}
    BY DEF FlagChoices, FlagRaw, Chosen
  <2>2. /\ w \in Requests /\ w.sort = r.sort /\ w.size = r.size /\ w.search = r.search /\ w.day = r.day
        /\ w.flag = c
    BY <1>1, <2>1 DEF Requests
  <2>3. /\ u \in Requests /\ u.sort = r.sort /\ u.size = r.size /\ u.search = r.search /\ u.day = r.day
        /\ u.flag = Chosen(c, "", Defaulted)
    BY <1>1, <2>1 DEF Requests
  <2>4. FollowLink("flag", w, u)
    BY <1>5
  <2> HIDE DEF w, u
  <2>5. Flag(u) = Flag(w)
    BY <2>1, <2>2, <2>3, Values DEF Flag, Chosen
  <2>6. SameButFlag(u, w) /\ Flag(u) = Flag(w) /\ Offered(u.sort)
    BY <1>1, <2>2, <2>3, <2>5 DEF SameButFlag
  <2> QED BY <1>1, <1>2, <2>2, <2>3, <2>4, <2>6
<1>6. ASSUME NEW c \in DayChoices,
             FollowLink("day", [r EXCEPT !.day = c], [r EXCEPT !.day = Chosen(c, <<>>, FALSE)])
      PROVE  IInv'
  <2> DEFINE w == [r EXCEPT !.day = c]
             u == [r EXCEPT !.day = Chosen(c, <<>>, FALSE)]
  <2>1. c \in DayRaw /\ Chosen(c, <<>>, FALSE) \in DayRaw \cup {Nil}
    BY DEF DayChoices, DayRaw, Chosen
  <2>2. /\ w \in Requests /\ w.sort = r.sort /\ w.size = r.size /\ w.search = r.search /\ w.flag = r.flag
        /\ w.day = c
    BY <1>1, <2>1 DEF Requests
  <2>3. /\ u \in Requests /\ u.sort = r.sort /\ u.size = r.size /\ u.search = r.search /\ u.flag = r.flag
        /\ u.day = Chosen(c, <<>>, FALSE)
    BY <1>1, <2>1 DEF Requests
  <2>4. FollowLink("day", w, u)
    BY <1>6
  <2> HIDE DEF w, u
  <2>5. u.day = w.day \/ {u.day, w.day} \subseteq Blank
    BY <2>2, <2>3 DEF Chosen, Blank
  <2>6. SameButFlag(u, w) /\ Flag(u) = Flag(w) /\ Offered(u.sort)
    BY <1>1, <2>2, <2>3, <2>5 DEF SameButFlag, Flag
  <2> QED BY <1>1, <1>2, <2>2, <2>3, <2>4, <2>6
<1>7. CASE FollowChoice
  BY <1>5, <1>6, <1>7 DEF FollowChoice
<1>8. CASE FollowReset
  <2> DEFINE w == [r EXCEPT !.search = FALSE, !.flag = "", !.day = <<>>]
             u == [r EXCEPT !.search = FALSE, !.flag = Nil, !.day = Nil]
  <2>1. "" \in FlagRaw /\ <<>> \in DayRaw
    BY DEF FlagRaw, DayRaw
  <2>2. w \in Requests /\ w.sort = r.sort /\ w.size = r.size /\ w.search = FALSE /\ w.flag = "" /\ w.day = <<>>
    BY <1>1, <2>1 DEF Requests
  <2>3. u \in Requests /\ u.sort = r.sort /\ u.size = r.size /\ u.search = FALSE /\ u.flag = Nil /\ u.day = Nil
    BY <1>1 DEF Requests
  <2>4. FollowLink("reset", w, u)
    BY <1>8 DEF FollowReset
  <2> HIDE DEF w, u
  <2>5. Defaulted \/ Flag(u) = Flag(w)
    BY <2>2, <2>3, Values DEF Flag, FlagRaw
  <2>6. SameButFlag(u, w) /\ Offered(u.sort)
    BY <1>1, <2>2, <2>3 DEF SameButFlag, Blank
  <2> QED BY <1>1, <1>2, <2>2, <2>3, <2>4, <2>5, <2>6
<1> QED BY <1>3, <1>4, <1>7, <1>8

\* To a record and back, and the two forms.
LEMMA SubmitInv ==
  ASSUME IInv, pc = "shown", Return \/ SubmitSearch \/ SubmitRange
  PROVE  IInv'
<1> DEFINE r == shown.req
<1>1. r \in Requests /\ Offered(r.sort) /\ r.size \in OwnSizes /\ r.page \in Nat
  BY ShownRequest DEF Requests
<1>2. CASE Return
  <2> DEFINE u == ListURL(r, r.page)
             q == RequestOf(u)
  <2>1. /\ u \in Urls /\ q.search = r.search /\ q.flag = r.flag /\ q.day = r.day /\ q.sort = r.sort
        /\ Number(q) = (IF r.page < 1 THEN 1 ELSE r.page) /\ (Told(r.size) => Limit(q) = Limit(r))
    BY <1>1, RequestOfLink
  <2>2. Ask("return", u, r)
    BY <1>2 DEF Return
  <2> HIDE DEF u
  <2>3. SameButFlag(q, r) /\ Flag(q) = Flag(r) /\ Number(q) = Number(r)
    BY <2>1 DEF SameButFlag, Flag, Number
  <2>4. "return" \in Links \cup Forms
    BY DEF Links
  <2> HIDE DEF q
  <2> QED BY <1>1, <2>1, <2>2, <2>3, <2>4, AskInv DEF q
<1>3. CASE SubmitSearch
  <2>1. PICK b \in BOOLEAN : Ask("search", ListForm([r EXCEPT !.search = b]), [r EXCEPT !.search = b, !.page = 1])
    BY <1>3 DEF SubmitSearch
  <2> DEFINE v == [r EXCEPT !.search = b]
             w == [r EXCEPT !.search = b, !.page = 1]
             u == ListForm(v)
             q == RequestOf(u)
  <2>2. v \in Requests /\ v.sort = r.sort /\ v.search = b /\ v.flag = r.flag /\ v.day = r.day
    BY <1>1 DEF Requests
  <2>3. /\ w \in Requests /\ w.sort = r.sort /\ w.search = b /\ w.flag = r.flag /\ w.day = r.day
        /\ w.page = 1
    BY <1>1 DEF Requests
  <2>4. Ask("search", u, w)
    BY <2>1
  <2> HIDE DEF v, w
  <2>5. /\ u \in Urls /\ q.search = v.search /\ q.flag = v.flag /\ q.day = v.day /\ q.sort = v.sort
        /\ Number(q) = 1
    BY <1>1, <2>2, RequestOfForm
  <2> HIDE DEF u
  <2>6. SameButFlag(q, w) /\ Flag(q) = Flag(w) /\ Number(q) = Number(w)
    BY <2>2, <2>3, <2>5 DEF SameButFlag, Flag, Number
  <2>7. "search" \in Links \cup Forms /\ "search" \notin Links
    BY DEF Links, Forms
  <2> HIDE DEF q
  <2> QED BY <2>3, <2>4, <2>5, <2>6, <2>7, AskInv DEF q
<1>4. CASE SubmitRange
  <2>1. PICK range \in (0..LastDay) \X (0..LastDay) :
          Ask("range", [ListForm(r) EXCEPT !.day = Nil, !.range = range], [r EXCEPT !.day = range, !.page = 1])
    BY <1>4 DEF SubmitRange
  <2> DEFINE w == [r EXCEPT !.day = range, !.page = 1]
             u == [ListForm(r) EXCEPT !.day = Nil, !.range = range]
             q == RequestOf(u)
  <2>2. range \in DayRaw /\ range # Nil
    BY Values DEF DayRaw
  <2>3. /\ w \in Requests /\ w.sort = r.sort /\ w.search = r.search /\ w.flag = r.flag /\ w.day = range
        /\ w.page = 1
    BY <1>1, <2>2 DEF Requests
  <2>4. ListForm(r) \in Urls
    BY <1>1, RequestOfForm
  <2>5. /\ u \in Urls /\ u.search = r.search /\ u.flag = r.flag /\ u.sort = r.sort /\ u.range = range
        /\ u.page = Nil
    BY <2>4 DEF ListForm, Urls
  <2>6. Ask("range", u, w)
    BY <2>1
  <2> HIDE DEF w, u
  <2>7. /\ q.search = u.search /\ q.flag = u.flag /\ q.day = FoldRange(u) /\ q.sort = u.sort
        /\ q.page = 1
    BY <1>1, <2>5, RequestOfUrl
  <2>8. q.day = range \/ {q.day, range} \subseteq Blank
    BY <2>2, <2>5, <2>7 DEF FoldRange, Blank
  <2>9. SameButFlag(q, w) /\ Flag(q) = Flag(w) /\ Number(q) = Number(w)
    BY <2>3, <2>5, <2>7, <2>8 DEF SameButFlag, Flag, Number
  <2>10. "range" \in Links \cup Forms /\ "range" \notin Links
    BY DEF Links, Forms
  <2> HIDE DEF q
  <2> QED BY <2>3, <2>5, <2>6, <2>9, <2>10, AskInv DEF q
<1> QED BY <1>2, <1>3, <1>4

LEMMA NextInv == IInv /\ [Next]_vars => IInv'
<1> SUFFICES ASSUME IInv, [Next]_vars PROVE IInv'
  OBVIOUS
<1>1. CASE Browse
  BY <1>1, FollowPageInv, FollowLinkInv, SubmitInv DEF Browse
<1>2. CASE UNCHANGED vars
  <2> USE <1>2 DEF vars
  <2>1. Types'
    BY DEF IInv, Types, Counts, Pages
  <2>2. Request' = Request
    BY DEF Request
  <2>3. Kept' /\ Onward'
    BY <2>2, TableStays DEF IInv, Kept, Onward
  <2>4. ShownRows'
    BY <2>2, TableStays DEF IInv, ShownRows, Window
  <2>5. Counted'
    BY <2>2, TableStays DEF IInv, Counted, Window
  <2>6. Walked'
    BY TableStays DEF IInv, Walked
  <2>7. PagerAgrees'
    BY DEF IInv, PagerAgrees
  <2> QED BY <2>1, <2>3, <2>4, <2>5, <2>6, <2>7 DEF IInv
<1> QED BY <1>1, <1>2, CountInv, ServedInv, FailInv, ChangeInv, NewDayInv DEF Next

THEOREM Invariance == Spec => []IInv
<1> QED BY InitInv, NextInv, PTL DEF Spec
-----------------------------------------------------------------------------
(* What follows from it.                                                   *)

\* Every variable holds what the code can put there.
THEOREM TypesAlways == Spec => []TypeOK
<1>1. IInv => TypeOK
  <2> SUFFICES ASSUME IInv PROVE TypeOK
    OBVIOUS
  <2> USE DEF IInv, Types
  <2>1. Request \in Requests
    BY RequestIsComplete
  <2>2. total # Nil <=> pc = "counted"
    <3>1. ASSUME pc = "counted" PROVE total # Nil
      <4>1. total \in [n : Nat, at : Nat, days : SUBSET Days]
        BY <3>1, TableIsFinite DEF Counts
      <4> QED BY <4>1, NilAssumption
    <3> QED BY <3>1
  <2>3. shown # Nil => /\ shown.req \in Requests /\ shown.total \in 0..Cardinality(DOMAIN Content)
                       /\ shown.days \subseteq Days /\ shown.upto <= changes
    BY DEF Pages
  <2>4. shown # Nil => Len(shown.items) <= Limit(shown.req) /\ shown.at <= shown.upto
    BY DEF ShownRows
  <2> QED BY <2>1, <2>2, <2>3, <2>4 DEF TypeOK
<1> QED BY <1>1, Invariance, PTL

\* A control changes what it is about and nothing else, on any day, whatever
\* the page sizes, but for what the property names.
THEOREM LinksKeepRequests == Spec => []LinksKeepTheRest
<1>1. IInv => LinksKeepTheRest
  <2> SUFFICES ASSUME IInv PROVE LinksKeepTheRest
    OBVIOUS
  <2>1. today \in Days /\ Request \in Requests /\ Request.day \in DayRaw \cup {Nil}
    BY RequestIsComplete DEF IInv, Types, Requests
  <2>2. ASSUME via \in Links \cup Forms
        PROVE  /\ Request.search = wanted.search /\ Request.sort = wanted.sort
               /\ Window(Request.day) = Window(wanted.day)
               /\ Number(Request) = Number(wanted)
               /\ (via = "reset" /\ Defaulted) \/ Flag(Request) = Flag(wanted)
    <3>1. /\ wanted \in Requests /\ SameButFlag(Request, wanted) /\ Number(Request) = Number(wanted)
          /\ (via = "reset" /\ Defaulted) \/ Flag(Request) = Flag(wanted)
      BY <2>2 DEF IInv, Kept
    <3>2. wanted.day \in DayRaw \cup {Nil}
      BY <3>1 DEF Requests
    <3>3. Window(Request.day) = Window(wanted.day)
      BY <2>1, <3>1, <3>2, Windows DEF SameButFlag, Window
    <3> QED BY <3>1, <3>3 DEF SameButFlag
  <2>3. via \in Links /\ Told(wanted.size) => Limit(Request) = Limit(wanted)
    BY DEF IInv, Kept
  <2>4. ASSUME via \in Links \cup Forms, NEW part \in {"search", "flag", "day", "sort", "page", "size"}
        PROVE  Forgotten(part) \/ Meaning(Request)[part] = Meaning(wanted)[part]
    <3>1. CASE part = "size"
      BY <2>3, <2>4, <3>1 DEF Meaning, Forgotten
    <3>2. CASE part = "flag"
      BY <2>2, <2>4, <3>2 DEF Meaning, Forgotten
    <3>3. CASE part \in {"search", "day", "sort", "page"}
      BY <2>2, <2>4, <3>3 DEF Meaning
    <3> QED BY <2>4, <3>1, <3>2, <3>3
  <2>6. ASSUME pc = "shown", via = "flag"
        PROVE  /\ SelectedFlags(shown.req) = {wanted.flag}
               /\ \A i \in DOMAIN shown.items : FlagFits(source, wanted.flag, shown.items[i])
    <3>1. shown.req = Request
          /\ \A i \in DOMAIN shown.items : FlagFits(source, Flag(Request), shown.items[i])
      BY <2>6 DEF IInv, Types, ShownRows
    <3>2. wanted.flag \in FlagChoices /\ Request.flag = Chosen(wanted.flag, "", Defaulted)
      BY <2>6 DEF IInv, Kept
    <3>3. Nil \notin FlagChoices
      BY Values DEF FlagChoices, FlagRaw
    <3>4. CASE wanted.flag = "" /\ ~Defaulted
      <4>1. Request.flag = Nil /\ Flag(Request) = ""
        BY <3>2, <3>4 DEF Chosen, Flag
      <4>2. SelectedFlags(Request) = {""}
        BY <3>4, <4>1 DEF SelectedFlags, FlagChoices
      <4> QED BY <3>1, <3>4, <4>1, <4>2
    <3>5. CASE ~(wanted.flag = "" /\ ~Defaulted)
      <4>1. Request.flag = wanted.flag /\ Request.flag # Nil
        BY <3>2, <3>3, <3>5 DEF Chosen
      <4>2. Flag(Request) = wanted.flag
        BY <4>1 DEF Flag
      <4>3. SelectedFlags(Request) = {wanted.flag}
        BY <3>2, <4>1 DEF SelectedFlags
      <4> QED BY <3>1, <4>2, <4>3
    <3> QED BY <3>4, <3>5
  <2> QED BY <2>4, <2>6 DEF LinksKeepTheRest
<1> QED BY <1>1, Invariance, PTL

\* A bulk action on "all matching" and an export are the list on the screen.
THEOREM SelectionsAreLists == Spec => []SelectionIsList
<1>1. IInv => SelectionIsList
  <2> SUFFICES ASSUME IInv, shown # Nil,
                      shown.days = Window(shown.req.day) \/ Fixed(shown.req.day)
               PROVE  LET selected == Listing(ApplyDefaults(Parse(ListForm(shown.req))))
                      IN /\ selected = ListingOn(shown.req, shown.days)
                         /\ shown.upto = changes => PageRows(shown.req, selected) = shown.items
    BY DEF SelectionIsList, Fixed
  <2> DEFINE r == shown.req
             q == RequestOf(ListForm(r))
  <2>1. r \in Requests /\ Offered(r.sort)
    BY DEF IInv, ShownRows, Complete, Offered
  <2>2. q.search = r.search /\ q.flag = r.flag /\ q.day = r.day /\ q.sort = r.sort
    BY <2>1, RequestOfForm
  <2>3. SameRows(q, r)
    BY <2>2 DEF SameRows, SameButFlag, Flag
  <2>4. shown.days = Window(r.day)
    BY DEF IInv, ShownRows
  <2>5. Listing(q) = ListingOn(r, shown.days)
    BY <2>2, <2>3, <2>4, SameListing DEF Listing
  <2>6. Listing(ApplyDefaults(Parse(ListForm(r)))) = ListingOn(r, shown.days)
    BY <2>5 DEF RequestOf
  <2>7. shown.upto = changes => shown.items = PageRows(r, ListingOn(r, shown.days))
    BY DEF IInv, ShownRows
  <2> QED BY <2>6, <2>7
<1> QED BY <1>1, Invariance, PTL

\* A list is what matches, each record once, in the order asked for.
THEOREM ListIsSorted ==
  ASSUME present \subseteq DOMAIN Content, NEW r, NEW days
  PROVE  LET S == {k \in present : Matches(r, days, k)}
         IN /\ ListingOn(r, days) \in Bijection(1..Cardinality(S), S)
            /\ \A i, j \in 1..Cardinality(S) :
                 i < j => Before(r.sort, ListingOn(r, days)[i], ListingOn(r, days)[j])
<1> DEFINE S == {k \in present : Matches(r, days, k)}
<1>1. S \in SUBSET DOMAIN Content /\ ListingOn(r, days) = Ordered(S, r.sort)
  BY DEF ListingOn
<1> HIDE DEF S
<1>2. /\ ListingOn(r, days) \in Bijection(1..Cardinality(S), S)
      /\ \A i, j \in 1..Cardinality(S) :
           i < j => Before(r.sort, ListingOn(r, days)[i], ListingOn(r, days)[j])
  BY <1>1, OrderedIsSorted
<1> QED BY <1>2 DEF S

\* Following "next" to the last page shows the whole list.
THEOREM WalksCoverLists == Spec => []WalkCoversList
<1>1. IInv => WalkCoversList
  <2> SUFFICES ASSUME IInv, pc = "shown", walk # Nil, ~HasNext(shown), shown.upto = changes
               PROVE  walk = ListingOn(shown.req, shown.days)
    BY DEF WalkCoversList
  <2> DEFINE list == ListingOn(shown.req, shown.days)
             p == Number(shown.req)
             l == Limit(shown.req)
  <2>1. list \in Seq(DOMAIN Content) /\ Len(list) \in Nat
    BY ListingIsASeq, LenProperties DEF IInv, Types
  <2>2. shown # Nil /\ shown.at = changes
    BY DEF IInv, Walked
  <2>3. walk = SubSeq(list, 1, IF p * l < Len(list) THEN p * l ELSE Len(list))
    BY DEF IInv, Walked
  <2>4. shown.total = Len(list)
    BY <2>2 DEF IInv, ShownRows
  <2>5. p \in Nat \ {0} /\ l \in Nat \ {0} /\ NumPages(shown) \in Nat
    BY <2>2, ShownRequest, Positive
  <2>6. p >= PagesOf(Len(list), l)
    BY <2>1, <2>4, <2>5, PagesOfShown DEF HasNext
  <2> HIDE DEF list, p, l
  <2>7. Len(list) <= p * l /\ p * l \in Nat
    BY <2>1, <2>5, <2>6, PageNumbers
  <2>8. walk = SubSeq(list, 1, Len(list))
    BY <2>1, <2>3, <2>7
  <2> QED BY <2>1, <2>8, SubSeqFull DEF list
<1> QED BY <1>1, Invariance, PTL

\* The rows are as many as total and page number announce, and a page that
\* was offered has rows to show.
THEOREM PagersAgree == Spec => []PagerAgrees
<1> QED BY Invariance, PTL DEF IInv
=============================================================================
